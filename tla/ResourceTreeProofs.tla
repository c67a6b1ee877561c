-------------------------- MODULE ResourceTreeProofs --------------------------
(***************************************************************************)
(* ResourceTree, proved for every set of resources, all delays and any     *)
(* number of commands: the type invariant and that a transition once begun *)
(* has its end scheduled, for any relation of components; and that single  *)
(* commands never fail a resource, for components that form a forest.      *)
(*                                                                         *)
(* Startup, proved for any configurations and any width of the counters:   *)
(* which are turned away, what is built of the others, and that it is such *)
(* a forest.                                                               *)
(***************************************************************************)
EXTENDS ResourceTree, Startup, EventQueueProofs, FiniteSetTheorems

(* What a resource schedules is a sequence of resource events; its own end *)
(* of transition is the last of them.                                      *)
LEMMA CascadeEvents ==
  ASSUME NEW r \in Resource, NEW command \in ResourceEventType,
         NEW finished \in ResourceEventType
  PROVE  LET out == Cascade(r, command, finished)
         IN  /\ out \in Seq(Event)
             /\ Len(out) \in 1..Len(out)
             /\ out[Len(out)] = ResourceEvent(r, finished)
<1> DEFINE s == [m \in 1..Len(Components[r]) |-> ResourceEvent(Components[r][m], command)]
<1>1. Components[r] \in Seq(Resource)
  BY ResourceAssumption
<1>2. s \in Seq(Event)
  <2>1. \A m \in 1..Len(Components[r]) : s[m] \in Event
    BY <1>1 DEF ResourceEvent, Event
  <2>2. Len(Components[r]) \in Nat
    BY <1>1
  <2>3. s \in [1..Len(Components[r]) -> Event]
    BY <2>1
  <2> HIDE DEF s
  <2> QED BY <2>2, <2>3
<1>3. ResourceEvent(r, finished) \in Event
  BY DEF ResourceEvent, Event
<1>4. Cascade(r, command, finished) = Append(s, ResourceEvent(r, finished))
  BY DEF Cascade
<1> HIDE DEF s
<1> QED BY <1>2, <1>3, <1>4

-----------------------------------------------------------------------------
(* All handlers change only the addressee's state, to another power state, *)
(* and schedule resource events for the present or later.                  *)
LEMMA HandlerStep ==
  ASSUME TreeTypeOK, NEW t \in DOMAIN queue, NEW r \in Resource,
         HandleResourceEvent(r, t, NoUpdate)
  PROVE  PowerTypeOK' /\ QueueTypeOK(Event)'
<1> USE DEF SetPowerState, PowerTypeOK, PowerState
<1>1. t \in Nat /\ QueueTypeOK(Event)
  BY DEF TreeTypeOK, QueueTypeOK
<1>2. \A u \in NoUpdate : u \in Seq(Event)
  BY DEF NoUpdate
<1>3. << >> \in Seq(Event) /\ t >= t
  BY <1>1
<1>4. ASSUME NothingScheduled(t, NoUpdate) PROVE QueueTypeOK(Event)'
  BY <1>1, <1>2, <1>3, <1>4, StepQueueType DEF NothingScheduled
<1>5. CASE StartBoot(r, t, NoUpdate)
  <2>1. PowerTypeOK'
    BY <1>5 DEF StartBoot, TreeTypeOK
  <2>2. t + StartupDelay[r] \in Nat /\ t + StartupDelay[r] >= t
    BY <1>1, ResourceAssumption
  <2>3. Cascade(r, "kBoot", "kBootFinished") \in Seq(Event)
    BY CascadeEvents DEF ResourceEventType, ResourceCommand
  <2>4. EndOfStep(t, t + StartupDelay[r], Cascade(r, "kBoot", "kBootFinished"), NoUpdate)
    BY <1>5 DEF StartBoot
  <2>5. QueueTypeOK(Event)'
    BY <1>1, <1>2, <2>2, <2>3, <2>4, StepQueueType
  <2> QED BY <2>1, <2>5
<1>6. CASE StartShutdown(r, t, NoUpdate)
  <2>1. PowerTypeOK'
    BY <1>6 DEF StartShutdown, TreeTypeOK
  <2>2. t + ShutdownDelay[r] \in Nat /\ t + ShutdownDelay[r] >= t
    BY <1>1, ResourceAssumption
  <2>3. Cascade(r, "kShutdown", "kShutdownFinished") \in Seq(Event)
    BY CascadeEvents DEF ResourceEventType, ResourceCommand
  <2>4. EndOfStep(t, t + ShutdownDelay[r], Cascade(r, "kShutdown", "kShutdownFinished"), NoUpdate)
    BY <1>6 DEF StartShutdown
  <2>5. QueueTypeOK(Event)'
    BY <1>1, <1>2, <2>2, <2>3, <2>4, StepQueueType
  <2> QED BY <2>1, <2>5
<1>7. CASE BootIgnored(r, t, NoUpdate)
  BY <1>4, <1>7 DEF BootIgnored, TreeTypeOK
<1>8. CASE ShutdownIgnored(r, t, NoUpdate)
  BY <1>4, <1>8 DEF ShutdownIgnored, TreeTypeOK
<1>9. CASE StartReboot(r, t, NoUpdate)
  BY <1>4, <1>9 DEF StartReboot, TreeTypeOK
<1>10. CASE CompleteBoot(r, t, NoUpdate)
  BY <1>4, <1>10 DEF CompleteBoot, TreeTypeOK
<1>11. CASE CompleteShutdown(r, t, NoUpdate)
  BY <1>4, <1>11 DEF CompleteShutdown, TreeTypeOK
<1> QED BY <1>5, <1>6, <1>7, <1>8, <1>9, <1>10, <1>11 DEF HandleResourceEvent

LEMMA TypeInit == TreeInit => TreeTypeOK
<1> SUFFICES ASSUME TreeInit PROVE TreeTypeOK
  OBVIOUS
<1>1. PowerTypeOK
  BY DEF TreeInit, PowerInit, PowerTypeOK, PowerState
<1>2. SessionTypeOK
  <2>1. calls = 0 /\ batch = 0 /\ simulating \in BOOLEAN
    BY DEF TreeInit, SessionInit
  <2>2. 0 \in 0..MaxCalls /\ 0 \in 0..MaxBatch
    BY SessionAssumption
  <2> QED BY <2>1, <2>2 DEF SessionTypeOK
<1>3. QueueTypeOK(Event)
  <2>1. queue = << >> /\ now = 1
    BY DEF TreeInit, EvInit
  <2>2. DOMAIN queue = {}
    BY <2>1
  <2> QED BY <2>1, <2>2 DEF QueueTypeOK
<1> QED BY <1>1, <1>2, <1>3 DEF TreeTypeOK

(* A command is one more event of the present. *)
LEMMA CommandStep ==
  ASSUME TreeTypeOK, NEW r \in Resource, NEW type \in ResourceCommand,
         DoResourceAction(r, type)
  PROVE  /\ TreeTypeOK'
         /\ UNCHANGED power
         /\ \A f : Queued(f) => Queued(f)'
<1>1. ResourceEvent(r, type) \in Event
  BY DEF ResourceEvent, Event, ResourceEventType
<1>2. queue' = Insert(queue, now, now, <<ResourceEvent(r, type)>>, FALSE) /\ now' = now
  BY DEF DoResourceAction, Submit
<1>3. QueueTypeOK(Event)' /\ \A f : Queued(f) => Queued(f)'
  BY <1>1, <1>2, InsertNow DEF TreeTypeOK
<1>4. SessionTypeOK' /\ UNCHANGED power
  BY SessionAssumption DEF DoResourceAction, Submit, Accept, SessionTypeOK, TreeTypeOK
<1>5. PowerTypeOK'
  BY <1>4 DEF TreeTypeOK, PowerTypeOK
<1> QED BY <1>3, <1>4, <1>5 DEF TreeTypeOK

LEMMA TypeStep == TreeTypeOK /\ [TreeNext]_treeVars => TreeTypeOK'
<1> SUFFICES ASSUME TreeTypeOK, [TreeNext]_treeVars PROVE TreeTypeOK'
  OBVIOUS
<1>1. CASE \E r \in Resource, type \in ResourceCommand : DoResourceAction(r, type)
  BY <1>1, CommandStep
<1>2. CASE SimulateAll /\ UNCHANGED power
  BY <1>2 DEF SimulateAll, TreeTypeOK, PowerTypeOK, SessionTypeOK, QueueTypeOK
<1>3. CASE SimulateAllReturns /\ UNCHANGED power
  <2>1. UNCHANGED <<power, queue, now, calls>> /\ batch' = 0 /\ simulating' \in BOOLEAN
    BY <1>3 DEF SimulateAllReturns
  <2>2. 0 \in 0..MaxBatch
    BY SessionAssumption
  <2>3. SessionTypeOK'
    BY <2>1, <2>2 DEF SessionTypeOK, TreeTypeOK
  <2> QED BY <2>1, <2>3 DEF TreeTypeOK, PowerTypeOK, QueueTypeOK
<1>4. CASE TreeStep
  <2>1. PICK t \in DOMAIN queue, r \in Resource : HandleResourceEvent(r, t, NoUpdate)
    BY <1>4 DEF TreeStep
  <2>2. PowerTypeOK' /\ QueueTypeOK(Event)'
    BY <2>1, HandlerStep
  <2>3. SessionTypeOK'
    BY <1>4 DEF TreeStep, Running, sessionVars, SessionTypeOK, TreeTypeOK
  <2> QED BY <2>2, <2>3 DEF TreeTypeOK
<1>5. CASE UNCHANGED treeVars
  BY <1>5 DEF treeVars, TreeTypeOK, PowerTypeOK, SessionTypeOK, QueueTypeOK
<1> QED BY <1>1, <1>2, <1>3, <1>4, <1>5 DEF TreeNext

(* Every reachable state of the resource tree is well typed: all handlers  *)
(* of resource.cpp keep every power_state_ a PowerState and the event      *)
(* loop never leaves an empty deque behind.                                *)
THEOREM TreeTypeCorrect == TreeSafetySpec => []TreeTypeOK
BY TypeInit, TypeStep, PTL DEF TreeSafetySpec

-----------------------------------------------------------------------------
(* The end of a transition still waits after a step that handled another   *)
(* event.                                                                  *)
LEMMA EndStaysScheduled ==
  ASSUME TreeTypeOK, NEW t \in DOMAIN queue, NEW r \in Resource,
         HandleResourceEvent(r, t, NoUpdate),
         NEW s \in Resource, NEW type \in ResourceEventType,
         Queued(ResourceEvent(s, type)), NextEvent(t) # ResourceEvent(s, type)
  PROVE  Queued(ResourceEvent(s, type))'
<1> DEFINE e == ResourceEvent(s, type)
<1>1. t \in Nat /\ QueueTypeOK(Event)
  BY DEF TreeTypeOK, QueueTypeOK
<1>2. << >> \in Seq(Event) /\ t >= t
  BY <1>1
<1>3. t + StartupDelay[r] \in Nat /\ t + StartupDelay[r] >= t
  BY <1>1, ResourceAssumption
<1>4. t + ShutdownDelay[r] \in Nat /\ t + ShutdownDelay[r] >= t
  BY <1>1, ResourceAssumption
<1>5. /\ Cascade(r, "kBoot", "kBootFinished") \in Seq(Event)
      /\ Cascade(r, "kShutdown", "kShutdownFinished") \in Seq(Event)
  BY CascadeEvents DEF ResourceEventType, ResourceCommand
<1>6. Queued(e) /\ e # NextEvent(t)
  OBVIOUS
<1> HIDE DEF e
<1>7. CASE NothingScheduled(t, NoUpdate)
  <2>1. Queued(e)'
    BY <1>1, <1>2, <1>6, <1>7, StepKeeps DEF NothingScheduled
  <2> QED BY <2>1 DEF e
<1>8. CASE EndOfStep(t, t + StartupDelay[r], Cascade(r, "kBoot", "kBootFinished"), NoUpdate)
  <2>1. Queued(e)'
    BY <1>1, <1>3, <1>5, <1>6, <1>8, StepKeeps
  <2> QED BY <2>1 DEF e
<1>9. CASE EndOfStep(t, t + ShutdownDelay[r], Cascade(r, "kShutdown", "kShutdownFinished"), NoUpdate)
  <2>1. Queued(e)'
    BY <1>1, <1>4, <1>5, <1>6, <1>9, StepKeeps
  <2> QED BY <2>1 DEF e
<1> QED BY <1>7, <1>8, <1>9
  DEF HandleResourceEvent, StartBoot, BootIgnored, StartShutdown, ShutdownIgnored,
      StartReboot, CompleteBoot, CompleteShutdown

(* A transition that begins has its end scheduled in the same step.        *)
LEMMA EndIsScheduled ==
  ASSUME TreeTypeOK, NEW t \in DOMAIN queue, NEW r \in Resource
  PROVE  /\ StartBoot(r, t, NoUpdate) => Queued(ResourceEvent(r, "kBootFinished"))'
         /\ StartShutdown(r, t, NoUpdate) => Queued(ResourceEvent(r, "kShutdownFinished"))'
<1>1. t \in Nat /\ QueueTypeOK(Event)
  BY DEF TreeTypeOK, QueueTypeOK
<1>2. ASSUME StartBoot(r, t, NoUpdate) PROVE Queued(ResourceEvent(r, "kBootFinished"))'
  <2> DEFINE out == Cascade(r, "kBoot", "kBootFinished")
  <2>1. /\ out \in Seq(Event)
        /\ Len(out) \in 1..Len(out)
        /\ ResourceEvent(r, "kBootFinished") = out[Len(out)]
    BY CascadeEvents DEF ResourceEventType, ResourceCommand
  <2>2. t + StartupDelay[r] \in Nat /\ t + StartupDelay[r] >= t
    BY <1>1, ResourceAssumption
  <2>3. EndOfStep(t, t + StartupDelay[r], out, NoUpdate)
    BY <1>2 DEF StartBoot
  <2> HIDE DEF out
  <2> QED BY <1>1, <2>1, <2>2, <2>3, StepFiles
<1>3. ASSUME StartShutdown(r, t, NoUpdate)
      PROVE  Queued(ResourceEvent(r, "kShutdownFinished"))'
  <2> DEFINE out == Cascade(r, "kShutdown", "kShutdownFinished")
  <2>1. /\ out \in Seq(Event)
        /\ Len(out) \in 1..Len(out)
        /\ ResourceEvent(r, "kShutdownFinished") = out[Len(out)]
    BY CascadeEvents DEF ResourceEventType, ResourceCommand
  <2>2. t + ShutdownDelay[r] \in Nat /\ t + ShutdownDelay[r] >= t
    BY <1>1, ResourceAssumption
  <2>3. EndOfStep(t, t + ShutdownDelay[r], out, NoUpdate)
    BY <1>3 DEF StartShutdown
  <2> HIDE DEF out
  <2> QED BY <1>1, <2>1, <2>2, <2>3, StepFiles
<1> QED BY <1>2, <1>3

(* What a handler does to the state of its own resource and of the others. *)
LEMMA HandlerPower ==
  ASSUME TreeTypeOK, NEW t \in DOMAIN queue, NEW r \in Resource,
         HandleResourceEvent(r, t, NoUpdate)
  PROVE  /\ \A s \in Resource \ {r} : power'[s] = power[s]
         /\ \E type \in ResourceEventType : NextEvent(t) = ResourceEvent(r, type)
         /\ \/ StartBoot(r, t, NoUpdate) /\ power'[r] = "kTurningOn"
            \/ StartShutdown(r, t, NoUpdate) /\ power'[r] = "kTurningOff"
            \/ /\ power'[r] = power[r]
               /\ \E type \in ResourceCommand : NextEvent(t) = ResourceEvent(r, type)
            \/ power'[r] \in {"kRunning", "kOff", "kFailure"}
<1> USE DEF TreeTypeOK, PowerTypeOK, SetPowerState, Receives, ResourceEventType, ResourceCommand
<1>1. CASE StartBoot(r, t, NoUpdate)
  BY <1>1 DEF StartBoot
<1>2. CASE StartShutdown(r, t, NoUpdate)
  BY <1>2 DEF StartShutdown
<1>3. CASE BootIgnored(r, t, NoUpdate)
  BY <1>3 DEF BootIgnored
<1>4. CASE ShutdownIgnored(r, t, NoUpdate)
  BY <1>4 DEF ShutdownIgnored
<1>5. CASE StartReboot(r, t, NoUpdate)
  BY <1>5 DEF StartReboot
<1>6. CASE CompleteBoot(r, t, NoUpdate)
  BY <1>6 DEF CompleteBoot
<1>7. CASE CompleteShutdown(r, t, NoUpdate)
  BY <1>7 DEF CompleteShutdown
<1> QED BY <1>1, <1>2, <1>3, <1>4, <1>5, <1>6, <1>7 DEF HandleResourceEvent

LEMMA ScheduledStep ==
  TreeTypeOK /\ TransitionScheduled /\ [TreeNext]_treeVars => TransitionScheduled'
<1> SUFFICES ASSUME TreeTypeOK, TransitionScheduled, [TreeNext]_treeVars
             PROVE  TransitionScheduled'
  OBVIOUS
<1>1. ASSUME UNCHANGED power, \A f : Queued(f) => Queued(f)' PROVE TransitionScheduled'
  <2>1. ASSUME NEW s \in Resource, power'[s] = "kTurningOn"
        PROVE  Queued(ResourceEvent(s, "kBootFinished"))'
    <3> DEFINE e == ResourceEvent(s, "kBootFinished")
    <3>1. Queued(e)
      BY <1>1, <2>1 DEF TransitionScheduled
    <3> HIDE DEF e
    <3>2. Queued(e)'
      BY <1>1, <3>1
    <3> QED BY <3>2 DEF e
  <2>2. ASSUME NEW s \in Resource, power'[s] = "kTurningOff"
        PROVE  Queued(ResourceEvent(s, "kShutdownFinished"))'
    <3> DEFINE e == ResourceEvent(s, "kShutdownFinished")
    <3>1. Queued(e)
      BY <1>1, <2>2 DEF TransitionScheduled
    <3> HIDE DEF e
    <3>2. Queued(e)'
      BY <1>1, <3>1
    <3> QED BY <3>2 DEF e
  <2> QED BY <2>1, <2>2 DEF TransitionScheduled
<1>2. CASE \E r \in Resource, type \in ResourceCommand : DoResourceAction(r, type)
  BY <1>1, <1>2, CommandStep
<1>3. CASE UNCHANGED <<power, queue>>
  <2>1. \A f : Queued(f) => Queued(f)'
    BY <1>3 DEF Queued, QueuedAt
  <2> QED BY <1>1, <1>3, <2>1
<1>4. CASE TreeStep
  <2>1. PICK t \in DOMAIN queue, r \in Resource : HandleResourceEvent(r, t, NoUpdate)
    BY <1>4 DEF TreeStep
  <2>2. ASSUME NEW s \in Resource, power'[s] = "kTurningOn"
        PROVE  Queued(ResourceEvent(s, "kBootFinished"))'
    <3>1. CASE s = r /\ StartBoot(r, t, NoUpdate)
      BY <3>1, EndIsScheduled
    <3>2. CASE ~(s = r /\ StartBoot(r, t, NoUpdate))
      <4>1. power[s] = "kTurningOn" /\ NextEvent(t) # ResourceEvent(s, "kBootFinished")
        BY <2>1, <2>2, <3>2, HandlerPower DEF ResourceEvent, ResourceCommand
      <4>2. Queued(ResourceEvent(s, "kBootFinished")) /\ "kBootFinished" \in ResourceEventType
        BY <4>1 DEF TransitionScheduled, ResourceEventType
      <4> QED BY <2>1, <4>1, <4>2, EndStaysScheduled
    <3> QED BY <3>1, <3>2
  <2>3. ASSUME NEW s \in Resource, power'[s] = "kTurningOff"
        PROVE  Queued(ResourceEvent(s, "kShutdownFinished"))'
    <3>1. CASE s = r /\ StartShutdown(r, t, NoUpdate)
      BY <3>1, EndIsScheduled
    <3>2. CASE ~(s = r /\ StartShutdown(r, t, NoUpdate))
      <4>1. power[s] = "kTurningOff" /\ NextEvent(t) # ResourceEvent(s, "kShutdownFinished")
        BY <2>1, <2>3, <3>2, HandlerPower DEF ResourceEvent, ResourceCommand
      <4>2. Queued(ResourceEvent(s, "kShutdownFinished")) /\ "kShutdownFinished" \in ResourceEventType
        BY <4>1 DEF TransitionScheduled, ResourceEventType
      <4> QED BY <2>1, <4>1, <4>2, EndStaysScheduled
    <3> QED BY <3>1, <3>2
  <2> QED BY <2>2, <2>3 DEF TransitionScheduled
<1> QED BY <1>2, <1>3, <1>4 DEF TreeNext, treeVars, SimulateAll, SimulateAllReturns

(* A resource in kTurningOn or kTurningOff always has the event that ends  *)
(* the transition still to come, whatever commands overtake it: no later   *)
(* command, and no component's event, can strand it there.  The invariant  *)
(* is inductive together with the type invariant.                          *)
THEOREM TransitionsEnd == TreeSafetySpec => []TransitionScheduled
<1>1. TreeInit => TransitionScheduled
  BY DEF TreeInit, PowerInit, TransitionScheduled
<1> QED BY <1>1, TypeInit, TypeStep, ScheduledStep, PTL DEF TreeSafetySpec

-----------------------------------------------------------------------------
(* What "below" means in a forest.                                         *)
LEMMA BelowFacts ==
  ASSUME NEW r \in Resource, NEW c \in Resource
  PROVE  /\ Directly(r, c) => Below(r, c)
         /\ \A d \in Resource : Below(r, c) /\ Below(c, d) => Below(r, d)
<1>1. ASSUME Directly(r, c) PROVE Below(r, c)
  BY <1>1 DEF Below
<1>2. ASSUME NEW d \in Resource, Below(r, c), Below(c, d) PROVE Below(r, d)
  <2>1. ASSUME NEW S \in SUBSET Resource, Closed(S),
               \A x \in Resource : Directly(r, x) => x \in S
        PROVE  d \in S
    <3>1. c \in S
      BY <1>2, <2>1 DEF Below
    <3>2. \A x \in Resource : Directly(c, x) => x \in S
      BY <2>1, <3>1 DEF Closed
    <3> QED BY <1>2, <2>1, <3>2 DEF Below
  <2> QED BY <2>1 DEF Below
<1> QED BY <1>1, <1>2

(* Who is above a resource is above the one it is a component of, or is it.*)
LEMMA AboveComponent ==
  ASSUME ComponentsFormForest, NEW x \in Resource, NEW r \in Resource, NEW c \in Resource,
         Directly(r, c), Below(x, c)
  PROVE  x = r \/ Below(x, r)
<1> SUFFICES ASSUME x # r, ~Below(x, r) PROVE FALSE
  OBVIOUS
<1>1. PICK S \in SUBSET Resource :
        Closed(S) /\ (\A d \in Resource : Directly(x, d) => d \in S) /\ r \notin S
  BY DEF Below
<1> DEFINE T == S \ {c}
<1>2. \A p \in Resource : Directly(p, c) => p = r
  BY DEF ComponentsFormForest, Directly
<1>3. Closed(T) /\ \A d \in Resource : Directly(x, d) => d \in T
  BY <1>1, <1>2 DEF Closed
<1>4. c \in T
  BY <1>3 DEF Below
<1> QED BY <1>4

-----------------------------------------------------------------------------
(* FailsOnlyInBatch needs to know what can wait together when one command  *)
(* is simulated alone.  All that waits is of the kind of that command;     *)
(* the end of a transition finds the state the transition has set, and no  *)
(* resource has two ends to come; and who is yet to be shut down has no    *)
(* other event to come, nor has anybody below it, so that its own cascade  *)
(* will be the first to get there.                                         *)
Kind == {{"kBoot", "kBootFinished"}, {"kShutdown", "kShutdownFinished"}, {"kReboot"}}

End == {"kBootFinished", "kShutdownFinished"}

IsExpected(e, states) ==
  /\ e.type = "kBootFinished" => states[e.to] = "kTurningOn"
  /\ e.type = "kShutdownFinished" => states[e.to] = "kTurningOff"

Apart(e, f) ==
  /\ e.type = "kShutdown" => e.to # f.to /\ ~Below(e.to, f.to)
  /\ e.type \in End /\ f.type \in End => e.to # f.to

AllExpected(K) ==
  \A u \in DOMAIN queue : \A m \in 1..Len(queue[u]) :
    queue[u][m].type \in K /\ IsExpected(queue[u][m], power)

AllApart ==
  \A u \in DOMAIN queue, w \in DOMAIN queue :
    \A m \in 1..Len(queue[u]), j \in 1..Len(queue[w]) :
      (u = w /\ m = j) \/ Apart(queue[u][m], queue[w][j])

AloneInv ==
  /\ ~simulating /\ batch = 0 => queue = << >>
  /\ batch <= 1 => AllApart /\ \E K \in Kind : AllExpected(K)

(* An event that waits after a step waited before it, behind the one that  *)
(* was handled, or is new.                                                 *)
OldPlace(t, u, m) == IF u = t THEN m + 1 ELSE m

HasWaited(t, u, m) ==
  /\ u \in DOMAIN queue
  /\ OldPlace(t, u, m) \in 1..Len(queue[u])
  /\ u = t => OldPlace(t, u, m) # 1
  /\ queue'[u][m] = queue[u][OldPlace(t, u, m)]

LEMMA TreeSources ==
  ASSUME TreeTypeOK, NEW t \in DOMAIN queue,
         NEW STATE at, at \in Nat, at >= t, NEW STATE out, out \in Seq(Event),
         EndOfStep(t, at, out, NoUpdate),
         NEW u \in DOMAIN queue', NEW m \in 1..Len(queue'[u])
  PROVE  HasWaited(t, u, m) \/ IsNew(t, at, out, u, m)
<1>1. QueueTypeOK(Event)
  BY DEF TreeTypeOK
<1>2. \/ WasFiled(t, u, m)
      \/ HasMovedUp(t, u, m)
      \/ IsNew(t, at, out, u, m)
      \/ IsUpdate(t, NoUpdate, u)
  BY <1>1, StepSources
<1>3. ~IsUpdate(t, NoUpdate, u)
  BY DEF IsUpdate, NoUpdate
<1>4. m \in Nat \ {0}
  OBVIOUS
<1> QED BY <1>2, <1>3, <1>4 DEF WasFiled, HasMovedUp, HasWaited, OldPlace

(* The new events fit those that wait: what is left to show of a handler.  *)
Others(t) ==
  {e \in Event : \E u \in DOMAIN queue : \E m \in 1..Len(queue[u]) :
                   queue[u][m] = e /\ (u = t => m # 1)}

Fits(K, t, out) ==
  /\ \A k \in 1..Len(out) : out[k].type \in K /\ IsExpected(out[k], power')
  /\ \A e \in Others(t) : IsExpected(e, power')
  /\ \A k \in 1..Len(out), e \in Others(t) : Apart(out[k], e) /\ Apart(e, out[k])
  /\ \A k \in 1..Len(out), l \in 1..Len(out) : k = l \/ Apart(out[k], out[l])

LEMMA StepAlone ==
  ASSUME TreeTypeOK, NEW t \in DOMAIN queue,
         NEW STATE at, at \in Nat, at >= t, NEW STATE out, out \in Seq(Event),
         EndOfStep(t, at, out, NoUpdate),
         NEW K \in Kind, AllExpected(K), AllApart, Fits(K, t, out)
  PROVE  AllExpected(K)' /\ AllApart'
<1>1. \A u \in DOMAIN queue : queue[u] \in Seq(Event)
  BY DEF TreeTypeOK, QueueTypeOK
<1>2. ASSUME NEW u \in DOMAIN queue', NEW m \in 1..Len(queue'[u]), HasWaited(t, u, m)
      PROVE  queue'[u][m] \in Others(t)
  BY <1>1, <1>2 DEF HasWaited, Others
<1>3. \A u \in DOMAIN queue' : \A m \in 1..Len(queue'[u]) :
        HasWaited(t, u, m) \/ IsNew(t, at, out, u, m)
  BY TreeSources
<1>4. ASSUME NEW u \in DOMAIN queue', NEW m \in 1..Len(queue'[u])
      PROVE  queue'[u][m].type \in K /\ IsExpected(queue'[u][m], power')
  <2>1. CASE HasWaited(t, u, m)
    <3>1. queue'[u][m].type \in K
      BY <2>1 DEF HasWaited, AllExpected
    <3>2. IsExpected(queue'[u][m], power')
      BY <1>2, <2>1 DEF Fits
    <3> QED BY <3>1, <3>2
  <2>2. CASE IsNew(t, at, out, u, m)
    BY <2>2 DEF IsNew, Fits
  <2> QED BY <1>3, <2>1, <2>2
<1>5. ASSUME NEW u \in DOMAIN queue', NEW w \in DOMAIN queue',
             NEW m \in 1..Len(queue'[u]), NEW j \in 1..Len(queue'[w])
      PROVE  (u = w /\ m = j) \/ Apart(queue'[u][m], queue'[w][j])
  <2>1. CASE HasWaited(t, u, m) /\ HasWaited(t, w, j)
    <3>1. \/ u = w /\ OldPlace(t, u, m) = OldPlace(t, w, j)
          \/ Apart(queue[u][OldPlace(t, u, m)], queue[w][OldPlace(t, w, j)])
      BY <2>1 DEF HasWaited, AllApart
    <3>2. m \in Nat /\ j \in Nat
      OBVIOUS
    <3> QED BY <2>1, <3>1, <3>2 DEF HasWaited, OldPlace
  <2>2. CASE HasWaited(t, u, m) /\ IsNew(t, at, out, w, j)
    BY <1>2, <2>2 DEF IsNew, Fits
  <2>3. CASE IsNew(t, at, out, u, m) /\ HasWaited(t, w, j)
    BY <1>2, <2>3 DEF IsNew, Fits
  <2>4. CASE IsNew(t, at, out, u, m) /\ IsNew(t, at, out, w, j)
    <3>1. PICK k \in 1..Len(out) :
            /\ queue'[u][m] = out[k]
            /\ m = k + (IF u = t THEN Len(queue[t]) - 1 ELSE Len(At(queue, u)))
      BY <2>4 DEF IsNew
    <3>2. PICK l \in 1..Len(out) :
            /\ queue'[w][j] = out[l]
            /\ j = l + (IF w = t THEN Len(queue[t]) - 1 ELSE Len(At(queue, w)))
      BY <2>4 DEF IsNew
    <3>3. u = w
      BY <2>4 DEF IsNew
    <3>4. k = l => m = j
      BY <3>1, <3>2, <3>3
    <3> QED BY <3>1, <3>2, <3>3, <3>4 DEF Fits
  <2> QED BY <1>3, <2>1, <2>2, <2>3, <2>4
<1>6. AllExpected(K)'
  BY <1>4 DEF AllExpected
<1>7. AllApart'
  BY <1>5 DEF AllApart
<1> QED BY <1>6, <1>7

(* The event handled and the others.                                       *)
LEMMA HandledAndOthers ==
  ASSUME TreeTypeOK, NEW t \in DOMAIN queue, NEW K \in Kind, AllExpected(K), AllApart
  PROVE  /\ NextEvent(t) \in Event
         /\ NextEvent(t).type \in K /\ IsExpected(NextEvent(t), power)
         /\ \A e \in Others(t) :
              /\ e.type \in K /\ IsExpected(e, power)
              /\ Apart(NextEvent(t), e) /\ Apart(e, NextEvent(t))
<1>1. \A u \in DOMAIN queue : queue[u] \in Seq(Event) \ {<< >>}
  BY DEF TreeTypeOK, QueueTypeOK
<1>2. NextEvent(t) = queue[t][1] /\ 1 \in 1..Len(queue[t]) /\ queue[t][1] \in Event
  BY <1>1 DEF NextEvent
<1>3. ASSUME NEW e \in Others(t)
      PROVE  /\ e.type \in K /\ IsExpected(e, power)
             /\ Apart(NextEvent(t), e) /\ Apart(e, NextEvent(t))
  <2>1. PICK u \in DOMAIN queue : \E m \in 1..Len(queue[u]) : queue[u][m] = e /\ (u = t => m # 1)
    BY DEF Others
  <2>2. PICK m \in 1..Len(queue[u]) : queue[u][m] = e /\ (u = t => m # 1)
    BY <2>1
  <2> QED BY <1>2, <2>2 DEF AllExpected, AllApart
<1> QED BY <1>2, <1>3 DEF AllExpected

(* What a cascade consists of.                                             *)
ConsistsOf(out, r, command, finished) ==
  LET n == Len(Components[r])
  IN  /\ n \in Nat
      /\ Len(out) = n + 1
      /\ out[n + 1] = ResourceEvent(r, finished)
      /\ \A k \in 1..n : /\ Components[r][k] \in Resource
                         /\ out[k] = ResourceEvent(Components[r][k], command)

LEMMA CascadeParts ==
  ASSUME NEW r \in Resource, NEW command, NEW finished
  PROVE  ConsistsOf(Cascade(r, command, finished), r, command, finished)
<1> DEFINE s == [m \in 1..Len(Components[r]) |-> ResourceEvent(Components[r][m], command)]
<1>1. Components[r] \in Seq(Resource)
  BY ResourceAssumption
<1>2. Len(Components[r]) \in Nat /\ \A k \in 1..Len(Components[r]) : Components[r][k] \in Resource
  BY <1>1
<1>3. s \in Seq({ResourceEvent(Components[r][m], command) : m \in 1..Len(Components[r])})
  <2>1. s \in [1..Len(Components[r]) ->
                 {ResourceEvent(Components[r][m], command) : m \in 1..Len(Components[r])}]
    OBVIOUS
  <2> HIDE DEF s
  <2> QED BY <1>2, <2>1
<1>4. Len(s) = Len(Components[r])
  BY <1>2
<1>5. \A k \in 1..Len(Components[r]) : s[k] = ResourceEvent(Components[r][k], command)
  OBVIOUS
<1>6. Cascade(r, command, finished) = Append(s, ResourceEvent(r, finished))
  BY DEF Cascade
<1> HIDE DEF s
<1> QED BY <1>2, <1>3, <1>4, <1>5, <1>6 DEF ConsistsOf

-----------------------------------------------------------------------------
(* A handler that schedules nothing and keeps the states of the others.    *)
LEMMA QuietKeepsAlone ==
  ASSUME TreeTypeOK, NEW K \in Kind, AllExpected(K), AllApart,
         NEW t \in DOMAIN queue, NothingScheduled(t, NoUpdate),
         \A e \in Others(t) : IsExpected(e, power')
  PROVE  AllExpected(K)' /\ AllApart'
<1>1. t \in Nat /\ t >= t
  BY DEF TreeTypeOK, QueueTypeOK
<1>2. << >> \in Seq(Event) /\ Len(<< >>) = 0 /\ 1..0 = {}
  OBVIOUS
<1>3. Fits(K, t, << >>)
  BY <1>2 DEF Fits
<1> QED BY <1>1, <1>2, <1>3, StepAlone DEF NothingScheduled

(* A boot: that its end is the only one to come for r follows from r being *)
(* off, as an end that waits is the end of a transition.                   *)
LEMMA BootKeepsAlone ==
  ASSUME TreeTypeOK, NEW K \in Kind, AllExpected(K), AllApart,
         NEW t \in DOMAIN queue, NEW r \in Resource, StartBoot(r, t, NoUpdate)
  PROVE  AllExpected(K)' /\ AllApart'
<1> DEFINE out == Cascade(r, "kBoot", "kBootFinished")
           n   == Len(Components[r])
<1>1. t \in Nat /\ t + StartupDelay[r] \in Nat /\ t + StartupDelay[r] >= t
  BY ResourceAssumption DEF TreeTypeOK, QueueTypeOK
<1>2. out \in Seq(Event)
  BY CascadeEvents DEF ResourceEventType, ResourceCommand
<1>3. /\ n \in Nat /\ Len(out) = n + 1
      /\ out[n + 1].to = r /\ out[n + 1].type = "kBootFinished"
      /\ \A k \in 1..n : out[k].type = "kBoot"
  <2>1. ConsistsOf(out, r, "kBoot", "kBootFinished")
    BY CascadeParts
  <2>2. \A a, b : ResourceEvent(a, b).to = a /\ ResourceEvent(a, b).type = b
    BY DEF ResourceEvent
  <2> HIDE DEF out
  <2> QED BY <2>1, <2>2 DEF ConsistsOf
<1>4. /\ power[r] = "kOff" /\ NextEvent(t).type = "kBoot"
      /\ power'[r] = "kTurningOn" /\ \A s \in Resource \ {r} : power'[s] = power[s]
  BY DEF StartBoot, SetPowerState, Receives, ResourceEvent, TreeTypeOK, PowerTypeOK
<1>5. /\ K = {"kBoot", "kBootFinished"}
      /\ \A e \in Others(t) : e \in Event /\ e.type \in K /\ IsExpected(e, power)
  <2>1. NextEvent(t).type \in K
    BY HandledAndOthers
  <2>2. K = {"kBoot", "kBootFinished"}
    BY <1>4, <2>1 DEF Kind
  <2> QED BY <2>2, HandledAndOthers DEF Others
<1>6. EndOfStep(t, t + StartupDelay[r], out, NoUpdate)
  BY DEF StartBoot
<1> HIDE DEF out, n
<1>7. \A k \in 1..Len(out) : \/ out[k].type = "kBoot"
                             \/ k = Len(out) /\ out[k].type = "kBootFinished" /\ out[k].to = r
  BY <1>3
<1>8. \A e \in Others(t) : e.type = "kBootFinished" => e.to # r
  BY <1>4, <1>5 DEF IsExpected
<1>9. \A e \in Others(t) : IsExpected(e, power')
  BY <1>4, <1>5, <1>8 DEF IsExpected, Event
<1>10. \A k \in 1..Len(out) : out[k].type \in K /\ IsExpected(out[k], power')
  BY <1>4, <1>5, <1>7 DEF IsExpected
<1>11. \A k \in 1..Len(out), e \in Others(t) : Apart(out[k], e) /\ Apart(e, out[k])
  BY <1>5, <1>7, <1>8 DEF Apart, End
<1>12. \A k \in 1..Len(out), l \in 1..Len(out) : k = l \/ Apart(out[k], out[l])
  BY <1>7 DEF Apart, End
<1>13. Fits(K, t, out)
  BY <1>9, <1>10, <1>11, <1>12 DEF Fits
<1> QED BY <1>1, <1>2, <1>6, <1>13, StepAlone

(* A shutdown: nothing else waits for r or below it, and the components it *)
(* passes the command to are different and not below one another.          *)
LEMMA ShutdownKeepsAlone ==
  ASSUME ComponentsFormForest,
         TreeTypeOK, NEW K \in Kind, AllExpected(K), AllApart,
         NEW t \in DOMAIN queue, NEW r \in Resource, StartShutdown(r, t, NoUpdate)
  PROVE  AllExpected(K)' /\ AllApart'
<1> DEFINE out == Cascade(r, "kShutdown", "kShutdownFinished")
           n   == Len(Components[r])
<1>1. t \in Nat /\ t + ShutdownDelay[r] \in Nat /\ t + ShutdownDelay[r] >= t
  BY ResourceAssumption DEF TreeTypeOK, QueueTypeOK
<1>2. out \in Seq(Event)
  BY CascadeEvents DEF ResourceEventType, ResourceCommand
<1>3. /\ n \in Nat /\ Len(out) = n + 1
      /\ out[n + 1].to = r /\ out[n + 1].type = "kShutdownFinished"
      /\ \A k \in 1..n : /\ Components[r][k] \in Resource
                         /\ out[k].type = "kShutdown" /\ out[k].to = Components[r][k]
  <2>1. ConsistsOf(out, r, "kShutdown", "kShutdownFinished")
    BY CascadeParts
  <2>2. \A a, b : ResourceEvent(a, b).to = a /\ ResourceEvent(a, b).type = b
    BY DEF ResourceEvent
  <2> HIDE DEF out
  <2> QED BY <2>1, <2>2 DEF ConsistsOf
<1>4. /\ NextEvent(t).to = r /\ NextEvent(t).type = "kShutdown"
      /\ power'[r] = "kTurningOff" /\ \A s \in Resource \ {r} : power'[s] = power[s]
  BY DEF StartShutdown, SetPowerState, Receives, ResourceEvent, TreeTypeOK, PowerTypeOK
<1>5. /\ K = {"kShutdown", "kShutdownFinished"}
      /\ \A e \in Others(t) :
           /\ e \in Event /\ e.to \in Resource
           /\ e.type \in K /\ IsExpected(e, power)
           /\ e.to # r /\ ~Below(r, e.to)
           /\ e.type = "kShutdown" => ~Below(e.to, r)
  <2>1. NextEvent(t).type \in K
    BY HandledAndOthers
  <2>2. K = {"kShutdown", "kShutdownFinished"}
    BY <1>4, <2>1 DEF Kind
  <2>3. ASSUME NEW e \in Others(t)
        PROVE  /\ e \in Event /\ e.to \in Resource
               /\ e.type \in K /\ IsExpected(e, power)
               /\ e.to # r /\ ~Below(r, e.to)
               /\ e.type = "kShutdown" => ~Below(e.to, r)
    <3>1. e \in Event /\ e.to \in Resource
      BY DEF Others, Event
    <3>2. /\ e.type \in K /\ IsExpected(e, power)
          /\ Apart(NextEvent(t), e) /\ Apart(e, NextEvent(t))
      BY HandledAndOthers
    <3> QED BY <1>4, <3>1, <3>2 DEF Apart
  <2> QED BY <2>2, <2>3
<1>6. EndOfStep(t, t + ShutdownDelay[r], out, NoUpdate)
  BY DEF StartShutdown
<1>7. \A k \in 1..n : Directly(r, Components[r][k]) /\ Below(r, Components[r][k])
  <2>1. ASSUME NEW k \in 1..n PROVE Directly(r, Components[r][k])
    BY DEF Directly
  <2> QED BY <1>3, <2>1, BelowFacts
<1>8. /\ ~Below(r, r)
      /\ \A k \in 1..n, l \in 1..n : k # l => Components[r][k] # Components[r][l]
  BY DEF ComponentsFormForest
<1> HIDE DEF out, n
<1>9. ASSUME NEW k \in 1..Len(out)
      PROVE  \/ /\ out[k].type = "kShutdown" /\ out[k].to \in Resource
                /\ Directly(r, out[k].to) /\ Below(r, out[k].to)
             \/ k = Len(out) /\ out[k].type = "kShutdownFinished" /\ out[k].to = r
  <2>1. CASE k \in 1..n
    BY <1>3, <1>7, <2>1
  <2>2. CASE k = n + 1
    BY <1>3, <2>2
  <2> QED BY <1>3, <2>1, <2>2
<1>10. \A e \in Others(t) : IsExpected(e, power')
  BY <1>4, <1>5 DEF IsExpected, Event
<1>11. \A k \in 1..Len(out) : out[k].type \in K /\ IsExpected(out[k], power')
  BY <1>4, <1>5, <1>9 DEF IsExpected
<1>12. ASSUME NEW k \in 1..Len(out), NEW e \in Others(t)
       PROVE  Apart(out[k], e) /\ Apart(e, out[k])
  <2>1. CASE k = Len(out) /\ out[k].type = "kShutdownFinished" /\ out[k].to = r
    BY <1>5, <2>1 DEF Apart
  <2>2. CASE /\ out[k].type = "kShutdown" /\ out[k].to \in Resource
             /\ Directly(r, out[k].to) /\ Below(r, out[k].to)
    <3>1. out[k].to # e.to
      BY <1>5, <2>2
    <3>2. ~Below(out[k].to, e.to)
      BY <1>5, <2>2, BelowFacts
    <3>3. e.type = "kShutdown" => ~Below(e.to, out[k].to)
      BY <1>5, <2>2, AboveComponent
    <3> QED BY <2>2, <3>1, <3>2, <3>3 DEF Apart, End
  <2> QED BY <1>9, <2>1, <2>2
<1>13. ASSUME NEW k \in 1..Len(out), NEW l \in 1..Len(out), k # l
       PROVE  Apart(out[k], out[l])
  <2>1. CASE k = Len(out) /\ out[k].type = "kShutdownFinished" /\ out[k].to = r
    <3>1. out[l].type = "kShutdown"
      BY <1>9, <1>13, <2>1
    <3> QED BY <2>1, <3>1 DEF Apart, End
  <2>2. CASE /\ out[k].type = "kShutdown" /\ out[k].to \in Resource
             /\ Directly(r, out[k].to) /\ Below(r, out[k].to)
    <3>1. CASE l = Len(out) /\ out[l].type = "kShutdownFinished" /\ out[l].to = r
      <4>1. ~Below(out[k].to, r) /\ out[k].to # r
        BY <1>8, <2>2, BelowFacts
      <4> QED BY <2>2, <3>1, <4>1 DEF Apart, End
    <3>2. CASE /\ out[l].type = "kShutdown" /\ out[l].to \in Resource
               /\ Directly(r, out[l].to) /\ Below(r, out[l].to)
      <4>1. k \in 1..n /\ l \in 1..n
        BY <1>3, <2>2, <3>2
      <4>2. out[k].to # out[l].to
        BY <1>3, <1>8, <1>13, <4>1
      <4>3. ~Below(out[k].to, out[l].to)
        <5>1. Below(out[k].to, out[l].to) => out[k].to = r \/ Below(out[k].to, r)
          BY <2>2, <3>2, AboveComponent
        <5>2. Below(out[k].to, r) => Below(r, r)
          BY <2>2, BelowFacts
        <5>3. out[k].to = r => Below(r, r)
          BY <2>2
        <5> QED BY <1>8, <5>1, <5>2, <5>3
      <4> QED BY <2>2, <4>2, <4>3 DEF Apart, End
    <3> QED BY <1>9, <3>1, <3>2
  <2> QED BY <1>9, <2>1, <2>2
<1>14. Fits(K, t, out)
  BY <1>10, <1>11, <1>12, <1>13 DEF Fits
<1> QED BY <1>1, <1>2, <1>6, <1>14, StepAlone

LEMMA HandlerKeepsAlone ==
  ASSUME ComponentsFormForest,
         TreeTypeOK, NEW K \in Kind, AllExpected(K), AllApart,
         NEW t \in DOMAIN queue, NEW r \in Resource, HandleResourceEvent(r, t, NoUpdate)
  PROVE  /\ AllExpected(K)' /\ AllApart'
         /\ \A s \in Resource : power[s] # "kFailure" => power'[s] # "kFailure"
<1>1. \A e \in Others(t) : e \in Event /\ IsExpected(e, power) /\ Apart(NextEvent(t), e)
  BY HandledAndOthers DEF Others
<1>2. IsExpected(NextEvent(t), power)
  BY HandledAndOthers
<1>3. ASSUME NothingScheduled(t, NoUpdate), UNCHANGED power
      PROVE  /\ AllExpected(K)' /\ AllApart'
             /\ \A s \in Resource : power[s] # "kFailure" => power'[s] # "kFailure"
  <2>1. \A e \in Others(t) : IsExpected(e, power')
    BY <1>1, <1>3
  <2> QED BY <1>3, <2>1, QuietKeepsAlone
<1>4. ASSUME NothingScheduled(t, NoUpdate), NEW type \in End, NextEvent(t) = ResourceEvent(r, type),
             NEW state, state # "kFailure", SetPowerState(r, state)
      PROVE  /\ AllExpected(K)' /\ AllApart'
             /\ \A s \in Resource : power[s] # "kFailure" => power'[s] # "kFailure"
  <2>1. power'[r] = state /\ \A s \in Resource \ {r} : power'[s] = power[s]
    BY <1>4 DEF SetPowerState, TreeTypeOK, PowerTypeOK
  <2>2. \A e \in Others(t) : e.type \in End => e.to \in Resource \ {r}
    BY <1>1, <1>4 DEF Apart, ResourceEvent, Event
  <2>3. \A e \in Others(t) : IsExpected(e, power')
    BY <1>1, <2>1, <2>2 DEF IsExpected, End
  <2> QED BY <1>4, <2>1, <2>3, QuietKeepsAlone
<1>5. CASE StartBoot(r, t, NoUpdate)
  <2>1. \A s \in Resource : power[s] # "kFailure" => power'[s] # "kFailure"
    BY <1>5 DEF StartBoot, SetPowerState, TreeTypeOK, PowerTypeOK
  <2> QED BY <1>5, <2>1, BootKeepsAlone
<1>6. CASE StartShutdown(r, t, NoUpdate)
  <2>1. \A s \in Resource : power[s] # "kFailure" => power'[s] # "kFailure"
    BY <1>6 DEF StartShutdown, SetPowerState, TreeTypeOK, PowerTypeOK
  <2> QED BY <1>6, <2>1, ShutdownKeepsAlone
<1>7. CASE BootIgnored(r, t, NoUpdate)
  BY <1>3, <1>7 DEF BootIgnored
<1>8. CASE ShutdownIgnored(r, t, NoUpdate)
  BY <1>3, <1>8 DEF ShutdownIgnored
<1>9. CASE StartReboot(r, t, NoUpdate)
  BY <1>3, <1>9 DEF StartReboot
<1>10. CASE CompleteBoot(r, t, NoUpdate)
  <2>1. NextEvent(t) = ResourceEvent(r, "kBootFinished") /\ "kBootFinished" \in End
    BY <1>10 DEF CompleteBoot, Receives, End
  <2>2. power[r] = "kTurningOn"
    BY <1>2, <2>1 DEF IsExpected, ResourceEvent
  <2> QED BY <1>4, <1>10, <2>1, <2>2 DEF CompleteBoot
<1>11. CASE CompleteShutdown(r, t, NoUpdate)
  <2>1. NextEvent(t) = ResourceEvent(r, "kShutdownFinished") /\ "kShutdownFinished" \in End
    BY <1>11 DEF CompleteShutdown, Receives, End
  <2>2. power[r] = "kTurningOff"
    BY <1>2, <2>1 DEF IsExpected, ResourceEvent
  <2> QED BY <1>4, <1>11, <2>1, <2>2 DEF CompleteShutdown
<1> QED BY <1>5, <1>6, <1>7, <1>8, <1>9, <1>10, <1>11 DEF HandleResourceEvent

(* The first command of a batch is all that waits.                         *)
LEMMA CommandIsAlone ==
  ASSUME TreeTypeOK, queue = << >>, NEW r \in Resource, NEW type \in ResourceCommand,
         DoResourceAction(r, type)
  PROVE  AllApart' /\ \E K \in Kind : AllExpected(K)'
<1> DEFINE e == ResourceEvent(r, type)
<1>1. e \in Event /\ e.type = type
  BY DEF ResourceEvent, Event, ResourceEventType
<1>2. queue' = Insert(queue, now, now, <<e>>, FALSE) /\ QueueTypeOK(Event)
  BY DEF DoResourceAction, Submit, TreeTypeOK
<1>3. PICK K \in Kind : type \in K
  BY DEF Kind, ResourceCommand
<1> HIDE DEF e
<1>4. DOMAIN queue' = {now} /\ InsertedAtEnd(e)
  <2>1. DOMAIN queue = {}
    OBVIOUS
  <2>2. DOMAIN queue' = DOMAIN queue \cup {now} /\ InsertedAtEnd(e)
    BY <1>1, <1>2, InsertSources
  <2> QED BY <2>1, <2>2
<1>5. \A u \in DOMAIN queue', w \in DOMAIN queue' :
        \A m \in 1..Len(queue'[u]), j \in 1..Len(queue'[w]) :
          queue'[u][m] = e /\ u = w /\ m = j
  <2>1. \A u \in DOMAIN queue' : \A m \in 1..Len(queue'[u]) :
          IsCommand(e, u, m) /\ \A j \in 1..Len(queue'[u]) : j <= m
    BY <1>4 DEF InsertedAtEnd, WasThere
  <2>2. \A u \in DOMAIN queue' : Len(queue'[u]) \in Nat
    <3>1. QueueTypeOK(Event)'
      BY CommandStep DEF TreeTypeOK
    <3> QED BY <3>1 DEF QueueTypeOK
  <2>3. ASSUME NEW u \in DOMAIN queue', NEW w \in DOMAIN queue',
               NEW m \in 1..Len(queue'[u]), NEW j \in 1..Len(queue'[w])
        PROVE  queue'[u][m] = e /\ u = w /\ m = j
    BY <1>4, <2>1, <2>2 DEF IsCommand
  <2> QED BY <2>3
<1>6. AllApart'
  BY <1>5 DEF AllApart
<1>7. AllExpected(K)'
  <2>1. IsExpected(e, power')
    BY <1>1 DEF IsExpected, ResourceCommand
  <2> QED BY <1>1, <1>3, <1>5, <2>1 DEF AllExpected
<1> QED BY <1>6, <1>7

LEMMA NothingIsApart ==
  queue = << >> => AllApart /\ \A K \in Kind : AllExpected(K)
<1>1. ASSUME queue = << >> PROVE DOMAIN queue = {}
  BY <1>1
<1> QED BY <1>1 DEF AllApart, AllExpected

LEMMA AloneStep ==
  ComponentsFormForest /\ TreeTypeOK /\ AloneInv /\ [TreeNext]_treeVars
    => /\ AloneInv'
       /\ \A r \in Resource :
            power[r] # "kFailure" /\ power'[r] = "kFailure" => batch > 1
<1> SUFFICES ASSUME ComponentsFormForest, TreeTypeOK, AloneInv, [TreeNext]_treeVars
             PROVE  /\ AloneInv'
                    /\ \A r \in Resource :
                         power[r] # "kFailure" /\ power'[r] = "kFailure" => batch > 1
  OBVIOUS
<1>0. batch \in Nat
  BY SessionAssumption DEF TreeTypeOK, SessionTypeOK
<1>1. ASSUME NEW r \in Resource, NEW type \in ResourceCommand, DoResourceAction(r, type)
      PROVE  AloneInv' /\ UNCHANGED power
  <2>1. ~simulating /\ batch' = batch + 1 /\ UNCHANGED <<simulating, power>>
    BY <1>1 DEF DoResourceAction, Submit, Accept
  <2>2. ASSUME batch' <= 1 PROVE AllApart' /\ \E K \in Kind : AllExpected(K)'
    <3>1. queue = << >>
      BY <1>0, <2>1, <2>2 DEF AloneInv
    <3> QED BY <1>1, <3>1, CommandIsAlone
  <2> QED BY <1>0, <2>1, <2>2 DEF AloneInv
<1>2. CASE SimulateAll /\ UNCHANGED power
  <2>1. simulating' /\ UNCHANGED <<batch, queue, power>>
    BY <1>2 DEF SimulateAll
  <2> QED BY <2>1 DEF AloneInv, AllApart, AllExpected
<1>3. CASE SimulateAllReturns /\ UNCHANGED power
  <2>1. queue = << >> /\ UNCHANGED <<queue, power>>
    BY <1>3 DEF SimulateAllReturns
  <2>2. AllApart /\ \E K \in Kind : AllExpected(K)
    BY <2>1, NothingIsApart DEF Kind
  <2> QED BY <2>1, <2>2 DEF AloneInv, AllApart, AllExpected
<1>4. CASE TreeStep
  <2>1. PICK t \in DOMAIN queue, r \in Resource : HandleResourceEvent(r, t, NoUpdate)
    BY <1>4 DEF TreeStep
  <2>2. simulating /\ UNCHANGED <<simulating, batch>>
    BY <1>4 DEF TreeStep, Running, sessionVars
  <2>3. CASE batch <= 1
    <3>1. PICK K \in Kind : AllApart /\ AllExpected(K)
      BY <2>3 DEF AloneInv
    <3>2. /\ AllExpected(K)' /\ AllApart'
          /\ \A s \in Resource : power[s] # "kFailure" => power'[s] # "kFailure"
      BY <2>1, <3>1, HandlerKeepsAlone
    <3> QED BY <2>2, <3>2 DEF AloneInv
  <2>4. CASE ~(batch <= 1)
    BY <1>0, <2>2, <2>4 DEF AloneInv
  <2> QED BY <2>3, <2>4
<1>5. CASE UNCHANGED treeVars
  BY <1>5 DEF treeVars, AloneInv, AllApart, AllExpected
<1> QED BY <1>1, <1>2, <1>3, <1>4, <1>5 DEF TreeNext

(* On any tree, with any delays: resources that get their commands one per *)
(* SimulateAll never fail.  A completion finds the state its own command   *)
(* has set, however the cascades of the command overtake one another.      *)
THEOREM FailureTakesBatch == ComponentsFormForest => (TreeSafetySpec => FailsOnlyInBatch)
<1> DEFINE Inv == ComponentsFormForest /\ TreeTypeOK /\ AloneInv
<1>1. ComponentsFormForest /\ TreeInit => Inv
  <2>1. TreeInit => AloneInv
    <3> SUFFICES ASSUME TreeInit PROVE AloneInv
      OBVIOUS
    <3>1. queue = << >>
      BY DEF TreeInit, EvInit
    <3>2. AllApart /\ \E K \in Kind : AllExpected(K)
      BY <3>1, NothingIsApart DEF Kind
    <3> QED BY <3>1, <3>2 DEF AloneInv
  <2> QED BY <2>1, TypeInit
<1>2. Inv /\ [TreeNext]_treeVars => Inv'
  BY AloneStep, TypeStep
<1>3. Inv /\ [TreeNext]_treeVars
        => [\A r \in Resource :
              power[r] # "kFailure" /\ power'[r] = "kFailure" => batch > 1]_treeVars
  BY AloneStep
<1> QED BY <1>1, <1>2, <1>3, PTL DEF TreeSafetySpec, FailsOnlyInBatch

-----------------------------------------------------------------------------
(***************************************************************************)
(* How the tree comes about (Startup).                                     *)
(***************************************************************************)

(* What is left of a sequence that is being read. *)
Rest(node, whole) ==
  /\ node \in Seq(Elements(whole)) /\ Len(node) <= Len(whole)
  /\ \A m \in 1..Len(node) : node[m] = whole[Len(whole) - Len(node) + m]

(* How many specifications have been read; the data center at hand and its *)
(* node.                                                                   *)
S == Len(config.specs) - Len(specs)

K == Len(config.centers) - Len(centers)

NameOf(k) == config.centers[k].name

Nodes(k) == config.centers[k].servers

J == Len(Nodes(K)) - Len(entries) + 1

Building == phase \in {"centers", "servers", "making", "listening"}

InCenter == phase \in {"servers", "making"}

NodeDone(k, j) == k < K \/ (k = K /\ (InCenter => j < J))

(* How many servers of a node have been made; all of them, as in Written;  *)
(* those of one specification or data center.                              *)
HowMany(k, j) ==
  IF NodeDone(k, j) THEN Nodes(k)[j].count
  ELSE IF k = K /\ j = J /\ phase = "making" THEN i - 1
  ELSE 0

Made == UNION {UNION {{<<k, j, n>> : n \in 1..HowMany(k, j)} : j \in DOMAIN Nodes(k)} : k \in 1..K}

OfSpec(P, s) == {p \in P : Nodes(p[1])[p[2]].spec = s}

OfCenter(P, k) == {p \in P : p[1] = k}

Serials(count) == {n % Modulus : n \in 1..count}

(* The loop over a node's servers ends. *)
Sane == phase = "making" => Head(entries).count < Modulus - 1

GoodNode(e) ==
  /\ e # Malformed
  /\ e.spec \in Elements(config.specs)
  /\ e.count > 0 => e.scheduler = "greedy"
  /\ e.count < Modulus - 1

SpecsInv ==
  /\ Rest(specs, config.specs)
  /\ \A m \in 1..S : config.specs[m] # Malformed
  /\ \A l, m \in 1..S : config.specs[l] = config.specs[m] => l = m
  /\ DOMAIN serials = {config.specs[m] : m \in 1..S}

NothingBuilt ==
  /\ centers = config.centers
  /\ names = {Cloud, VMStorage}
  /\ components = [n \in {Cloud} |-> {}]
  /\ scheduled = {}
  /\ \A s \in DOMAIN serials : serials[s] = 0

CentersInv ==
  /\ specs = << >> /\ config.specs # Malformed /\ config.centers # Malformed
  /\ Rest(centers, config.centers)
  /\ \A k \in 1..K : config.centers[k] # Malformed
  /\ \A k \in 1..K : \A j \in DOMAIN Nodes(k) : NodeDone(k, j) => GoodNode(Nodes(k)[j])
  /\ InCenter => K >= 1 /\ center = NameOf(K) /\ Rest(entries, Nodes(K))
  /\ phase = "making" =>
       /\ entries # << >> /\ Head(entries) # Malformed
       /\ Head(entries).spec \in Elements(config.specs)
       /\ i \in 0..(Modulus - 1)
       /\ i > 1 => Head(entries).scheduler = "greedy"
       /\ Sane => i \in 1..(Head(entries).count + 1)
  /\ phase = "listening" => centers = << >>

BuiltInv ==
  /\ \A k \in 1..K : NameOf(k) \notin {Cloud, VMStorage}
  /\ \A k, l \in 1..K : NameOf(k) = NameOf(l) => k = l
  /\ names = {Cloud, VMStorage} \cup {NameOf(k) : k \in 1..K} \cup scheduled
  /\ scheduled \cap ({Cloud, VMStorage} \cup {NameOf(k) : k \in 1..K}) = {}
  /\ DOMAIN components = {Cloud} \cup {NameOf(k) : k \in 1..K}
  /\ components[Cloud] = {NameOf(k) : k \in 1..K}
  /\ scheduled = UNION {components[NameOf(k)] : k \in 1..K}
  /\ \A k, l \in 1..K : k # l => components[NameOf(k)] \cap components[NameOf(l)] = {}

CountInv ==
  /\ IsFiniteSet(Made)
  /\ \A s \in DOMAIN serials :
       /\ Cardinality(OfSpec(Made, s)) <= Modulus
       /\ serials[s] = Cardinality(OfSpec(Made, s)) % Modulus
  /\ scheduled = UNION {{ServerName(s, n) : n \in Serials(Cardinality(OfSpec(Made, s)))} :
                         s \in DOMAIN serials}
  /\ \A k \in 1..K :
       /\ IsFiniteSet(components[NameOf(k)])
       /\ Cardinality(components[NameOf(k)]) = Cardinality(OfCenter(Made, k))

StartupInv ==
  /\ config \in Configs
  /\ phase \in {"specs", "error", "aborted"} \/ Building
  /\ phase \in {"error", "aborted"} => ~Acceptable
  /\ phase = "specs" =>
       /\ IF config.specs = Malformed THEN specs = Malformed /\ serials = << >> ELSE SpecsInv
       /\ NothingBuilt
  /\ Building =>
       /\ SpecsInv /\ CentersInv
       /\ Sane => BuiltInv /\ CountInv

-----------------------------------------------------------------------------
(* What the assumption says of the configuration at hand. *)
LEMMA Shape ==
  ASSUME config \in Configs
  PROVE  /\ Modulus \in Nat /\ Modulus > 1
         /\ config.specs # Malformed =>
              /\ config.specs \in Seq(Elements(config.specs))
              /\ Malformed \notin Seq(Elements(config.specs))
         /\ config.centers # Malformed => config.centers \in Seq(Elements(config.centers))
         /\ config.centers # Malformed => \A k \in DOMAIN config.centers :
              config.centers[k] # Malformed =>
                /\ Nodes(k) \in Seq(Elements(Nodes(k)))
                /\ \A j \in DOMAIN Nodes(k) :
                     Nodes(k)[j] # Malformed => Nodes(k)[j].count \in 0..(Modulus - 1)
<1>1. \A seq, k : k \in DOMAIN seq => seq[k] \in Elements(seq)
  BY DEF Elements
<1>2. Modulus \in Nat /\ Modulus > 1
  BY StartupAssumption
<1>3. config.specs # Malformed =>
        /\ config.specs \in Seq(Elements(config.specs))
        /\ Malformed \notin Seq(Elements(config.specs))
  BY StartupAssumption DEF IsSequence
<1>4. config.centers # Malformed => config.centers \in Seq(Elements(config.centers))
  BY StartupAssumption DEF IsSequence
<1>5. ASSUME config.centers # Malformed, NEW k \in DOMAIN config.centers,
             config.centers[k] # Malformed
      PROVE  /\ Nodes(k) \in Seq(Elements(Nodes(k)))
             /\ \A j \in DOMAIN Nodes(k) :
                  Nodes(k)[j] # Malformed => Nodes(k)[j].count \in 0..(Modulus - 1)
  <2>1. config.centers[k] \in Elements(config.centers) \ {Malformed}
    BY <1>1, <1>5
  <2> QED BY <1>1, <1>5, <2>1, StartupAssumption DEF IsSequence, Nodes
<1> QED BY <1>2, <1>3, <1>4, <1>5

LEMMA RestOfAll ==
  ASSUME NEW whole, whole \in Seq(Elements(whole))
  PROVE  Rest(whole, whole)
BY DEF Rest

LEMMA RestOfTail ==
  ASSUME NEW whole, whole \in Seq(Elements(whole)), NEW node, Rest(node, whole), node # << >>
  PROVE  /\ Rest(Tail(node), whole) /\ Len(Tail(node)) = Len(node) - 1
         /\ Len(node) \in Nat /\ Len(whole) \in Nat /\ Len(node) >= 1
         /\ Len(whole) - Len(node) + 1 \in DOMAIN whole
         /\ Head(node) = whole[Len(whole) - Len(node) + 1]
<1>1. /\ node \in Seq(Elements(whole)) /\ Len(node) \in Nat /\ Len(node) >= 1
      /\ Len(whole) \in Nat /\ DOMAIN whole = 1..Len(whole)
  BY DEF Rest
<1>2. /\ Tail(node) \in Seq(Elements(whole)) /\ Len(Tail(node)) = Len(node) - 1
      /\ \A m \in 1..Len(Tail(node)) : Tail(node)[m] = node[m + 1]
      /\ Head(node) = node[1]
  BY <1>1
<1>3. Len(node) <= Len(whole) /\ \A m \in 1..Len(node) : node[m] = whole[Len(whole) - Len(node) + m]
  BY DEF Rest
<1>4. ASSUME NEW m \in 1..Len(Tail(node))
      PROVE  Tail(node)[m] = whole[Len(whole) - Len(Tail(node)) + m]
  <2>1. /\ m + 1 \in 1..Len(node)
        /\ Len(whole) - Len(node) + (m + 1) = Len(whole) - Len(Tail(node)) + m
    BY <1>1, <1>2
  <2> QED BY <1>2, <1>3, <2>1
<1> QED BY <1>1, <1>2, <1>3, <1>4 DEF Rest

(* A sequence has as many elements as places exactly if no two are equal.  *)
LEMMA NoneTwice ==
  ASSUME NEW n \in Nat, NEW f, NEW T, T = {f[m] : m \in 1..n}
  PROVE  Cardinality(T) = n <=> \A l, m \in 1..n : f[l] = f[m] => l = m
<1> DEFINE g == [m \in 1..n |-> f[m]]
<1>1. g \in Surjection(1..n, T)
  BY DEF Surjection
<1>2. IsFiniteSet(1..n) /\ Cardinality(1..n) = n
  BY FS_Interval
<1>3. Cardinality(T) = n <=> g \in Injection(1..n, T)
  BY <1>1, <1>2, FS_Surjection
<1>4. g \in Injection(1..n, T) <=> \A l, m \in 1..n : f[l] = f[m] => l = m
  <2>1. g \in [1..n -> T]
    OBVIOUS
  <2> QED BY <2>1 DEF Injection, IsInjective
<1> QED BY <1>3, <1>4

LEMMA SmallMod ==
  ASSUME config \in Configs
  PROVE  /\ \A n \in Nat : n < Modulus => n % Modulus = n
         /\ Modulus % Modulus = 0
<1>1. Modulus \in Nat /\ Modulus > 1
  BY Shape
<1> HIDE DEF Modulus
<1>2. \A n \in Nat : n < Modulus => n % Modulus = n
  BY <1>1
<1>3. Modulus % Modulus = 0
  BY <1>1
<1> QED BY <1>2, <1>3

LEMMA FiniteImage ==
  ASSUME NEW n \in Int, NEW f
  PROVE  IsFiniteSet({f[m] : m \in 1..n})
<1> DEFINE T == {f[m] : m \in 1..n}
           g == [m \in 1..n |-> f[m]]
<1>1. g \in Surjection(1..n, T)
  BY DEF Surjection
<1>2. IsFiniteSet(1..n)
  BY FS_Interval
<1> QED BY <1>1, <1>2, FS_Surjection

-----------------------------------------------------------------------------
(* The servers that are written, and those that have been made. *)
LEMMA WrittenMembers ==
  \A p : p \in Written <=>
    \E k \in DOMAIN config.centers : \E j \in DOMAIN Nodes(k) : \E n \in 1..Nodes(k)[j].count :
      p = <<k, j, n>>
BY DEF Written, Nodes

LEMMA MadeMembers ==
  \A p : p \in Made <=>
    \E k \in 1..K : \E j \in DOMAIN Nodes(k) : \E n \in 1..HowMany(k, j) : p = <<k, j, n>>
BY DEF Made

LEMMA WrittenIsFinite ==
  ASSUME config \in Configs, Readable
  PROVE  IsFiniteSet(Written)
<1>1. /\ config.centers # Malformed /\ config.centers \in Seq(Elements(config.centers))
      /\ \A k \in DOMAIN config.centers : config.centers[k] # Malformed
      /\ \A k \in DOMAIN config.centers : \A j \in DOMAIN Nodes(k) : Nodes(k)[j] # Malformed
  BY Shape DEF Readable, Elements, Nodes
<1>2. \A k \in DOMAIN config.centers :
        /\ Nodes(k) \in Seq(Elements(Nodes(k)))
        /\ \A j \in DOMAIN Nodes(k) : Nodes(k)[j].count \in Int
  BY <1>1, Shape
<1> DEFINE Of(k, j) == {<<k, j, n>> : n \in 1..Nodes(k)[j].count}
           In(k) == {Of(k, j) : j \in DOMAIN Nodes(k)}
           All == {UNION In(k) : k \in DOMAIN config.centers}
<1>3. ASSUME NEW k \in DOMAIN config.centers
      PROVE  IsFiniteSet(UNION In(k))
  <2>1. ASSUME NEW j \in DOMAIN Nodes(k)
        PROVE  IsFiniteSet(Of(k, j))
    <3> DEFINE f == [n \in 1..Nodes(k)[j].count |-> <<k, j, n>>]
    <3>1. Of(k, j) = {f[n] : n \in 1..Nodes(k)[j].count}
      OBVIOUS
    <3> HIDE DEF f
    <3> QED BY <1>2, <3>1, FiniteImage
  <2>2. DOMAIN Nodes(k) = 1..Len(Nodes(k)) /\ Len(Nodes(k)) \in Int
    BY <1>2
  <2>3. IsFiniteSet(In(k))
    <3> DEFINE f == [j \in 1..Len(Nodes(k)) |-> Of(k, j)]
    <3>1. In(k) = {f[j] : j \in 1..Len(Nodes(k))}
      BY <2>2
    <3> HIDE DEF f
    <3> QED BY <2>2, <3>1, FiniteImage
  <2>4. \A T \in In(k) : IsFiniteSet(T)
    BY <2>1
  <2> HIDE DEF In
  <2> QED BY <2>3, <2>4, FS_UNION
<1>4. IsFiniteSet(All)
  <2>1. DOMAIN config.centers = 1..Len(config.centers) /\ Len(config.centers) \in Int
    BY <1>1
  <2> DEFINE f == [k \in 1..Len(config.centers) |-> UNION In(k)]
  <2> HIDE DEF In
  <2>2. All = {f[k] : k \in 1..Len(config.centers)}
    BY <2>1
  <2> HIDE DEF f
  <2> QED BY <2>1, <2>2, FiniteImage
<1>5. \A T \in All : IsFiniteSet(T)
  BY <1>3
<1>6. Written = UNION All
  BY DEF Written, Nodes
<1> HIDE DEF All
<1> QED BY <1>4, <1>5, <1>6, FS_UNION

(* What an acceptable configuration says, place by place. *)
LEMMA AcceptableMeans ==
  ASSUME config \in Configs, Acceptable
  PROVE  /\ \A l, m \in 1..Len(config.specs) : config.specs[l] = config.specs[m] => l = m
         /\ \A k, l \in DOMAIN config.centers : NameOf(k) = NameOf(l) => k = l
         /\ \A k \in DOMAIN config.centers : NameOf(k) \notin {Cloud, VMStorage}
         /\ \A k \in DOMAIN config.centers : \A j \in DOMAIN Nodes(k) : GoodNode(Nodes(k)[j])
<1>1. /\ config.specs \in Seq(Elements(config.specs))
      /\ config.centers \in Seq(Elements(config.centers))
  BY Shape DEF Acceptable, Readable
<1>7. /\ Len(config.specs) \in Nat /\ DOMAIN config.specs = 1..Len(config.specs)
      /\ Len(config.centers) \in Nat /\ DOMAIN config.centers = 1..Len(config.centers)
  BY <1>1
<1>2. \A l, m \in 1..Len(config.specs) : config.specs[l] = config.specs[m] => l = m
  <2>1. Elements(config.specs) = {config.specs[m] : m \in 1..Len(config.specs)}
    BY <1>7 DEF Elements
  <2>2. Cardinality(Elements(config.specs)) = Len(config.specs)
    BY DEF Acceptable
  <2> QED BY <1>7, <2>1, <2>2, NoneTwice
<1>3. CenterNames = {NameOf(k) : k \in 1..Len(config.centers)}
  BY <1>7 DEF CenterNames, Elements, NameOf
<1>4. \A k, l \in DOMAIN config.centers : NameOf(k) = NameOf(l) => k = l
  <2> DEFINE f == [k \in 1..Len(config.centers) |-> NameOf(k)]
  <2>1. CenterNames = {f[k] : k \in 1..Len(config.centers)}
    BY <1>3
  <2>2. Cardinality(CenterNames) = Len(config.centers)
    BY DEF Acceptable
  <2>3. \A k, l \in 1..Len(config.centers) : f[k] = f[l] => k = l
    <3> HIDE DEF f
    <3> QED BY <1>7, <2>1, <2>2, NoneTwice
  <2> QED BY <1>7, <2>3
<1>5. \A k \in DOMAIN config.centers : NameOf(k) \notin {Cloud, VMStorage}
  BY <1>7, <1>3 DEF Acceptable
<1>6. \A k \in DOMAIN config.centers : \A j \in DOMAIN Nodes(k) : GoodNode(Nodes(k)[j])
  <2>1. \A k \in DOMAIN config.centers : config.centers[k] \in Elements(config.centers)
    BY DEF Elements
  <2>2. \A k \in DOMAIN config.centers : \A j \in DOMAIN Nodes(k) :
          Nodes(k)[j] \in Elements(config.centers[k].servers)
    BY DEF Elements, Nodes
  <2> QED BY <2>1, <2>2 DEF Acceptable, Readable, GoodNode
<1> QED BY <1>2, <1>4, <1>5, <1>6

-----------------------------------------------------------------------------
LEMMA AcceptableStays ==
  ASSUME config' = config
  PROVE  Acceptable' <=> Acceptable
<1>1. Readable' <=> Readable
  BY DEF Readable
<1>2. CenterNames' = CenterNames
  BY DEF CenterNames
<1>3. Written' = Written
  BY DEF Written
<1>4. \A s : WrittenOf(s)' = WrittenOf(s)
  BY <1>3 DEF WrittenOf
<1>5. \A s : SerialsOf(s)' = SerialsOf(s)
  BY <1>4 DEF SerialsOf
<1>6. Cloud' = Cloud /\ VMStorage' = VMStorage
  BY DEF Cloud, VMStorage
<1> QED BY <1>1, <1>2, <1>4, <1>5, <1>6 DEF Acceptable

(* Startup ends when it meets a fault. *)
LEMMA EndsBadly ==
  ASSUME StartupInv, EndIn("error") \/ EndIn("aborted"), ~Acceptable
  PROVE  StartupInv'
<1>1. config' = config /\ phase' \in {"error", "aborted"}
  BY DEF EndIn
<1>2. ~Acceptable'
  BY <1>1, AcceptableStays
<1> QED BY <1>1, <1>2 DEF StartupInv, Building

LEMMA StartupInvInit == StartupInit => StartupInv
<1> SUFFICES ASSUME StartupInit PROVE StartupInv
  OBVIOUS
<1>1. config \in Configs /\ phase = "specs" /\ NothingBuilt
  BY DEF StartupInit, NothingBuilt
<1>2. CASE config.specs = Malformed
  BY <1>1, <1>2 DEF StartupInit, StartupInv, Building
<1>3. CASE config.specs # Malformed
  <2>1. /\ config.specs \in Seq(Elements(config.specs)) /\ specs = config.specs
        /\ serials = << >>
    BY <1>1, <1>3, Shape DEF StartupInit
  <2>2. S = 0
    BY <2>1 DEF S
  <2>3. SpecsInv
    BY <2>1, <2>2, RestOfAll DEF SpecsInv
  <2> QED BY <1>1, <1>3, <2>3 DEF StartupInv, Building
<1> QED BY <1>2, <1>3

(* What is at hand while specifications are read. *)
LEMMA SpecAtHand ==
  ASSUME StartupInv, phase = "specs", config.specs # Malformed
  PROVE  /\ SpecsInv /\ NothingBuilt /\ specs # Malformed
         /\ S \in Nat /\ Len(config.specs) \in Nat
         /\ config.specs \in Seq(Elements(config.specs))
         /\ specs # << >> =>
              /\ S + 1 \in 1..Len(config.specs)
              /\ Head(specs) = config.specs[S + 1]
              /\ Rest(Tail(specs), config.specs) /\ Len(Tail(specs)) = Len(specs) - 1
         /\ specs = << >> => S = Len(config.specs)
<1>1. /\ config \in Configs /\ SpecsInv /\ NothingBuilt
  BY DEF StartupInv
<1>2. /\ config.specs \in Seq(Elements(config.specs))
      /\ Malformed \notin Seq(Elements(config.specs))
  BY <1>1, Shape
<1>3. Rest(specs, config.specs)
  BY <1>1 DEF SpecsInv
<1>4. specs \in Seq(Elements(config.specs)) /\ Len(specs) <= Len(config.specs)
  BY <1>3 DEF Rest
<1>5. Len(specs) \in Nat /\ Len(config.specs) \in Nat
  BY <1>2, <1>4
<1>6. specs # << >> =>
        /\ S + 1 \in 1..Len(config.specs)
        /\ Head(specs) = config.specs[S + 1]
        /\ Rest(Tail(specs), config.specs) /\ Len(Tail(specs)) = Len(specs) - 1
  BY <1>2, <1>3, <1>5, RestOfTail DEF S
<1> QED BY <1>1, <1>2, <1>4, <1>5, <1>6 DEF S

LEMMA ReadSpecKeeps ==
  ASSUME StartupInv, ReadSpec
  PROVE  StartupInv'
<1>1. /\ phase = "specs" /\ specs # Malformed /\ specs # << >> /\ Head(specs) # Malformed
      /\ Head(specs) \notin DOMAIN serials /\ specs' = Tail(specs)
      /\ serials' = [s \in DOMAIN serials \cup {Head(specs)} |->
                       IF s = Head(specs) THEN 0 ELSE serials[s]]
      /\ config' = config /\ phase' = phase /\ centers' = centers
      /\ names' = names /\ components' = components /\ scheduled' = scheduled
  BY DEF ReadSpec
<1>2. config \in Configs /\ config.specs # Malformed
  BY <1>1 DEF StartupInv
<1>3. /\ SpecsInv /\ NothingBuilt
      /\ S \in Nat /\ Len(config.specs) \in Nat /\ S + 1 \in 1..Len(config.specs)
      /\ Head(specs) = config.specs[S + 1]
      /\ Rest(Tail(specs), config.specs) /\ Len(Tail(specs)) = Len(specs) - 1
  BY <1>1, <1>2, SpecAtHand
<1>4. Len(specs) \in Int
  BY <1>3 DEF SpecsInv, Rest
<1>5. S' = S + 1
  BY <1>1, <1>3, <1>4 DEF S
<1>6. NothingBuilt'
  BY <1>1, <1>3 DEF NothingBuilt, Cloud, VMStorage
<1>7. SpecsInv'
  <2>1. Rest(specs', config.specs')
    BY <1>1, <1>3
  <2>2. \A m \in 1..(S + 1) : config.specs[m] # Malformed
    BY <1>1, <1>3 DEF SpecsInv
  <2>3. \A l, m \in 1..(S + 1) : config.specs[l] = config.specs[m] => l = m
    <3>1. \A m \in 1..S : config.specs[m] # config.specs[S + 1]
      BY <1>1, <1>3 DEF SpecsInv
    <3> QED BY <1>3, <3>1 DEF SpecsInv
  <2>4. DOMAIN serials' = {config.specs[m] : m \in 1..(S + 1)}
    BY <1>1, <1>3 DEF SpecsInv
  <2> QED BY <1>1, <1>5, <2>1, <2>2, <2>3, <2>4 DEF SpecsInv
<1> QED BY <1>1, <1>2, <1>6, <1>7 DEF StartupInv, Building

LEMMA SpecErrorKeeps ==
  ASSUME StartupInv, SpecError
  PROVE  StartupInv'
<1>1. phase = "specs" /\ EndIn("error")
  BY DEF SpecError
<1>2. ASSUME Acceptable PROVE FALSE
  <2>1. config.specs # Malformed /\ Malformed \notin Elements(config.specs)
    BY <1>2 DEF Acceptable, Readable
  <2>2. /\ SpecsInv /\ specs # Malformed /\ S \in Nat /\ Len(config.specs) \in Nat
        /\ config.specs \in Seq(Elements(config.specs))
        /\ specs # << >> =>
              S + 1 \in 1..Len(config.specs) /\ Head(specs) = config.specs[S + 1]
    BY <1>1, <2>1, SpecAtHand
  <2>3. specs # << >> /\ Head(specs) \in {Malformed} \cup DOMAIN serials
    BY <2>2 DEF SpecError
  <2>4. config.specs[S + 1] \in Elements(config.specs)
    <3>1. S + 1 \in DOMAIN config.specs
      BY <2>2, <2>3
    <3> QED BY <3>1 DEF Elements
  <2>5. PICK m \in 1..S : config.specs[m] = config.specs[S + 1]
    BY <2>1, <2>2, <2>3, <2>4 DEF SpecsInv
  <2>6. config \in Configs
    BY DEF StartupInv
  <2>7. \A l, n \in 1..Len(config.specs) : config.specs[l] = config.specs[n] => l = n
    BY <1>2, <2>6, AcceptableMeans
  <2> QED BY <2>2, <2>3, <2>5, <2>7
<1> QED BY <1>1, <1>2, EndsBadly

-----------------------------------------------------------------------------
(* What is at hand while the cloud is built. *)
LEMMA AtHand ==
  ASSUME StartupInv, Building
  PROVE  /\ config \in Configs /\ SpecsInv /\ CentersInv
         /\ Modulus \in Nat /\ Modulus > 1
         /\ DOMAIN serials = Elements(config.specs)
         /\ Len(config.centers) \in Nat /\ DOMAIN config.centers = 1..Len(config.centers)
         /\ K \in 0..Len(config.centers)
         /\ Len(centers) \in Nat
         /\ \A k \in 1..Len(config.centers) : config.centers[k] # Malformed =>
              /\ Nodes(k) \in Seq(Elements(Nodes(k)))
              /\ Len(Nodes(k)) \in Nat /\ DOMAIN Nodes(k) = 1..Len(Nodes(k))
              /\ \A j \in DOMAIN Nodes(k) :
                   Nodes(k)[j] # Malformed => Nodes(k)[j].count \in 0..(Modulus - 1)
         /\ centers # << >> =>
              /\ K + 1 \in 1..Len(config.centers) /\ Head(centers) = config.centers[K + 1]
              /\ Rest(Tail(centers), config.centers) /\ Len(Tail(centers)) = Len(centers) - 1
         /\ centers = << >> => K = Len(config.centers)
         /\ \A k \in 1..K : Len(Nodes(k)) \in Nat /\ DOMAIN Nodes(k) = 1..Len(Nodes(k))
<1>1. config \in Configs /\ SpecsInv /\ CentersInv
  BY DEF StartupInv
<1>2. /\ config.specs # Malformed /\ config.centers # Malformed /\ specs = << >>
      /\ Rest(centers, config.centers)
  BY <1>1 DEF CentersInv
<1>3. /\ Modulus \in Nat /\ Modulus > 1
      /\ config.specs \in Seq(Elements(config.specs))
      /\ config.centers \in Seq(Elements(config.centers))
  BY <1>1, <1>2, Shape
<1>4. /\ Len(config.specs) \in Nat /\ DOMAIN config.specs = 1..Len(config.specs)
      /\ Len(config.centers) \in Nat /\ DOMAIN config.centers = 1..Len(config.centers)
  BY <1>3
<1>5. DOMAIN serials = Elements(config.specs)
  <2>1. S = Len(config.specs)
    BY <1>2, <1>4 DEF S
  <2> QED BY <1>1, <1>4, <2>1 DEF SpecsInv, Elements
<1>6. Len(centers) \in Nat /\ Len(centers) <= Len(config.centers)
      /\ centers \in Seq(Elements(config.centers))
  BY <1>2 DEF Rest
<1>7. ASSUME NEW k \in 1..Len(config.centers), config.centers[k] # Malformed
      PROVE  /\ Nodes(k) \in Seq(Elements(Nodes(k)))
             /\ Len(Nodes(k)) \in Nat /\ DOMAIN Nodes(k) = 1..Len(Nodes(k))
             /\ \A j \in DOMAIN Nodes(k) :
                  Nodes(k)[j] # Malformed => Nodes(k)[j].count \in 0..(Modulus - 1)
  <2>1. /\ Nodes(k) \in Seq(Elements(Nodes(k)))
        /\ \A j \in DOMAIN Nodes(k) :
             Nodes(k)[j] # Malformed => Nodes(k)[j].count \in 0..(Modulus - 1)
    BY <1>1, <1>2, <1>4, <1>7, Shape
  <2> QED BY <2>1
<1>8. centers # << >> =>
        /\ K + 1 \in 1..Len(config.centers) /\ Head(centers) = config.centers[K + 1]
        /\ Rest(Tail(centers), config.centers) /\ Len(Tail(centers)) = Len(centers) - 1
  BY <1>2, <1>3, <1>4, RestOfTail DEF K
<1>9. K \in 0..Len(config.centers) /\ (centers = << >> => K = Len(config.centers))
  BY <1>4, <1>6 DEF K
<1>10. \A k \in 1..K : Len(Nodes(k)) \in Nat /\ DOMAIN Nodes(k) = 1..Len(Nodes(k))
  BY <1>1, <1>4, <1>7, <1>9 DEF CentersInv
<1> QED BY <1>1, <1>3, <1>4, <1>5, <1>6, <1>7, <1>8, <1>9, <1>10

LEMMA NodeAtHand ==
  ASSUME StartupInv, Building, InCenter
  PROVE  /\ K \in 1..Len(config.centers) /\ config.centers[K] # Malformed
         /\ Nodes(K) \in Seq(Elements(Nodes(K))) /\ Len(Nodes(K)) \in Nat
         /\ DOMAIN Nodes(K) = 1..Len(Nodes(K))
         /\ Len(entries) \in Nat /\ J \in 1..(Len(Nodes(K)) + 1)
         /\ entries # << >> =>
              /\ J \in DOMAIN Nodes(K) /\ Head(entries) = Nodes(K)[J]
              /\ Rest(Tail(entries), Nodes(K)) /\ Len(Tail(entries)) = Len(entries) - 1
              /\ Head(entries) # Malformed => Head(entries).count \in 0..(Modulus - 1)
         /\ entries = << >> => J = Len(Nodes(K)) + 1
<1>1. /\ CentersInv /\ Len(config.centers) \in Nat /\ K \in 0..Len(config.centers)
      /\ \A k \in 1..Len(config.centers) : config.centers[k] # Malformed =>
              /\ Nodes(k) \in Seq(Elements(Nodes(k)))
              /\ Len(Nodes(k)) \in Nat /\ DOMAIN Nodes(k) = 1..Len(Nodes(k))
              /\ \A j \in DOMAIN Nodes(k) :
                   Nodes(k)[j] # Malformed => Nodes(k)[j].count \in 0..(Modulus - 1)
  BY AtHand
<1>2. K \in 1..Len(config.centers) /\ config.centers[K] # Malformed /\ Rest(entries, Nodes(K))
  BY <1>1 DEF CentersInv
<1>3. /\ Nodes(K) \in Seq(Elements(Nodes(K))) /\ Len(Nodes(K)) \in Nat
      /\ DOMAIN Nodes(K) = 1..Len(Nodes(K))
  BY <1>1, <1>2
<1>4. Len(entries) \in Nat /\ Len(entries) <= Len(Nodes(K)) /\ entries \in Seq(Elements(Nodes(K)))
  BY <1>2 DEF Rest
<1>5. entries # << >> =>
        /\ J \in DOMAIN Nodes(K) /\ Head(entries) = Nodes(K)[J]
        /\ Rest(Tail(entries), Nodes(K)) /\ Len(Tail(entries)) = Len(entries) - 1
  BY <1>2, <1>3, RestOfTail DEF J
<1>6. J \in 1..(Len(Nodes(K)) + 1) /\ (entries = << >> => J = Len(Nodes(K)) + 1)
  BY <1>3, <1>4 DEF J
<1> QED BY <1>1, <1>2, <1>3, <1>4, <1>5, <1>6

LEMMA ConfigStays ==
  ASSUME config' = config
  PROVE  /\ \A k : NameOf(k)' = NameOf(k) /\ Nodes(k)' = Nodes(k)
         /\ \A s : OfSpec(Made, s)' = OfSpec(Made', s)
         /\ \A k : OfCenter(Made, k)' = OfCenter(Made', k)
         /\ \A e : GoodNode(e)' <=> GoodNode(e)
         /\ Cloud' = Cloud /\ VMStorage' = VMStorage /\ Modulus' = Modulus
BY DEF NameOf, Nodes, OfSpec, OfCenter, GoodNode, Cloud, VMStorage

(* Reading makes no server. *)
LEMMA MadeStays ==
  ASSUME config' = config, K \in Nat, K' \in Nat, K <= K',
         \A k \in 1..K' : \A j \in DOMAIN Nodes(k) :
           HowMany(k, j)' = IF k \in 1..K THEN HowMany(k, j) ELSE 0
  PROVE  Made' = Made
<1>1. \A k : Nodes(k)' = Nodes(k)
  BY ConfigStays
<1>2. \A p : p \in Made' <=>
        \E k \in 1..K' : \E j \in DOMAIN Nodes(k) : \E n \in 1..HowMany(k, j)' : p = <<k, j, n>>
  BY <1>1 DEF Made
<1>3. ASSUME NEW p PROVE p \in Made' <=> p \in Made
  BY <1>2, MadeMembers
<1>4. Made' = Made
  <2>1. Made' \subseteq Made /\ Made \subseteq Made'
    BY <1>3
  <2> QED BY <2>1
<1> QED BY <1>4

LEMMA BuiltStays ==
  ASSUME BuiltInv, CountInv, config' = config, K' = K, Made' = Made, UNCHANGED builtVars
  PROVE  BuiltInv' /\ CountInv'
<1>1. /\ \A k : NameOf(k)' = NameOf(k)
      /\ \A s : OfSpec(Made, s)' = OfSpec(Made, s)
      /\ \A k : OfCenter(Made, k)' = OfCenter(Made, k)
      /\ Cloud' = Cloud /\ VMStorage' = VMStorage /\ Modulus' = Modulus
      /\ serials' = serials /\ names' = names /\ components' = components /\ scheduled' = scheduled
  BY ConfigStays DEF builtVars
<1>2. BuiltInv'
  BY <1>1 DEF BuiltInv
<1>3. CountInv'
  BY <1>1 DEF CountInv, ServerName, Serials
<1> QED BY <1>2, <1>3

LEMMA SpecsStay ==
  ASSUME SpecsInv, config' = config, specs' = specs, DOMAIN serials' = DOMAIN serials
  PROVE  SpecsInv'
<1>1. S' = S
  BY DEF S
<1> QED BY <1>1 DEF SpecsInv

LEMMA SpecsReadKeeps ==
  ASSUME StartupInv, SpecsRead
  PROVE  StartupInv'
<1>1. phase = "specs" /\ specs = << >> /\ config \in Configs
  BY DEF SpecsRead, StartupInv
<1>2. CASE centers = Malformed
  <2>1. config.centers = Malformed \/ config.specs = Malformed
    BY <1>1, <1>2 DEF StartupInv, NothingBuilt
  <2> QED BY <1>2, <2>1, EndsBadly DEF SpecsRead, Acceptable, Readable
<1>3. CASE centers # Malformed /\ config.specs = Malformed
  BY <1>1, <1>3, StartupAssumption DEF StartupInv
<1>4. CASE centers # Malformed /\ config.specs # Malformed
  <2>1. /\ SpecsInv /\ NothingBuilt /\ S = Len(config.specs)
    BY <1>1, <1>4, SpecAtHand
  <2>2. /\ phase' = "centers" /\ config' = config /\ specs' = specs /\ centers' = centers
        /\ UNCHANGED builtVars
    BY <1>4 DEF SpecsRead, EndIn, docVars
  <2>3. /\ centers = config.centers /\ config.centers # Malformed
        /\ config.centers \in Seq(Elements(config.centers))
        /\ Modulus \in Nat /\ Modulus > 1
    BY <1>1, <1>4, <2>1, Shape DEF NothingBuilt
  <2>4. K' = 0
    BY <2>2, <2>3 DEF K
  <2>5. Building' /\ ~InCenter' /\ Sane' /\ 1..K' = {}
    BY <2>2, <2>4 DEF Building, InCenter, Sane
  <2>6. SpecsInv'
    BY <2>1, <2>2, SpecsStay DEF builtVars
  <2>7. CentersInv'
    <3>1. Rest(centers', config.centers')
      BY <2>2, <2>3, RestOfAll
    <3> QED BY <1>1, <1>4, <2>2, <2>3, <2>5, <3>1 DEF CentersInv, InCenter
  <2>8. BuiltInv'
    BY <2>1, <2>2, <2>5 DEF BuiltInv, NothingBuilt, builtVars, Cloud, VMStorage
  <2>9. CountInv'
    <3>1. Made' = {}
      BY <2>5 DEF Made
    <3>2. \A s : OfSpec(Made, s)' = {} /\ Cardinality({}) = 0 /\ IsFiniteSet({})
      BY <2>2, <3>1, ConfigStays, FS_EmptySet DEF OfSpec
    <3>3. 0 % Modulus = 0 /\ 0 <= Modulus /\ Serials(0)' = {}
      BY <1>1, <2>3, SmallMod DEF Serials
    <3>4. scheduled' = {} /\ \A s \in DOMAIN serials' : serials'[s] = 0
      BY <2>1, <2>2 DEF NothingBuilt, builtVars
    <3> QED BY <2>5, <3>1, <3>2, <3>3, <3>4 DEF CountInv
  <2> QED BY <1>1, <2>2, <2>5, <2>6, <2>7, <2>8, <2>9 DEF StartupInv, Building
<1> QED BY <1>2, <1>3, <1>4

LEMMA CloudReadKeeps ==
  ASSUME StartupInv, CloudRead
  PROVE  StartupInv'
<1>1. /\ phase = "centers" /\ centers = << >> /\ phase' = "listening" /\ config' = config
      /\ UNCHANGED builtVars /\ specs' = specs /\ centers' = centers /\ entries' = entries
  BY DEF CloudRead, EndIn, docVars
<1>2. Building /\ ~InCenter /\ Sane /\ Building' /\ ~InCenter' /\ Sane'
  BY <1>1 DEF Building, InCenter, Sane
<1>3. /\ config \in Configs /\ SpecsInv /\ CentersInv /\ BuiltInv /\ CountInv
      /\ K \in Nat
  BY <1>2, AtHand DEF StartupInv
<1>4. K' = K /\ \A k : Nodes(k)' = Nodes(k) /\ NameOf(k)' = NameOf(k)
  BY <1>1, ConfigStays DEF K
<1>5. \A k, j : NodeDone(k, j)' <=> NodeDone(k, j)
  BY <1>2, <1>4 DEF NodeDone
<1>6. \A k, j : HowMany(k, j)' = HowMany(k, j)
  BY <1>1, <1>4, <1>5 DEF HowMany
<1>7. Made' = Made
  BY <1>1, <1>3, <1>4, <1>6, MadeStays
<1>8. SpecsInv'
  BY <1>1, <1>3, SpecsStay DEF builtVars
<1>9. CentersInv'
  <2>1. \A k \in 1..K : \A j \in DOMAIN Nodes(k) : NodeDone(k, j) => GoodNode(Nodes(k)[j])'
    BY <1>1, <1>3, <1>4, ConfigStays DEF CentersInv, GoodNode
  <2> QED BY <1>1, <1>2, <1>3, <1>4, <1>5, <2>1 DEF CentersInv
<1> QED BY <1>1, <1>2, <1>3, <1>4, <1>7, <1>8, <1>9, BuiltStays DEF StartupInv

LEMMA ReadCenterKeeps ==
  ASSUME StartupInv, ReadCenter
  PROVE  StartupInv'
<1>1. /\ phase = "centers" /\ centers # << >> /\ Head(centers) # Malformed
      /\ Head(centers).name \notin names
      /\ phase' = "servers" /\ center' = Head(centers).name
      /\ entries' = Head(centers).servers /\ centers' = Tail(centers)
      /\ names' = names \cup {center'}
      /\ components' = [n \in DOMAIN components \cup {center'} |->
                          CASE n = Cloud   -> components[Cloud] \cup {center'}
                            [] n = center' -> {}
                            [] OTHER       -> components[n]]
      /\ config' = config /\ specs' = specs /\ serials' = serials /\ scheduled' = scheduled
  BY DEF ReadCenter
<1>2. Building /\ ~InCenter /\ Sane /\ Building' /\ InCenter' /\ Sane'
  BY <1>1 DEF Building, InCenter, Sane
<1>3. /\ config \in Configs /\ SpecsInv /\ CentersInv /\ BuiltInv /\ CountInv
      /\ K \in Nat /\ K + 1 \in 1..Len(config.centers) /\ Head(centers) = config.centers[K + 1]
      /\ Rest(Tail(centers), config.centers) /\ Len(Tail(centers)) = Len(centers) - 1
      /\ Len(centers) \in Nat
      /\ Nodes(K + 1) \in Seq(Elements(Nodes(K + 1)))
      /\ Len(Nodes(K + 1)) \in Nat /\ DOMAIN Nodes(K + 1) = 1..Len(Nodes(K + 1))
      /\ Len(config.centers) \in Nat
      /\ \A k \in 1..K : Len(Nodes(k)) \in Nat /\ DOMAIN Nodes(k) = 1..Len(Nodes(k))
  BY <1>1, <1>2, AtHand DEF StartupInv
<1>4. /\ K' = K + 1 /\ \A k : Nodes(k)' = Nodes(k) /\ NameOf(k)' = NameOf(k)
      /\ center' = NameOf(K + 1) /\ entries' = Nodes(K + 1)
      /\ Cloud' = Cloud /\ VMStorage' = VMStorage
  BY <1>1, <1>3, ConfigStays DEF K, Nodes, NameOf
<1>5. J' = 1
  <2>1. J' = Len(Nodes(K + 1)) - Len(Nodes(K + 1)) + 1
    BY <1>4 DEF J, Nodes
  <2> QED BY <1>3, <2>1
<1>6. \A k \in 1..(K + 1) : \A j \in DOMAIN Nodes(k) : NodeDone(k, j)' <=> k \in 1..K
  BY <1>2, <1>3, <1>4, <1>5 DEF NodeDone
<1>7. \A k \in 1..(K + 1) : \A j \in DOMAIN Nodes(k) :
         HowMany(k, j)' = IF k \in 1..K THEN HowMany(k, j) ELSE 0
  <2>1. \A k \in 1..K : \A j \in DOMAIN Nodes(k) : NodeDone(k, j)
    BY <1>2, <1>3 DEF NodeDone
  <2> QED BY <1>1, <1>3, <1>4, <1>6, <2>1 DEF HowMany
<1>8. Made' = Made
  BY <1>1, <1>3, <1>4, <1>7, MadeStays
<1>9. SpecsInv'
  BY <1>1, <1>3, SpecsStay
<1>10. CentersInv'
  <2>1. \A k \in 1..K : \A j \in DOMAIN Nodes(k) : GoodNode(Nodes(k)[j])'
    <3>1. \A k \in 1..K : \A j \in DOMAIN Nodes(k) : GoodNode(Nodes(k)[j])
      BY <1>2, <1>3 DEF CentersInv, NodeDone
    <3> QED BY <1>1, <1>4, <3>1 DEF GoodNode
  <2>2. \A k \in 1..K' : \A j \in DOMAIN Nodes(k)' : NodeDone(k, j)' => GoodNode(Nodes(k)[j])'
    BY <1>4, <1>6, <2>1
  <2>3. Rest(entries', Nodes(K'))
    BY <1>3, <1>4, RestOfAll
  <2>4. Rest(entries, Nodes(K))'
    BY <1>1, <1>4, <2>3 DEF Nodes
  <2>5. \A k \in 1..(K + 1) : config.centers[k] # Malformed
    BY <1>1, <1>3 DEF CentersInv
  <2>6. center' = NameOf(K)'
    BY <1>1, <1>4 DEF NameOf
  <2>7. K' >= 1 /\ config'.specs # Malformed /\ config'.centers # Malformed /\ specs' = << >>
    BY <1>1, <1>3, <1>4 DEF CentersInv
  <2>8. Rest(centers', config'.centers)
    BY <1>1, <1>3
  <2>9. \A k \in 1..K' : config'.centers[k] # Malformed
    BY <1>1, <1>4, <2>5
  <2> QED BY <1>1, <2>2, <2>4, <2>6, <2>7, <2>8, <2>9 DEF CentersInv
<1>11. 1..(K + 1) = 1..K \cup {K + 1}
  BY <1>3
<1>12. /\ \A k \in 1..K : NameOf(k) # center'
       /\ center' \notin {Cloud, VMStorage} /\ center' \notin scheduled
       /\ center' \notin DOMAIN components
  BY <1>1, <1>3 DEF BuiltInv
<1>13. /\ components'[center'] = {} /\ components'[Cloud] = components[Cloud] \cup {center'}
       /\ \A k \in 1..K : components'[NameOf(k)] = components[NameOf(k)]
       /\ DOMAIN components' = DOMAIN components \cup {center'}
  <2>1. /\ Cloud \in DOMAIN components
        /\ \A k \in 1..K : NameOf(k) \in DOMAIN components /\ NameOf(k) # Cloud
    BY <1>3 DEF BuiltInv
  <2> QED BY <1>1, <1>12, <2>1
<1>14. BuiltInv'
  <2>1. {NameOf(k) : k \in 1..(K + 1)} = {NameOf(k) : k \in 1..K} \cup {center'}
    BY <1>4, <1>11
  <2>2. \A k, l \in 1..(K + 1) : NameOf(k) = NameOf(l) => k = l
    BY <1>3, <1>4, <1>11, <1>12 DEF BuiltInv
  <2>3. \A k \in 1..(K + 1) : NameOf(k) \notin {Cloud, VMStorage}
    BY <1>3, <1>4, <1>11, <1>12 DEF BuiltInv
  <2>4. scheduled = UNION {components'[NameOf(k)] : k \in 1..(K + 1)}
    <3>1. scheduled = UNION {components'[NameOf(k)] : k \in 1..K}
      BY <1>3, <1>13 DEF BuiltInv
    <3> QED BY <1>4, <1>11, <1>13, <3>1
  <2>5. names' = {Cloud, VMStorage} \cup {NameOf(k) : k \in 1..(K + 1)} \cup scheduled
    BY <1>1, <1>3, <2>1 DEF BuiltInv
  <2>6. scheduled \cap ({Cloud, VMStorage} \cup {NameOf(k) : k \in 1..(K + 1)}) = {}
    <3>1. scheduled \cap ({Cloud, VMStorage} \cup {NameOf(k) : k \in 1..K}) = {}
      BY <1>3 DEF BuiltInv
    <3> QED BY <1>12, <2>1, <3>1
  <2>7. /\ DOMAIN components' = {Cloud} \cup {NameOf(k) : k \in 1..(K + 1)}
        /\ components'[Cloud] = {NameOf(k) : k \in 1..(K + 1)}
    BY <1>3, <1>13, <2>1 DEF BuiltInv
  <2>8. /\ {NameOf(k) : k \in 1..K}' = {NameOf(k) : k \in 1..(K + 1)}
        /\ (UNION {components[NameOf(k)] : k \in 1..K})'
             = UNION {components'[NameOf(k)] : k \in 1..(K + 1)}
    BY <1>4
  <2>9. \A k, l \in 1..(K + 1) : k # l => components'[NameOf(k)] \cap components'[NameOf(l)] = {}
    <3>1. \A k, l \in 1..K : k # l => components'[NameOf(k)] \cap components'[NameOf(l)] = {}
      BY <1>3, <1>13 DEF BuiltInv
    <3> QED BY <1>4, <1>11, <1>13, <3>1
  <2> QED BY <1>1, <1>4, <2>2, <2>3, <2>4, <2>5, <2>6, <2>7, <2>8, <2>9 DEF BuiltInv
<1>15. CountInv'
  <2>1. OfCenter(Made, K + 1) = {}
    BY <1>3, MadeMembers DEF OfCenter
  <2>2. \A k \in 1..(K + 1) :
          /\ IsFiniteSet(components'[NameOf(k)])
          /\ Cardinality(components'[NameOf(k)]) = Cardinality(OfCenter(Made, k))
    BY <1>3, <1>4, <1>11, <1>13, <2>1, FS_EmptySet DEF CountInv
  <2>3. /\ \A s : OfSpec(Made, s)' = OfSpec(Made, s)
        /\ \A k : OfCenter(Made, k)' = OfCenter(Made, k)
    BY <1>1, <1>8, ConfigStays
  <2>4. (UNION {{ServerName(s, n) : n \in Serials(Cardinality(OfSpec(Made, s)))} :
                s \in DOMAIN serials})'
          = UNION {{ServerName(s, n) : n \in Serials(Cardinality(OfSpec(Made, s)))} :
                   s \in DOMAIN serials}
    BY <1>1, <2>3 DEF ServerName, Serials
  <2>5. \A k \in 1..K' :
          /\ IsFiniteSet(components'[NameOf(k)'])
          /\ Cardinality(components'[NameOf(k)']) = Cardinality(OfCenter(Made, k)')
    BY <1>4, <2>2, <2>3
  <2>6. \A s \in DOMAIN serials' :
          /\ Cardinality(OfSpec(Made, s)') <= Modulus
          /\ serials'[s] = Cardinality(OfSpec(Made, s)') % Modulus
    BY <1>1, <1>3, <2>3 DEF CountInv
  <2>7. IsFiniteSet(Made') /\ scheduled' = scheduled /\ Modulus' = Modulus
    BY <1>1, <1>3, <1>8 DEF CountInv
  <2>8. scheduled = UNION {{ServerName(s, n) : n \in Serials(Cardinality(OfSpec(Made, s)))} :
                           s \in DOMAIN serials}
    BY <1>3 DEF CountInv
  <2> QED BY <2>4, <2>5, <2>6, <2>7, <2>8 DEF CountInv
<1> QED BY <1>1, <1>2, <1>3, <1>9, <1>10, <1>14, <1>15 DEF StartupInv

-----------------------------------------------------------------------------
(* Servers are made as they are written. *)
LEMMA MadeInWritten ==
  ASSUME StartupInv, Building, Sane
  PROVE  Made \subseteq Written
<1>1. /\ CentersInv /\ K \in 0..Len(config.centers)
      /\ DOMAIN config.centers = 1..Len(config.centers)
      /\ Len(config.centers) \in Nat
  BY AtHand
<1>2. ASSUME NEW k \in 1..K, NEW j \in DOMAIN Nodes(k), NEW n \in 1..HowMany(k, j)
      PROVE  n \in 1..Nodes(k)[j].count
  <2>1. CASE NodeDone(k, j)
    BY <1>2, <2>1 DEF HowMany
  <2>2. CASE ~NodeDone(k, j) /\ k = K /\ j = J /\ phase = "making"
    <3>1. i \in 1..(Head(entries).count + 1) /\ entries # << >> /\ InCenter
      BY <1>1, <2>2 DEF CentersInv, InCenter
    <3>2. Head(entries) = Nodes(k)[j] /\ Head(entries).count \in Nat
      BY <1>1, <2>2, <3>1, NodeAtHand DEF CentersInv
    <3>3. HowMany(k, j) = i - 1
      BY <2>2 DEF HowMany
    <3> QED BY <1>2, <3>1, <3>2, <3>3
  <2>3. CASE ~NodeDone(k, j) /\ ~(k = K /\ j = J /\ phase = "making")
    <3>1. HowMany(k, j) = 0
      BY <2>3 DEF HowMany
    <3> QED BY <1>2, <3>1
  <2> QED BY <2>1, <2>2, <2>3
<1>3. ASSUME NEW p \in Made PROVE p \in Written
  <2>1. PICK k \in 1..K : \E j \in DOMAIN Nodes(k) : \E n \in 1..HowMany(k, j) : p = <<k, j, n>>
    BY MadeMembers
  <2>2. k \in DOMAIN config.centers
    BY <1>1, <2>1
  <2>3. PICK j \in DOMAIN Nodes(k) : \E n \in 1..HowMany(k, j) : p = <<k, j, n>>
    BY <2>1
  <2> QED BY <1>2, <2>2, <2>3, WrittenMembers
<1> QED BY <1>3

LEMMA SpecOfWritten == \A s : WrittenOf(s) = OfSpec(Written, s)
BY DEF WrittenOf, OfSpec, Nodes

LEMMA SerialsAreWritten ==
  ASSUME StartupInv, Building, Sane, Acceptable, NEW s \in Elements(config.specs)
  PROVE  /\ IsFiniteSet(OfSpec(Made, s)) /\ IsFiniteSet(WrittenOf(s))
         /\ Cardinality(OfSpec(Made, s)) \in Nat /\ Cardinality(WrittenOf(s)) \in Nat
         /\ Cardinality(OfSpec(Made, s)) <= Cardinality(WrittenOf(s))
         /\ Serials(Cardinality(OfSpec(Made, s))) \subseteq SerialsOf(s)
<1>1. IsFiniteSet(Written)
  BY AtHand, WrittenIsFinite DEF Acceptable
<1>2. WrittenOf(s) \in SUBSET Written
  BY DEF WrittenOf
<1>3. IsFiniteSet(WrittenOf(s))
  BY <1>1, <1>2, FS_Subset
<1>4. OfSpec(Made, s) \in SUBSET WrittenOf(s)
  BY SpecOfWritten, MadeInWritten DEF OfSpec
<1>5. /\ IsFiniteSet(OfSpec(Made, s)) /\ Cardinality(OfSpec(Made, s)) <= Cardinality(WrittenOf(s))
      /\ Cardinality(OfSpec(Made, s)) \in Nat /\ Cardinality(WrittenOf(s)) \in Nat
  BY <1>3, <1>4, FS_Subset, FS_CardinalityType
<1>6. 1..Cardinality(OfSpec(Made, s)) \subseteq 1..Cardinality(WrittenOf(s))
  BY <1>5
<1> QED BY <1>3, <1>5, <1>6 DEF Serials, SerialsOf

LEMMA CenterErrorKeeps ==
  ASSUME StartupInv, CenterError
  PROVE  StartupInv'
<1>1. /\ phase = "centers" /\ centers # << >>
      /\ EndIn("error") \/ EndIn("aborted")
      /\ Head(centers) = Malformed \/ Head(centers).name \in names
  BY DEF CenterError
<1>2. Building /\ Sane
  BY <1>1 DEF Building, Sane
<1>3. /\ config \in Configs /\ CentersInv /\ BuiltInv /\ CountInv
      /\ K \in Nat /\ K + 1 \in DOMAIN config.centers /\ Head(centers) = config.centers[K + 1]
      /\ 1..K \subseteq DOMAIN config.centers
      /\ DOMAIN serials = Elements(config.specs)
  BY <1>1, <1>2, AtHand DEF StartupInv
<1>4. ASSUME Acceptable PROVE FALSE
  <2>1. Head(centers) # Malformed
    BY <1>3, <1>4 DEF Acceptable, Readable, Elements
  <2>2. /\ NameOf(K + 1) \notin {Cloud, VMStorage}
        /\ \A k \in 1..K : NameOf(k) = NameOf(K + 1) => k = K + 1
    BY <1>3, <1>4, AcceptableMeans
  <2>3. NameOf(K + 1) \in names
    BY <1>1, <1>3, <2>1 DEF NameOf
  <2>4. NameOf(K + 1) \in scheduled
    <3>1. NameOf(K + 1) \notin {NameOf(k) : k \in 1..K}
      BY <1>3, <2>2
    <3>2. names = {Cloud, VMStorage} \cup {NameOf(k) : k \in 1..K} \cup scheduled
      BY <1>3 DEF BuiltInv
    <3> QED BY <2>2, <2>3, <3>1, <3>2
  <2>5. PICK s \in DOMAIN serials : \E n \in Serials(Cardinality(OfSpec(Made, s))) :
          NameOf(K + 1) = ServerName(s, n)
    BY <1>3, <2>4 DEF CountInv
  <2>6. PICK n \in SerialsOf(s) : NameOf(K + 1) = ServerName(s, n)
    BY <1>2, <1>3, <1>4, <2>5, SerialsAreWritten
  <2>7. NameOf(K + 1) \in CenterNames
    BY <1>3 DEF CenterNames, Elements, NameOf
  <2>8. ServerName(s, n) \notin {Cloud, VMStorage} \cup CenterNames
    BY <1>3, <1>4, <2>6 DEF Acceptable
  <2> QED BY <2>6, <2>7, <2>8
<1> QED BY <1>1, <1>4, EndsBadly

LEMMA EntryErrorKeeps ==
  ASSUME StartupInv, EntryError
  PROVE  StartupInv'
<1>1. /\ phase = "servers" /\ entries # << >> /\ EndIn("error")
      /\ Head(entries) # Malformed => Head(entries).spec \notin DOMAIN serials
  BY DEF EntryError
<1>2. Building /\ InCenter
  BY <1>1 DEF Building, InCenter
<1>3. /\ config \in Configs /\ DOMAIN serials = Elements(config.specs)
      /\ K \in DOMAIN config.centers /\ J \in DOMAIN Nodes(K) /\ Head(entries) = Nodes(K)[J]
  BY <1>1, <1>2, AtHand, NodeAtHand
<1>4. ASSUME Acceptable PROVE FALSE
  BY <1>1, <1>3, <1>4, AcceptableMeans DEF GoodNode
<1> QED BY <1>1, <1>4, EndsBadly

LEMMA ReadEntryKeeps ==
  ASSUME StartupInv, ReadEntry
  PROVE  StartupInv'
<1>1. /\ phase = "servers" /\ entries # << >> /\ Head(entries) # Malformed
      /\ Head(entries).spec \in DOMAIN serials
      /\ phase' = "making" /\ i' = 1 /\ config' = config /\ specs' = specs
      /\ centers' = centers /\ entries' = entries /\ center' = center /\ UNCHANGED builtVars
  BY DEF ReadEntry
<1>2. Building /\ InCenter /\ Sane /\ Building' /\ InCenter'
  BY <1>1 DEF Building, InCenter, Sane
<1>3. /\ config \in Configs /\ SpecsInv /\ CentersInv /\ BuiltInv /\ CountInv
      /\ K \in Nat /\ DOMAIN serials = Elements(config.specs)
      /\ Modulus \in Nat /\ Modulus > 1
  BY <1>2, AtHand DEF StartupInv
<1>4. Head(entries).count \in 0..(Modulus - 1) /\ Head(entries) = Nodes(K)[J]
  BY <1>1, <1>2, NodeAtHand
<1>5. /\ K' = K /\ \A k : Nodes(k)' = Nodes(k) /\ NameOf(k)' = NameOf(k)
      /\ Modulus' = Modulus
  BY <1>1, ConfigStays DEF K
<1>6. J' = J /\ Nodes(K)' = Nodes(K) /\ NameOf(K)' = NameOf(K)
  BY <1>1, <1>5 DEF J, Nodes, NameOf
<1>7. \A k, j : NodeDone(k, j)' <=> NodeDone(k, j)
  BY <1>2, <1>5, <1>6 DEF NodeDone
<1>8. \A k, j : HowMany(k, j)' = HowMany(k, j)
  BY <1>1, <1>5, <1>6, <1>7 DEF HowMany
<1>9. Made' = Made
  BY <1>1, <1>3, <1>5, <1>8, MadeStays
<1>10. SpecsInv'
  BY <1>1, <1>3, SpecsStay DEF builtVars
<1>11. CentersInv'
  <2>1. \A k \in 1..K : \A j \in DOMAIN Nodes(k) : NodeDone(k, j) => GoodNode(Nodes(k)[j])'
    BY <1>1, <1>3, <1>5, ConfigStays DEF CentersInv, GoodNode
  <2>2. K >= 1 /\ center' = NameOf(K)' /\ Rest(entries, Nodes(K))'
    BY <1>1, <1>2, <1>3, <1>6 DEF CentersInv
  <2>3. /\ Head(entries).spec \in Elements(config.specs)
        /\ i' \in 0..(Modulus - 1) /\ ~(i' > 1) /\ i' \in 1..(Head(entries).count + 1)
    BY <1>1, <1>3, <1>4
  <2> QED BY <1>1, <1>2, <1>3, <1>5, <1>7, <2>1, <2>2, <2>3 DEF CentersInv
<1> QED BY <1>1, <1>2, <1>3, <1>5, <1>9, <1>10, <1>11, BuiltStays DEF StartupInv

LEMMA CenterReadKeeps ==
  ASSUME StartupInv, CenterRead
  PROVE  StartupInv'
<1>1. /\ phase = "servers" /\ entries = << >> /\ phase' = "centers"
      /\ config' = config /\ specs' = specs /\ centers' = centers /\ UNCHANGED builtVars
  BY DEF CenterRead, EndIn, docVars
<1>2. Building /\ InCenter /\ Sane /\ Building' /\ ~InCenter' /\ Sane'
  BY <1>1 DEF Building, InCenter, Sane
<1>3. /\ config \in Configs /\ SpecsInv /\ CentersInv /\ BuiltInv /\ CountInv /\ K \in Nat
  BY <1>2, AtHand DEF StartupInv
<1>4. /\ J = Len(Nodes(K)) + 1 /\ Len(Nodes(K)) \in Nat /\ DOMAIN Nodes(K) = 1..Len(Nodes(K))
  BY <1>1, <1>2, NodeAtHand
<1>5. K' = K /\ \A k : Nodes(k)' = Nodes(k) /\ NameOf(k)' = NameOf(k)
  BY <1>1, ConfigStays DEF K
<1>6. \A k \in 1..K : \A j \in DOMAIN Nodes(k) : NodeDone(k, j) /\ NodeDone(k, j)'
  BY <1>2, <1>3, <1>4, <1>5 DEF NodeDone
<1>7. \A k \in 1..K : \A j \in DOMAIN Nodes(k) : HowMany(k, j)' = HowMany(k, j)
  BY <1>5, <1>6 DEF HowMany
<1>8. Made' = Made
  BY <1>1, <1>3, <1>5, <1>7, MadeStays
<1>9. SpecsInv'
  BY <1>1, <1>3, SpecsStay DEF builtVars
<1>10. CentersInv'
  <2>1. \A k \in 1..K : \A j \in DOMAIN Nodes(k) : GoodNode(Nodes(k)[j])'
    <3>1. \A k \in 1..K : \A j \in DOMAIN Nodes(k) : GoodNode(Nodes(k)[j])
      BY <1>3, <1>6 DEF CentersInv
    <3> QED BY <1>1, <1>5, <3>1 DEF GoodNode
  <2> QED BY <1>1, <1>2, <1>3, <1>5, <2>1 DEF CentersInv
<1> QED BY <1>1, <1>2, <1>3, <1>5, <1>8, <1>9, <1>10, BuiltStays DEF StartupInv

LEMMA EntryReadKeeps ==
  ASSUME StartupInv, EntryRead
  PROVE  StartupInv'
<1>1. /\ phase = "making" /\ i > Head(entries).count /\ phase' = "servers"
      /\ entries' = Tail(entries) /\ config' = config /\ specs' = specs /\ i' = i
      /\ centers' = centers /\ center' = center /\ UNCHANGED builtVars
  BY DEF EntryRead
<1>2. Building /\ InCenter /\ Building' /\ InCenter' /\ Sane'
  BY <1>1 DEF Building, InCenter, Sane
<1>3. /\ config \in Configs /\ SpecsInv /\ CentersInv /\ K \in Nat
      /\ Modulus \in Nat /\ Modulus > 1 /\ DOMAIN serials = Elements(config.specs)
  BY <1>2, AtHand
<1>4. /\ entries # << >> /\ Head(entries) # Malformed
      /\ Head(entries).spec \in Elements(config.specs)
      /\ i \in 0..(Modulus - 1)
      /\ i > 1 => Head(entries).scheduler = "greedy"
      /\ Sane => i \in 1..(Head(entries).count + 1)
      /\ K >= 1 /\ center = NameOf(K)
  BY <1>1, <1>2, <1>3 DEF CentersInv
<1>5. /\ Head(entries).count \in 0..(Modulus - 1) /\ Head(entries) = Nodes(K)[J]
      /\ J \in DOMAIN Nodes(K) /\ Rest(Tail(entries), Nodes(K))
      /\ Len(Tail(entries)) = Len(entries) - 1 /\ Len(entries) \in Nat
      /\ Len(Nodes(K)) \in Nat /\ J \in Nat
      /\ DOMAIN Nodes(K) = 1..Len(Nodes(K))
  BY <1>1, <1>2, <1>4, NodeAtHand
<1>6. Sane /\ i = Head(entries).count + 1 /\ BuiltInv /\ CountInv
  <2>1. Head(entries).count < Modulus - 1
    BY <1>1, <1>3, <1>4, <1>5
  <2>2. Sane
    BY <2>1 DEF Sane
  <2>3. i = Head(entries).count + 1
    BY <1>1, <1>4, <1>5, <2>2
  <2> QED BY <1>2, <2>2, <2>3 DEF StartupInv
<1>7. GoodNode(Nodes(K)[J])
  BY <1>1, <1>4, <1>5, <1>6 DEF GoodNode, Sane
<1>8. /\ K' = K /\ \A k : Nodes(k)' = Nodes(k) /\ NameOf(k)' = NameOf(k)
      /\ Nodes(K)' = Nodes(K) /\ NameOf(K)' = NameOf(K)
  <2>1. K' = K
    BY <1>1 DEF K
  <2> QED BY <1>1, <2>1 DEF Nodes, NameOf
<1>9. J' = J + 1
  <2>1. J' = Len(Nodes(K)) - Len(Tail(entries)) + 1
    BY <1>1, <1>8 DEF J
  <2>2. J = Len(Nodes(K)) - Len(entries) + 1
    BY DEF J
  <2>3. \A a, b \in Nat : a - (b - 1) + 1 = (a - b + 1) + 1
    OBVIOUS
  <2>4. J' = Len(Nodes(K)) - (Len(entries) - 1) + 1
    <3>1. Len(Tail(entries)) = Len(entries) - 1
      BY <1>5
    <3> QED BY <2>1, <3>1, Zenon
  <2> QED BY <1>5, <2>2, <2>3, <2>4
<1>10. /\ \A k \in 1..K : Len(Nodes(k)) \in Nat /\ DOMAIN Nodes(k) = 1..Len(Nodes(k))
  BY <1>2, AtHand
<1>11. \A k \in 1..K : \A j \in DOMAIN Nodes(k) :
          NodeDone(k, j)' <=> NodeDone(k, j) \/ (k = K /\ j = J)
  BY <1>2, <1>3, <1>5, <1>8, <1>9, <1>10 DEF NodeDone
<1>12. \A k \in 1..K : \A j \in DOMAIN Nodes(k) : HowMany(k, j)' = HowMany(k, j)
  <2>1. ASSUME NEW k \in 1..K, NEW j \in DOMAIN Nodes(k)
        PROVE  HowMany(k, j)' = HowMany(k, j)
    <3>1. CASE NodeDone(k, j)
      BY <1>8, <1>11, <3>1 DEF HowMany
    <3>2. CASE ~NodeDone(k, j) /\ k = K /\ j = J
      <4>1. HowMany(k, j) = i - 1
        BY <1>1, <3>2 DEF HowMany
      <4>2. HowMany(k, j)' = Nodes(K)[J].count
        BY <1>8, <1>11, <3>2 DEF HowMany
      <4> QED BY <1>5, <1>6, <4>1, <4>2
    <3>3. CASE ~NodeDone(k, j) /\ ~(k = K /\ j = J)
      BY <1>1, <1>8, <1>11, <3>3 DEF HowMany
    <3> QED BY <3>1, <3>2, <3>3
  <2> QED BY <2>1
<1>13. Made' = Made
  BY <1>1, <1>3, <1>8, <1>12, MadeStays
<1>14. SpecsInv'
  BY <1>1, <1>3, SpecsStay DEF builtVars
<1>15. CentersInv'
  <2>1. \A k \in 1..K : \A j \in DOMAIN Nodes(k) : NodeDone(k, j)' => GoodNode(Nodes(k)[j])'
    <3>1. \A k \in 1..K : \A j \in DOMAIN Nodes(k) : NodeDone(k, j)' => GoodNode(Nodes(k)[j])
      BY <1>3, <1>7, <1>11 DEF CentersInv
    <3> QED BY <1>1, <1>8, <3>1 DEF GoodNode
  <2>2. center' = NameOf(K)' /\ Rest(entries, Nodes(K))'
    BY <1>1, <1>4, <1>5, <1>8
  <2> QED BY <1>1, <1>2, <1>3, <1>4, <1>8, <2>1, <2>2 DEF CentersInv
<1> QED BY <1>1, <1>2, <1>3, <1>6, <1>8, <1>13, <1>14, <1>15, BuiltStays DEF StartupInv

(* What is at hand while the servers of a node are made. *)
LEMMA ServerAtHand ==
  ASSUME StartupInv, phase = "making", i <= Head(entries).count
  PROVE  /\ Building /\ InCenter /\ config \in Configs /\ SpecsInv /\ CentersInv
         /\ Modulus \in Nat /\ Modulus > 1
         /\ K \in Nat /\ K >= 1 /\ K \in DOMAIN config.centers /\ center = NameOf(K)
         /\ DOMAIN serials = Elements(config.specs) /\ Head(entries).spec \in DOMAIN serials
         /\ entries # << >> /\ Head(entries) # Malformed
         /\ J \in DOMAIN Nodes(K) /\ Head(entries) = Nodes(K)[J]
         /\ Head(entries).count \in 0..(Modulus - 1) /\ i \in 0..(Modulus - 1)
         /\ Sane => i \in 1..Head(entries).count /\ BuiltInv /\ CountInv
         /\ ~Sane => ~Acceptable
<1>1. Building /\ InCenter
  BY DEF Building, InCenter
<1>2. /\ config \in Configs /\ SpecsInv /\ CentersInv /\ K \in Nat
      /\ Modulus \in Nat /\ Modulus > 1 /\ DOMAIN serials = Elements(config.specs)
      /\ DOMAIN config.centers = 1..Len(config.centers)
  BY <1>1, AtHand
<1>3. /\ entries # << >> /\ Head(entries) # Malformed
      /\ Head(entries).spec \in Elements(config.specs)
      /\ i \in 0..(Modulus - 1) /\ K >= 1 /\ center = NameOf(K)
      /\ Sane => i \in 1..(Head(entries).count + 1)
  BY <1>1, <1>2 DEF CentersInv
<1>4. /\ Head(entries).count \in 0..(Modulus - 1) /\ Head(entries) = Nodes(K)[J]
      /\ J \in DOMAIN Nodes(K) /\ K \in 1..Len(config.centers)
  BY <1>1, <1>3, NodeAtHand
<1>5. Sane => i \in 1..Head(entries).count /\ BuiltInv /\ CountInv
  <2>1. ASSUME Sane PROVE i \in 1..Head(entries).count
    BY <1>3, <1>4, <2>1
  <2> QED BY <1>1, <2>1 DEF StartupInv
<1>6. ~Sane => ~Acceptable
  <2>1. Acceptable => GoodNode(Nodes(K)[J])
    BY <1>2, <1>4, AcceptableMeans
  <2> QED BY <1>4, <2>1 DEF GoodNode, Sane
<1> QED BY <1>1, <1>2, <1>3, <1>4, <1>5, <1>6

(* The server to be made, as it is written: it is another one than those   *)
(* made before, of the specification and the data center at hand.          *)
LEMMA AnotherOne ==
  ASSUME StartupInv, phase = "making", i <= Head(entries).count, Sane
  PROVE  /\ <<K, J, i>> \in Written /\ <<K, J, i>> \notin Made
         /\ \A s : OfSpec(Made \cup {<<K, J, i>>}, s) =
                     IF s = Head(entries).spec THEN OfSpec(Made, s) \cup {<<K, J, i>>}
                     ELSE OfSpec(Made, s)
         /\ \A k : OfCenter(Made \cup {<<K, J, i>>}, k) =
                     IF k = K THEN OfCenter(Made, k) \cup {<<K, J, i>>} ELSE OfCenter(Made, k)
         /\ \A s : IsFiniteSet(OfSpec(Made, s)) /\ Cardinality(OfSpec(Made, s)) \in Nat
         /\ \A k : IsFiniteSet(OfCenter(Made, k)) /\ Cardinality(OfCenter(Made, k)) \in Nat
<1> DEFINE p == <<K, J, i>>
<1>1. /\ InCenter /\ K \in Nat /\ K \in DOMAIN config.centers
      /\ J \in DOMAIN Nodes(K) /\ Head(entries) = Nodes(K)[J]
      /\ i \in 1..Head(entries).count /\ IsFiniteSet(Made)
      /\ Head(entries).count \in Nat
  BY ServerAtHand DEF CountInv
<1>2. p \in Written
  BY <1>1, WrittenMembers
<1>3. p \notin Made
  <2>1. J \in Nat
    <3>1. J \in 1..(Len(Nodes(K)) + 1) /\ Len(Nodes(K)) \in Nat
      BY ServerAtHand, NodeAtHand
    <3> QED BY <3>1
  <2>2. ~NodeDone(K, J)
    BY <1>1, <2>1 DEF NodeDone
  <2>3. HowMany(K, J) = i - 1
    BY <2>2 DEF HowMany
  <2>4. ASSUME p \in Made PROVE FALSE
    <3>1. PICK k \in 1..K : \E j \in DOMAIN Nodes(k) : \E n \in 1..HowMany(k, j) : p = <<k, j, n>>
      BY <2>4, MadeMembers
    <3>2. PICK j \in DOMAIN Nodes(k) : \E n \in 1..HowMany(k, j) : p = <<k, j, n>>
      BY <3>1
    <3>3. PICK n \in 1..HowMany(k, j) : p = <<k, j, n>>
      BY <3>2
    <3>4. k = K /\ j = J /\ n = i
      BY <3>3
    <3> QED BY <1>1, <2>3, <3>3, <3>4
  <2> QED BY <2>4
<1>4. \A s : OfSpec(Made \cup {p}, s) =
               IF s = Head(entries).spec THEN OfSpec(Made, s) \cup {p} ELSE OfSpec(Made, s)
  <2>1. Nodes(p[1])[p[2]].spec = Head(entries).spec
    BY <1>1
  <2> HIDE DEF p
  <2> QED BY <2>1 DEF OfSpec
<1>5. \A k : OfCenter(Made \cup {p}, k) =
               IF k = K THEN OfCenter(Made, k) \cup {p} ELSE OfCenter(Made, k)
  <2>1. p[1] = K
    OBVIOUS
  <2> HIDE DEF p
  <2> QED BY <2>1 DEF OfCenter
<1>6. ASSUME NEW P \in SUBSET Made PROVE IsFiniteSet(P) /\ Cardinality(P) \in Nat
  BY <1>1, FS_Subset, FS_CardinalityType
<1>7. \A s : OfSpec(Made, s) \in SUBSET Made
  BY DEF OfSpec
<1>8. \A k : OfCenter(Made, k) \in SUBSET Made
  BY DEF OfCenter
<1> QED BY <1>2, <1>3, <1>4, <1>5, <1>6, <1>7, <1>8

(* The serial of the server to be made. *)
LEMMA NextSerial ==
  ASSUME StartupInv, phase = "making", i <= Head(entries).count, Sane,
         NEW c, c = Cardinality(OfSpec(Made, Head(entries).spec))
  PROVE  /\ c \in Nat /\ c <= Modulus
         /\ c < Modulus => Increment(serials[Head(entries).spec]) = (c + 1) % Modulus
         /\ c = Modulus => Increment(serials[Head(entries).spec]) = 1
<1>1. /\ config \in Configs /\ Modulus \in Nat /\ Modulus > 1 /\ CountInv
      /\ Head(entries).spec \in DOMAIN serials
  BY ServerAtHand
<1>2. c \in Nat
  BY AnotherOne
<1>3. c <= Modulus /\ serials[Head(entries).spec] = c % Modulus
  BY <1>1 DEF CountInv
<1>4. /\ \A n \in Nat : n < Modulus => n % Modulus = n
      /\ Modulus % Modulus = 0
  BY <1>1, SmallMod
<1>5. CASE c < Modulus
  BY <1>2, <1>3, <1>4, <1>5 DEF Increment
<1>6. CASE c = Modulus
  <2>1. (0 + 1) % Modulus = 1
    BY <1>1, <1>4
  <2> QED BY <1>1, <1>3, <1>4, <1>6, <2>1 DEF Increment
<1> QED BY <1>1, <1>2, <1>3, <1>5, <1>6

(* The serial is one that no server made of the specification has, unless  *)
(* they are as many as there are serials.                                  *)
LEMMA FreshSerial ==
  ASSUME StartupInv, phase = "making", i <= Head(entries).count, Sane,
         NEW c, c = Cardinality(OfSpec(Made, Head(entries).spec)), c < Modulus
  PROVE  /\ ServerName(Head(entries).spec, (c + 1) % Modulus) \in scheduled => c + 1 > Modulus
         /\ Serials(c + 1) = Serials(c) \cup {(c + 1) % Modulus}
<1> DEFINE serial == (c + 1) % Modulus
<1>1. /\ config \in Configs /\ Modulus \in Nat /\ Modulus > 1 /\ CountInv /\ c \in Nat
  BY ServerAtHand, NextSerial
<1>2. ASSUME ServerName(Head(entries).spec, serial) \in scheduled
      PROVE  c + 1 > Modulus
  <2>1. PICK s \in DOMAIN serials : \E n \in Serials(Cardinality(OfSpec(Made, s))) :
           ServerName(Head(entries).spec, serial) = ServerName(s, n)
    BY <1>1, <1>2 DEF CountInv
  <2>2. PICK n \in Serials(Cardinality(OfSpec(Made, s))) :
           ServerName(Head(entries).spec, serial) = ServerName(s, n)
    BY <2>1
  <2>3. s = Head(entries).spec /\ n = serial
    BY <2>2 DEF ServerName
  <2>4. PICK m \in 1..c : serial = m % Modulus
    BY <2>2, <2>3 DEF Serials
  <2>5. m % Modulus = m
    BY <1>1, <2>4, SmallMod
  <2>6. CASE c + 1 < Modulus
    <3>1. serial = c + 1
      BY <1>1, <2>6, SmallMod
    <3> QED BY <1>1, <2>4, <2>5, <3>1
  <2>7. CASE c + 1 = Modulus
    <3>1. serial = 0
      BY <1>1, <2>7, SmallMod
    <3> QED BY <1>1, <2>4, <2>5, <3>1
  <2> QED BY <1>1, <2>6, <2>7
<1>3. Serials(c + 1) = Serials(c) \cup {serial}
  <2>1. 1..(c + 1) = 1..c \cup {c + 1}
    BY <1>1
  <2> QED BY <2>1 DEF Serials
<1> QED BY <1>2, <1>3

(* A server that cannot be made is one that should not have been asked for.*)
LEMMA ServerFault ==
  ASSUME StartupInv, phase = "making", i <= Head(entries).count,
         \/ ServerName(Head(entries).spec, Increment(serials[Head(entries).spec])) \in names
         \/ Head(entries).scheduler # "greedy"
  PROVE  ~Acceptable
<1> DEFINE spec == Head(entries).spec
           c == Cardinality(OfSpec(Made, spec))
<1> SUFFICES ASSUME Acceptable PROVE FALSE
  OBVIOUS
<1>1. /\ Building /\ config \in Configs /\ Modulus \in Nat /\ Modulus > 1 /\ Sane
      /\ spec \in Elements(config.specs) /\ BuiltInv /\ CountInv
      /\ i \in 1..Head(entries).count /\ Head(entries).count \in Nat
      /\ K \in DOMAIN config.centers /\ J \in DOMAIN Nodes(K) /\ Head(entries) = Nodes(K)[J]
      /\ 1..K \subseteq DOMAIN config.centers
  BY ServerAtHand, AtHand
<1>2. Head(entries).scheduler = "greedy"
  <2>1. GoodNode(Nodes(K)[J])
    BY <1>1, AcceptableMeans
  <2> QED BY <1>1, <2>1 DEF GoodNode
<1>3. c \in Nat /\ c + 1 <= Cardinality(WrittenOf(spec)) /\ Cardinality(WrittenOf(spec)) \in Nat
  <2>1. /\ <<K, J, i>> \in WrittenOf(spec) /\ <<K, J, i>> \notin OfSpec(Made, spec)
    BY <1>1, AnotherOne DEF WrittenOf, Nodes, OfSpec
  <2>2. OfSpec(Made, spec) \subseteq WrittenOf(spec)
    BY <1>1, SpecOfWritten, MadeInWritten DEF OfSpec
  <2>3. IsFiniteSet(OfSpec(Made, spec)) /\ IsFiniteSet(WrittenOf(spec)) /\ c \in Nat
    BY <1>1, SerialsAreWritten
  <2>4. Cardinality(OfSpec(Made, spec) \cup {<<K, J, i>>}) = c + 1
    BY <2>1, <2>3, FS_AddElement
  <2>5. OfSpec(Made, spec) \cup {<<K, J, i>>} \in SUBSET WrittenOf(spec)
    BY <2>1, <2>2
  <2> QED BY <2>3, <2>4, <2>5, FS_Subset, FS_CardinalityType
<1>4. c < Modulus /\ c + 1 <= Modulus
  <2>1. Cardinality(WrittenOf(spec)) <= Modulus
    BY <1>1 DEF Acceptable
  <2> QED BY <1>1, <1>3, <2>1
<1>5. Increment(serials[spec]) = (c + 1) % Modulus
  BY <1>1, <1>4, NextSerial
<1>6. (c + 1) % Modulus \in SerialsOf(spec)
  <2>1. c + 1 \in 1..Cardinality(WrittenOf(spec))
    BY <1>3
  <2> QED BY <2>1 DEF SerialsOf
<1>7. ServerName(spec, (c + 1) % Modulus) \notin {Cloud, VMStorage} \cup CenterNames
  BY <1>1, <1>6 DEF Acceptable
<1>8. {NameOf(k) : k \in 1..K} \subseteq CenterNames
  BY <1>1 DEF CenterNames, Elements, NameOf
<1>9. ServerName(spec, (c + 1) % Modulus) \in scheduled
  BY <1>1, <1>2, <1>5, <1>7, <1>8 DEF BuiltInv
<1> QED BY <1>1, <1>3, <1>4, <1>9, FreshSerial

LEMMA MakeServerKeeps ==
  ASSUME StartupInv, MakeServer
  PROVE  StartupInv'
<1> DEFINE spec == Head(entries).spec
           serial == Increment(serials[spec])
           server == ServerName(spec, serial)
           c == Cardinality(OfSpec(Made, spec))
           p == <<K, J, i>>
<1>1. /\ phase = "making" /\ i <= Head(entries).count
      /\ serials' = [serials EXCEPT ![spec] = serial]
      /\ names' = names \cup {server}
      /\ config' = config /\ specs' = specs /\ centers' = centers /\ entries' = entries
      /\ center' = center
  BY DEF MakeServer
<1>2. /\ Building /\ InCenter /\ config \in Configs /\ SpecsInv /\ CentersInv
      /\ Modulus \in Nat /\ Modulus > 1
      /\ K \in Nat /\ K >= 1 /\ K \in DOMAIN config.centers /\ center = NameOf(K)
      /\ DOMAIN serials = Elements(config.specs) /\ spec \in DOMAIN serials
      /\ Head(entries).count \in 0..(Modulus - 1) /\ i \in 0..(Modulus - 1)
      /\ Sane => i \in 1..Head(entries).count /\ BuiltInv /\ CountInv
  BY <1>1, ServerAtHand
<1>3. CASE server \in names \/ Head(entries).scheduler # "greedy"
  <2>1. phase' \in {"error", "aborted"}
    BY <1>3 DEF MakeServer
  <2>2. ~Acceptable'
    BY <1>1, <1>3, ServerFault, AcceptableStays
  <2> QED BY <1>1, <1>2, <2>1, <2>2 DEF StartupInv, Building
<1>4. CASE server \notin names /\ Head(entries).scheduler = "greedy"
  <2>1. /\ scheduled' = scheduled \cup {server} /\ phase' = phase
        /\ components' = [components EXCEPT ![center] = @ \cup {server}]
        /\ i' = Increment(i)
    BY <1>4 DEF MakeServer
  <2>2. /\ K' = K /\ \A k : Nodes(k)' = Nodes(k) /\ NameOf(k)' = NameOf(k)
        /\ Nodes(K)' = Nodes(K) /\ NameOf(K)' = NameOf(K)
        /\ Cloud' = Cloud /\ VMStorage' = VMStorage /\ Modulus' = Modulus
    <3>1. K' = K
      BY <1>1 DEF K
    <3> QED BY <1>1, <3>1, ConfigStays DEF Nodes, NameOf
  <2>3. J' = J /\ (Building' <=> Building) /\ (InCenter' <=> InCenter) /\ (Sane' <=> Sane)
    BY <1>1, <2>1, <2>2 DEF J, Building, InCenter, Sane
  <2>4. \A k, j : NodeDone(k, j)' <=> NodeDone(k, j)
    BY <2>2, <2>3 DEF NodeDone
  <2>5. SpecsInv'
    BY <1>1, <1>2, SpecsStay
  <2>6. i' \in 0..(Modulus - 1) /\ (Sane => i' = i + 1 /\ i' \in 1..(Head(entries).count + 1))
    <3>1. (i + 1) % Modulus \in 0..(Modulus - 1)
      BY <1>2
    <3>2. ASSUME Sane PROVE (i + 1) % Modulus = i + 1 /\ i + 1 \in 1..(Head(entries).count + 1)
      <4>1. Head(entries).count < Modulus - 1 /\ i \in 1..Head(entries).count
        BY <1>1, <1>2, <3>2 DEF Sane
      <4>2. i + 1 \in Nat /\ i + 1 < Modulus
        BY <1>2, <4>1
      <4> QED BY <1>2, <4>1, <4>2, SmallMod
    <3> QED BY <2>1, <3>1, <3>2 DEF Increment
  <2>7. CentersInv'
    <3>1. \A k \in 1..K : \A j \in DOMAIN Nodes(k) : NodeDone(k, j)' => GoodNode(Nodes(k)[j])'
      <4>1. \A k \in 1..K : \A j \in DOMAIN Nodes(k) : NodeDone(k, j)' => GoodNode(Nodes(k)[j])
        BY <1>2, <2>4 DEF CentersInv
      <4> QED BY <1>1, <2>2, <4>1 DEF GoodNode
    <3>2. center' = NameOf(K)' /\ Rest(entries, Nodes(K))'
      BY <1>1, <1>2, <2>2 DEF CentersInv
    <3> QED BY <1>1, <1>2, <1>4, <2>1, <2>2, <2>3, <2>6, <3>1, <3>2 DEF CentersInv
  <2>8. ASSUME Sane PROVE BuiltInv' /\ CountInv'
    <3>1. /\ BuiltInv /\ CountInv /\ i \in 1..Head(entries).count
          /\ p \notin Made
          /\ \A s : OfSpec(Made \cup {p}, s) =
                      IF s = spec THEN OfSpec(Made, s) \cup {p} ELSE OfSpec(Made, s)
          /\ \A k : OfCenter(Made \cup {p}, k) =
                      IF k = K THEN OfCenter(Made, k) \cup {p} ELSE OfCenter(Made, k)
          /\ \A s : IsFiniteSet(OfSpec(Made, s)) /\ Cardinality(OfSpec(Made, s)) \in Nat
          /\ \A k : IsFiniteSet(OfCenter(Made, k)) /\ Cardinality(OfCenter(Made, k)) \in Nat
          /\ \A k \in 1..K : Len(Nodes(k)) \in Nat /\ DOMAIN Nodes(k) = 1..Len(Nodes(k))
      BY <1>1, <1>2, <2>8, ServerAtHand, AnotherOne, AtHand
    <3>2. c \in Nat /\ c < Modulus /\ serial = (c + 1) % Modulus
      <4>1. ASSUME c = Modulus PROVE FALSE
        <5>1. serial = 1
          BY <1>1, <2>8, <4>1, NextSerial
        <5>2. 1 \in Serials(c)
          <6>1. 1 % Modulus = 1 /\ 1 \in 1..c
            BY <1>2, <4>1, SmallMod
          <6> QED BY <6>1 DEF Serials
        <5>3. server \in scheduled
          BY <1>2, <3>1, <5>1, <5>2 DEF CountInv
        <5> QED BY <1>4, <3>1, <5>3 DEF BuiltInv
      <4>2. c \in Nat /\ c <= Modulus
        BY <1>1, <2>8, NextSerial
      <4>3. c < Modulus
        BY <1>2, <4>1, <4>2
      <4> QED BY <1>1, <2>8, <4>2, <4>3, NextSerial
    <3>3. Made' = Made \cup {p}
      <4>1. \A q : q \in Made' <=>
              \E k \in 1..K : \E j \in DOMAIN Nodes(k) : \E n \in 1..HowMany(k, j)' :
                q = <<k, j, n>>
        BY <2>2 DEF Made
      <4>2. /\ J \in DOMAIN Nodes(K) /\ J \in 1..Len(Nodes(K)) /\ ~NodeDone(K, J)
            /\ \A k, j : k = K /\ j = J => HowMany(k, j) = i - 1 /\ HowMany(k, j)' = i
        <5>1. J \in DOMAIN Nodes(K) /\ J \in 1..Len(Nodes(K)) /\ J \in Nat
          <6>1. J \in DOMAIN Nodes(K)
            BY <1>1, ServerAtHand
          <6> QED BY <1>2, <3>1, <6>1
        <5>2. ~NodeDone(K, J)
          BY <1>2, <5>1 DEF NodeDone
        <5>3. ASSUME NEW k, NEW j, k = K, j = J
              PROVE  HowMany(k, j) = i - 1 /\ HowMany(k, j)' = i
          <6>1. ~NodeDone(k, j) /\ ~NodeDone(k, j)'
            BY <2>4, <5>2, <5>3
          <6>2. HowMany(k, j) = i - 1
            BY <1>1, <5>3, <6>1 DEF HowMany
          <6>3. HowMany(k, j)' = i' - 1
            BY <1>1, <2>1, <2>2, <2>3, <5>3, <6>1 DEF HowMany
          <6> QED BY <1>2, <2>6, <2>8, <6>2, <6>3
        <5> QED BY <5>1, <5>2, <5>3
      <4>3. \A k \in 1..K : \A j \in DOMAIN Nodes(k) :
              ~(k = K /\ j = J) => HowMany(k, j)' = HowMany(k, j)
        BY <2>2, <2>3, <2>4 DEF HowMany
      <4>4. K \in 1..K
        BY <1>2
      <4>5. ASSUME NEW q PROVE q \in Made' <=> q \in Made \/ q = p
        <5>1. ASSUME q \in Made' PROVE q \in Made \/ q = p
          <6>1. PICK k \in 1..K : \E j \in DOMAIN Nodes(k) :
                  \E n \in 1..HowMany(k, j)' : q = <<k, j, n>>
            BY <4>1, <5>1
          <6>2. PICK j \in DOMAIN Nodes(k) : \E n \in 1..HowMany(k, j)' : q = <<k, j, n>>
            BY <6>1
          <6>3. PICK n \in 1..HowMany(k, j)' : q = <<k, j, n>>
            BY <6>2
          <6>4. CASE k = K /\ j = J
            <7>1. n = i \/ n \in 1..(i - 1)
              BY <1>2, <4>2, <6>3, <6>4
            <7>2. n \in 1..(i - 1) => n \in 1..HowMany(k, j)
              BY <4>2, <6>4
            <7> QED BY <6>3, <6>4, <7>1, <7>2, MadeMembers
          <6>5. CASE ~(k = K /\ j = J)
            BY <4>3, <6>3, <6>5, MadeMembers
          <6> QED BY <6>4, <6>5
        <5>2. ASSUME q \in Made PROVE q \in Made'
          <6>1. PICK k \in 1..K : \E j \in DOMAIN Nodes(k) :
                  \E n \in 1..HowMany(k, j) : q = <<k, j, n>>
            BY <5>2, MadeMembers
          <6>2. PICK j \in DOMAIN Nodes(k) : \E n \in 1..HowMany(k, j) : q = <<k, j, n>>
            BY <6>1
          <6>3. PICK n \in 1..HowMany(k, j) : q = <<k, j, n>>
            BY <6>2
          <6>4. n \in 1..HowMany(k, j)'
            <7>1. CASE k = K /\ j = J
              BY <1>2, <4>2, <6>3, <7>1
            <7>2. CASE ~(k = K /\ j = J)
              BY <4>3, <6>3, <7>2
            <7> QED BY <7>1, <7>2
          <6> QED BY <4>1, <6>3, <6>4
        <5>3. p \in Made'
          <6>1. \A k, j : k = K /\ j = J => i \in 1..HowMany(k, j)'
            BY <3>1, <4>2
          <6> QED BY <4>1, <4>2, <4>4, <6>1
        <5> QED BY <5>1, <5>2, <5>3
      <4> QED BY <4>5
    <3>4. /\ server \notin scheduled /\ center \in DOMAIN components
          /\ \A k \in 1..K : NameOf(k) # Cloud /\ NameOf(k) \in DOMAIN components
          /\ \A k \in 1..K : NameOf(k) = center => k = K
          /\ K \in 1..K
      <4>1. K \in 1..K
        BY <1>2
      <4>2. server \notin scheduled
        BY <1>4, <3>1 DEF BuiltInv
      <4>3. /\ \A k \in 1..K : NameOf(k) \in DOMAIN components
            /\ \A k \in 1..K : NameOf(k) # Cloud
            /\ \A k \in 1..K : NameOf(k) = NameOf(K) => k = K
        BY <3>1, <4>1 DEF BuiltInv
      <4> QED BY <1>2, <4>1, <4>2, <4>3
    <3>5. /\ DOMAIN components' = DOMAIN components
          /\ components'[Cloud] = components[Cloud]
          /\ components'[center] = components[center] \cup {server}
          /\ \A k \in 1..K : k # K => components'[NameOf(k)] = components[NameOf(k)]
          /\ \A k \in 1..K : server \notin components[NameOf(k)]
      <4>1. Cloud # center /\ Cloud \in DOMAIN components
        BY <1>2, <3>1, <3>4 DEF BuiltInv
      <4>2. \A k \in 1..K : server \notin components[NameOf(k)]
        BY <3>1, <3>4 DEF BuiltInv
      <4> QED BY <2>1, <3>4, <4>1, <4>2
    <3>6. BuiltInv'
      <4>1. scheduled' = UNION {components'[NameOf(k)] : k \in 1..K}
        <5>1. scheduled = UNION {components[NameOf(k)] : k \in 1..K}
          BY <3>1 DEF BuiltInv
        <5>2. UNION {components'[NameOf(k)] : k \in 1..K}
                = (UNION {components[NameOf(k)] : k \in 1..K}) \cup {server}
          BY <1>2, <3>4, <3>5
        <5> QED BY <2>1, <5>1, <5>2
      <4>2. /\ {NameOf(k) : k \in 1..K}' = {NameOf(k) : k \in 1..K}
            /\ (UNION {components[NameOf(k)] : k \in 1..K})'
                 = UNION {components'[NameOf(k)] : k \in 1..K}
        BY <2>2
      <4>3. /\ names' = {Cloud, VMStorage} \cup {NameOf(k) : k \in 1..K} \cup scheduled'
            /\ scheduled' \cap ({Cloud, VMStorage} \cup {NameOf(k) : k \in 1..K}) = {}
        <5>1. /\ names = {Cloud, VMStorage} \cup {NameOf(k) : k \in 1..K} \cup scheduled
              /\ scheduled \cap ({Cloud, VMStorage} \cup {NameOf(k) : k \in 1..K}) = {}
          BY <3>1 DEF BuiltInv
        <5> QED BY <1>1, <1>4, <2>1, <5>1
      <4>4. /\ \A k \in 1..K' : NameOf(k)' \notin {Cloud, VMStorage}'
            /\ \A k, l \in 1..K' : NameOf(k)' = NameOf(l)' => k = l
        BY <2>2, <3>1 DEF BuiltInv
      <4>5. /\ DOMAIN components' = {Cloud} \cup {NameOf(k) : k \in 1..K}
            /\ components'[Cloud] = {NameOf(k) : k \in 1..K}
        BY <3>1, <3>5 DEF BuiltInv
      <4>6. \A k, l \in 1..K : k # l => components'[NameOf(k)] \cap components'[NameOf(l)] = {}
        <5>1. \A k, l \in 1..K : k # l => components[NameOf(k)] \cap components[NameOf(l)] = {}
          BY <3>1 DEF BuiltInv
        <5>2. \A k \in 1..K : \A x \in components'[NameOf(k)] :
                 x \in components[NameOf(k)] \/ (k = K /\ x = server)
          BY <1>2, <3>5
        <5> QED BY <3>5, <5>1, <5>2
      <4> QED BY <2>2, <4>1, <4>2, <4>3, <4>4, <4>5, <4>6 DEF BuiltInv
    <3>7. CountInv'
      <4>1. /\ \A s : OfSpec(Made, s)' = OfSpec(Made \cup {p}, s)
            /\ \A k : OfCenter(Made, k)' = OfCenter(Made \cup {p}, k)
        BY <1>1, <3>3, ConfigStays
      <4>2. p \notin OfSpec(Made, spec) /\ p \notin OfCenter(Made, K)
        BY <3>1 DEF OfSpec, OfCenter
      <4>3. /\ \A s : s = spec => Cardinality(OfSpec(Made, s)') = c + 1
            /\ \A k : k = K => Cardinality(OfCenter(Made, k)') = Cardinality(OfCenter(Made, k)) + 1
        <5>1. \A s : s = spec => OfSpec(Made, s)' = OfSpec(Made, spec) \cup {p}
          BY <3>1, <4>1
        <5>2. \A k : k = K => OfCenter(Made, k)' = OfCenter(Made, K) \cup {p}
          BY <3>1, <4>1
        <5>3. /\ Cardinality(OfSpec(Made, spec) \cup {p}) = c + 1
              /\ Cardinality(OfCenter(Made, K) \cup {p}) = Cardinality(OfCenter(Made, K)) + 1
          BY <3>1, <4>2, FS_AddElement
        <5> QED BY <5>1, <5>2, <5>3
      <4>4. IsFiniteSet(Made')
        BY <3>1, <3>3, FS_AddElement DEF CountInv
      <4>5. \A s \in DOMAIN serials' :
              /\ Cardinality(OfSpec(Made, s)') <= Modulus
              /\ serials'[s] = Cardinality(OfSpec(Made, s)') % Modulus
        <5>1. ASSUME NEW s \in DOMAIN serials
              PROVE  /\ Cardinality(OfSpec(Made, s)') <= Modulus
                     /\ serials'[s] = Cardinality(OfSpec(Made, s)') % Modulus
          <6>1. CASE s = spec
            <7>1. serials'[s] = serial
              BY <1>1, <1>2, <6>1
            <7> QED BY <1>2, <3>2, <4>3, <6>1, <7>1
          <6>2. CASE s # spec
            <7>1. OfSpec(Made, s)' = OfSpec(Made, s) /\ serials'[s] = serials[s]
              BY <1>1, <3>1, <4>1, <6>2
            <7> QED BY <3>1, <7>1 DEF CountInv
          <6> QED BY <6>1, <6>2
        <5> QED BY <1>1, <5>1
      <4>6. scheduled' = UNION {{ServerName(s, n) : n \in Serials(Cardinality(OfSpec(Made, s)'))} :
                                 s \in DOMAIN serials}
        <5> DEFINE Old(s) == {ServerName(s, n) : n \in Serials(Cardinality(OfSpec(Made, s)))}
                   New(s) == {ServerName(s, n) : n \in Serials(Cardinality(OfSpec(Made, s)'))}
        <5>1. \A s : s = spec => New(s) = Old(s) \cup {server}
          <6>1. Serials(c + 1) = Serials(c) \cup {serial}
            BY <1>1, <2>8, <3>2, FreshSerial
          <6> QED BY <4>3, <6>1
        <5>2. \A s \in DOMAIN serials : s # spec => New(s) = Old(s)
          <6>1. \A s : s # spec => OfSpec(Made, s)' = OfSpec(Made, s)
            BY <3>1, <4>1
          <6> QED BY <6>1
        <5>3. scheduled = UNION {Old(s) : s \in DOMAIN serials}
          BY <3>1 DEF CountInv
        <5>4. spec \in DOMAIN serials
          BY <1>2
        <5> HIDE DEF Old, New, server, spec
        <5>5. UNION {New(s) : s \in DOMAIN serials}
                = (UNION {Old(s) : s \in DOMAIN serials}) \cup {server}
          BY <5>1, <5>2, <5>4
        <5> QED BY <2>1, <5>3, <5>5 DEF New
      <4>7. (UNION {{ServerName(s, n) : n \in Serials(Cardinality(OfSpec(Made, s)))} :
                    s \in DOMAIN serials})'
              = UNION {{ServerName(s, n) : n \in Serials(Cardinality(OfSpec(Made, s)'))} :
                       s \in DOMAIN serials}
        BY <1>1, <2>2 DEF ServerName, Serials
      <4>8. \A k \in 1..K' :
              /\ IsFiniteSet(components'[NameOf(k)'])
              /\ Cardinality(components'[NameOf(k)']) = Cardinality(OfCenter(Made, k)')
        <5>1. ASSUME NEW k \in 1..K
              PROVE  /\ IsFiniteSet(components'[NameOf(k)])
                     /\ Cardinality(components'[NameOf(k)]) = Cardinality(OfCenter(Made, k)')
          <6>1. /\ IsFiniteSet(components[NameOf(k)])
                /\ Cardinality(components[NameOf(k)]) = Cardinality(OfCenter(Made, k))
                /\ server \notin components[NameOf(k)]
            BY <3>1, <3>5 DEF CountInv
          <6>2. CASE k = K
            <7>1. components'[NameOf(k)] = components[NameOf(k)] \cup {server}
              BY <1>2, <3>5, <6>2
            <7>2. /\ IsFiniteSet(components[NameOf(k)] \cup {server})
                  /\ Cardinality(components[NameOf(k)] \cup {server})
                       = Cardinality(components[NameOf(k)]) + 1
              BY <6>1, FS_AddElement
            <7> QED BY <4>3, <6>1, <6>2, <7>1, <7>2
          <6>3. CASE k # K
            <7>1. OfCenter(Made, k)' = OfCenter(Made, k)
              BY <3>1, <4>1, <6>3
            <7> QED BY <3>5, <6>1, <6>3, <7>1
          <6> QED BY <6>2, <6>3
        <5> QED BY <2>2, <5>1
      <4> QED BY <2>2, <4>4, <4>5, <4>6, <4>7, <4>8 DEF CountInv
    <3> QED BY <3>6, <3>7
  <2> QED BY <1>1, <1>2, <2>1, <2>2, <2>3, <2>5, <2>7, <2>8 DEF StartupInv, Building
<1> QED BY <1>3, <1>4

-----------------------------------------------------------------------------
LEMMA StutterKeeps ==
  ASSUME StartupInv, UNCHANGED startupVars
  PROVE  StartupInv'
<1>1. /\ config' = config /\ phase' = phase /\ specs' = specs /\ centers' = centers
      /\ entries' = entries /\ center' = center /\ i' = i /\ UNCHANGED builtVars
      /\ serials' = serials /\ names' = names /\ components' = components /\ scheduled' = scheduled
  BY DEF startupVars, docVars, builtVars
<1>2. K' = K /\ J' = J /\ S' = S
  BY <1>1 DEF K, J, S, Nodes
<1>3. /\ (Building' <=> Building) /\ (InCenter' <=> InCenter) /\ (Sane' <=> Sane)
      /\ (Acceptable' <=> Acceptable)
  BY <1>1, AcceptableStays DEF Building, InCenter, Sane
<1>4. \A k : Nodes(k)' = Nodes(k) /\ NameOf(k)' = NameOf(k)
  BY <1>1, ConfigStays
<1>5. \A k, j : NodeDone(k, j)' <=> NodeDone(k, j)
  BY <1>2, <1>3 DEF NodeDone
<1>6. \A k, j : HowMany(k, j)' = HowMany(k, j)
  BY <1>1, <1>2, <1>4, <1>5 DEF HowMany
<1>7. Made' = Made
  BY <1>2, <1>4, <1>6 DEF Made
<1>8. SpecsInv => SpecsInv'
  BY <1>1, SpecsStay
<1>9. NothingBuilt => NothingBuilt'
  BY <1>1 DEF NothingBuilt, Cloud, VMStorage
<1>10. CentersInv => CentersInv'
  <2> SUFFICES ASSUME CentersInv PROVE CentersInv'
    OBVIOUS
  <2>1. \A k \in 1..K : \A j \in DOMAIN Nodes(k) : NodeDone(k, j) => GoodNode(Nodes(k)[j])'
    BY <1>1, <1>4 DEF CentersInv, GoodNode
  <2>2. InCenter => K >= 1 /\ center = NameOf(K)' /\ Rest(entries, Nodes(K))'
    BY <1>1, <1>2 DEF CentersInv, NameOf, Nodes
  <2> QED BY <1>1, <1>2, <1>3, <1>4, <1>5, <2>1, <2>2 DEF CentersInv
<1>11. BuiltInv /\ CountInv => BuiltInv' /\ CountInv'
  BY <1>1, <1>2, <1>7, BuiltStays
<1> QED BY <1>1, <1>3, <1>8, <1>9, <1>10, <1>11 DEF StartupInv

LEMMA StartupStepKeeps == StartupInv /\ [StartupNext]_startupVars => StartupInv'
<1> SUFFICES ASSUME StartupInv, [StartupNext]_startupVars PROVE StartupInv'
  OBVIOUS
<1>1. CASE ReadSpec BY <1>1, ReadSpecKeeps
<1>2. CASE SpecError BY <1>2, SpecErrorKeeps
<1>3. CASE SpecsRead BY <1>3, SpecsReadKeeps
<1>4. CASE ReadCenter BY <1>4, ReadCenterKeeps
<1>5. CASE CenterError BY <1>5, CenterErrorKeeps
<1>6. CASE CloudRead BY <1>6, CloudReadKeeps
<1>7. CASE ReadEntry BY <1>7, ReadEntryKeeps
<1>8. CASE EntryError BY <1>8, EntryErrorKeeps
<1>9. CASE CenterRead BY <1>9, CenterReadKeeps
<1>10. CASE MakeServer BY <1>10, MakeServerKeeps
<1>11. CASE EntryRead BY <1>11, EntryReadKeeps
<1>12. CASE UNCHANGED startupVars BY <1>12, StutterKeeps
<1> QED BY <1>1, <1>2, <1>3, <1>4, <1>5, <1>6, <1>7, <1>8, <1>9, <1>10, <1>11, <1>12
        DEF StartupNext

(* Who listens has read everything and made every server that is written.  *)
LEMMA AllIsMade ==
  ASSUME StartupInv, phase = "listening"
  PROVE  /\ config \in Configs /\ SpecsInv /\ CentersInv /\ BuiltInv /\ CountInv
         /\ S = Len(config.specs) /\ Len(config.specs) \in Nat
         /\ DOMAIN config.specs = 1..Len(config.specs)
         /\ K = Len(config.centers) /\ Len(config.centers) \in Nat
         /\ DOMAIN config.centers = 1..K /\ DOMAIN serials = Elements(config.specs)
         /\ CenterNames = {NameOf(k) : k \in 1..K}
         /\ \A k \in 1..K : \A j \in DOMAIN Nodes(k) : GoodNode(Nodes(k)[j])
         /\ Made = Written
<1>1. Building /\ ~InCenter /\ Sane
  BY DEF Building, InCenter, Sane
<1>2. /\ config \in Configs /\ SpecsInv /\ CentersInv /\ BuiltInv /\ CountInv
      /\ DOMAIN serials = Elements(config.specs)
      /\ Len(config.centers) \in Nat /\ DOMAIN config.centers = 1..Len(config.centers)
  BY <1>1, AtHand DEF StartupInv
<1>3. K = Len(config.centers)
  BY <1>1, <1>2, AtHand DEF CentersInv
<1>4. /\ config.specs \in Seq(Elements(config.specs)) /\ specs = << >>
  BY <1>2, Shape DEF CentersInv
<1>5. /\ S = Len(config.specs) /\ Len(config.specs) \in Nat
      /\ DOMAIN config.specs = 1..Len(config.specs)
  BY <1>4 DEF S
<1>6. CenterNames = {NameOf(k) : k \in 1..K}
  BY <1>2, <1>3 DEF CenterNames, Elements, NameOf
<1>7. \A k \in 1..K : \A j : NodeDone(k, j)
  BY <1>1, <1>2, <1>3 DEF NodeDone
<1>8. \A k \in 1..K : \A j \in DOMAIN Nodes(k) : GoodNode(Nodes(k)[j])
  BY <1>2, <1>7 DEF CentersInv
<1>9. Made = Written
  <2>1. \A k \in 1..K : \A j : HowMany(k, j) = Nodes(k)[j].count
    BY <1>7 DEF HowMany
  <2>2. ASSUME NEW p PROVE p \in Made <=> p \in Written
    <3>1. p \in Made <=> \E k \in 1..K : \E j \in DOMAIN Nodes(k) :
                           \E n \in 1..HowMany(k, j) : p = <<k, j, n>>
      BY MadeMembers
    <3>2. p \in Written <=> \E k \in 1..K : \E j \in DOMAIN Nodes(k) :
                              \E n \in 1..Nodes(k)[j].count : p = <<k, j, n>>
      BY <1>2, <1>3, WrittenMembers
    <3>3. ASSUME NEW k \in 1..K, NEW j \in DOMAIN Nodes(k)
          PROVE  1..HowMany(k, j) = 1..Nodes(k)[j].count
      BY <2>1
    <3> QED BY <3>1, <3>2, <3>3, Zenon
  <2>3. Made \subseteq Written /\ Written \subseteq Made
    BY <2>2
  <2> QED BY <2>3
<1> QED BY <1>2, <1>3, <1>5, <1>6, <1>8, <1>9

LEMMA ListensIfAcceptable ==
  ASSUME StartupInv, phase = "listening"
  PROVE  Acceptable
<1>1. /\ config \in Configs /\ SpecsInv /\ CentersInv /\ BuiltInv /\ CountInv
      /\ S = Len(config.specs) /\ Len(config.specs) \in Nat
      /\ DOMAIN config.specs = 1..Len(config.specs)
      /\ K = Len(config.centers) /\ Len(config.centers) \in Nat
      /\ DOMAIN config.centers = 1..K /\ DOMAIN serials = Elements(config.specs)
      /\ CenterNames = {NameOf(k) : k \in 1..K}
      /\ \A k \in 1..K : \A j \in DOMAIN Nodes(k) : GoodNode(Nodes(k)[j])
      /\ Made = Written
  BY AllIsMade
<1>2. Readable
  <2>1. config.specs # Malformed /\ config.centers # Malformed
    BY <1>1 DEF CentersInv
  <2>2. Malformed \notin Elements(config.specs) /\ Malformed \notin Elements(config.centers)
    BY <1>1 DEF SpecsInv, CentersInv, Elements
  <2>3. \A k \in 1..K : Malformed \notin Elements(config.centers[k].servers)
    <3>1. \A k \in 1..K : \A j \in DOMAIN Nodes(k) : Nodes(k)[j] # Malformed
      BY <1>1 DEF GoodNode
    <3> QED BY <3>1 DEF Elements, Nodes
  <2>4. \A d \in Elements(config.centers) : \E k \in 1..K : d = config.centers[k]
    BY <1>1 DEF Elements
  <2> QED BY <2>1, <2>2, <2>3, <2>4 DEF Readable
<1>3. Cardinality(Elements(config.specs)) = Len(config.specs)
  <2> DEFINE f == config.specs
  <2>1. Elements(config.specs) = {f[m] : m \in 1..S}
    BY <1>1 DEF Elements
  <2>2. \A l, m \in 1..S : f[l] = f[m] => l = m
    BY <1>1 DEF SpecsInv
  <2>3. S \in Nat
    BY <1>1
  <2> HIDE DEF f
  <2>4. Cardinality(Elements(config.specs)) = S
    BY <2>1, <2>2, <2>3, NoneTwice
  <2> QED BY <1>1, <2>4
<1>4. Cardinality(CenterNames) = Len(config.centers)
  <2> DEFINE f == [k \in 1..K |-> NameOf(k)]
  <2>1. CenterNames = {f[k] : k \in 1..K}
    BY <1>1
  <2>2. \A k, l \in 1..K : f[k] = f[l] => k = l
    <3>1. \A k, l \in 1..K : NameOf(k) = NameOf(l) => k = l
      BY <1>1 DEF BuiltInv
    <3> QED BY <3>1
  <2>3. K \in Nat
    BY <1>1
  <2> HIDE DEF f
  <2>4. Cardinality(CenterNames) = K
    BY <2>1, <2>2, <2>3, NoneTwice
  <2> QED BY <1>1, <2>4
<1>5. {Cloud, VMStorage} \cap CenterNames = {}
  BY <1>1 DEF BuiltInv
<1>6. \A d \in Elements(config.centers) : \A e \in Elements(d.servers) :
         /\ e.spec \in Elements(config.specs)
         /\ e.count > 0 => e.scheduler = "greedy"
         /\ e.count < Modulus - 1
  <2>1. ASSUME NEW k \in 1..K, NEW e \in Elements(config.centers[k].servers)
        PROVE  GoodNode(e)
    <3>1. PICK j \in DOMAIN Nodes(k) : e = Nodes(k)[j]
      BY DEF Elements, Nodes
    <3>2. GoodNode(Nodes(k)[j])
      BY <1>1
    <3> QED BY <3>1, <3>2
  <2>2. \A d \in Elements(config.centers) : \E k \in 1..K : d = config.centers[k]
    BY <1>1 DEF Elements
  <2> QED BY <2>1, <2>2 DEF GoodNode
<1>7. ASSUME NEW s \in Elements(config.specs)
      PROVE  /\ Cardinality(WrittenOf(s)) <= Modulus
             /\ \A n \in SerialsOf(s) : ServerName(s, n) \notin {Cloud, VMStorage} \cup CenterNames
  <2>1. WrittenOf(s) = OfSpec(Made, s) /\ s \in DOMAIN serials
    BY <1>1, SpecOfWritten
  <2>2. Cardinality(WrittenOf(s)) <= Modulus
    BY <1>1, <2>1 DEF CountInv
  <2>3. SerialsOf(s) = Serials(Cardinality(OfSpec(Made, s)))
    BY <2>1 DEF SerialsOf, Serials
  <2>4. \A n \in SerialsOf(s) : ServerName(s, n) \in scheduled
    BY <1>1, <2>1, <2>3 DEF CountInv
  <2>5. scheduled \cap ({Cloud, VMStorage} \cup CenterNames) = {}
    BY <1>1 DEF BuiltInv
  <2> QED BY <2>2, <2>4, <2>5
<1> QED BY <1>2, <1>3, <1>4, <1>5, <1>6, <1>7 DEF Acceptable

LEMMA ListensIfBuilt ==
  ASSUME StartupInv
  PROVE  BuiltAsWritten
<1> SUFFICES ASSUME phase = "listening" PROVE BuiltAsWritten
  BY DEF BuiltAsWritten
<1>1. /\ BuiltInv /\ CountInv /\ DOMAIN config.centers = 1..K
      /\ DOMAIN serials = Elements(config.specs)
      /\ CenterNames = {NameOf(k) : k \in 1..K} /\ Made = Written
  BY AllIsMade
<1>2. components[Cloud] = CenterNames
  BY <1>1 DEF BuiltInv
<1>3. scheduled = UNION {components[n] : n \in CenterNames}
  <2>1. scheduled = UNION {components[NameOf(k)] : k \in 1..K}
    BY <1>1 DEF BuiltInv
  <2> QED BY <1>1, <2>1
<1>4. scheduled = UNION {{ServerName(s, n) : n \in SerialsOf(s)} : s \in Elements(config.specs)}
  <2>1. \A s : SerialsOf(s) = Serials(Cardinality(OfSpec(Made, s)))
    BY <1>1, SpecOfWritten DEF SerialsOf, Serials
  <2>2. scheduled = UNION {{ServerName(s, n) : n \in Serials(Cardinality(OfSpec(Made, s)))} :
                            s \in DOMAIN serials}
    BY <1>1 DEF CountInv
  <2> QED BY <1>1, <2>1, <2>2
<1>5. names = {Cloud, VMStorage} \cup CenterNames \cup scheduled
  BY <1>1 DEF BuiltInv
<1>6. \A k \in DOMAIN config.centers :
         Cardinality(components[config.centers[k].name]) = Cardinality({p \in Written : p[1] = k})
  BY <1>1 DEF CountInv, OfCenter, NameOf
<1> QED BY <1>2, <1>3, <1>4, <1>5, <1>6 DEF BuiltAsWritten

-----------------------------------------------------------------------------
(* What is left to read is what is written after what was read, what is    *)
(* built is what was read, and who was turned away asked for what cannot   *)
(* be built (the loops of ParseSpecs and ParseCloud).                      *)
THEOREM StartupIsSound == StartupSpec => []StartupInv
<1>1. StartupInit => StartupInv
  BY StartupInvInit
<1>2. StartupInv /\ [StartupNext]_startupVars => StartupInv'
  BY StartupStepKeeps
<1> QED BY <1>1, <1>2, PTL DEF StartupSpec, StartupSafetySpec

(* The engine listens only with an acceptable configuration and turns away *)
(* only others, for any configurations and any width of the counters.      *)
THEOREM StartupRejects == StartupSpec => []RejectsTheRightOnes
<1>1. StartupInv => RejectsTheRightOnes
  <2> SUFFICES ASSUME StartupInv PROVE RejectsTheRightOnes
    OBVIOUS
  <2>1. phase = "listening" => Acceptable
    BY ListensIfAcceptable
  <2>2. phase \in {"error", "aborted"} => ~Acceptable
    BY DEF StartupInv
  <2> QED BY <2>1, <2>2 DEF RejectsTheRightOnes
<1> QED BY <1>1, StartupIsSound, PTL

(* The engine that listens has the cloud that was written, numbered without*)
(* gaps, for any configurations and any width of the counters.             *)
THEOREM StartupBuilds == StartupSpec => []BuiltAsWritten
<1>1. StartupInv => BuiltAsWritten
  BY ListensIfBuilt
<1> QED BY <1>1, StartupIsSound, PTL

-----------------------------------------------------------------------------
(* The resources are the actors that startup made, and the order in which  *)
(* an unordered_set yields components is any in which each occurs once.    *)
BuiltAsResources ==
  /\ Resource = {Cloud} \cup CenterNames \cup scheduled
  /\ \A r \in Resource :
       /\ \A x : Directly(r, x) <=> r \in DOMAIN components /\ x \in components[r]
       /\ \A m, n \in 1..Len(Components[r]) : Components[r][m] = Components[r][n] => m = n

LEMMA BuiltIsForest ==
  ASSUME StartupInv, phase = "listening", BuiltAsResources
  PROVE  ComponentsFormForest
<1>1. /\ BuiltInv /\ CenterNames = {NameOf(k) : k \in 1..K}
  BY AllIsMade
<1>2. /\ Cloud \notin CenterNames /\ Cloud \notin scheduled /\ scheduled \cap CenterNames = {}
      /\ DOMAIN components = {Cloud} \cup CenterNames
      /\ components[Cloud] = CenterNames
      /\ \A d \in CenterNames : components[d] \subseteq scheduled
      /\ \A d, e \in CenterNames : d # e => components[d] \cap components[e] = {}
  <2>1. /\ Cloud \notin CenterNames /\ Cloud \notin scheduled /\ scheduled \cap CenterNames = {}
        /\ DOMAIN components = {Cloud} \cup CenterNames
        /\ components[Cloud] = CenterNames
    BY <1>1 DEF BuiltInv
  <2>2. \A d \in CenterNames : components[d] \subseteq scheduled
    BY <1>1 DEF BuiltInv
  <2>3. \A k, l \in 1..K : k # l => components[NameOf(k)] \cap components[NameOf(l)] = {}
    BY <1>1 DEF BuiltInv
  <2>4. \A d, e \in CenterNames : d # e => components[d] \cap components[e] = {}
    BY <1>1, <2>3
  <2> QED BY <2>1, <2>2, <2>4
<1>3. \A r \in Resource : \A x : Directly(r, x) => r \in DOMAIN components /\ x \in components[r]
  BY DEF BuiltAsResources
<1>4. Resource = {Cloud} \cup CenterNames \cup scheduled
  BY DEF BuiltAsResources
<1>5. ASSUME NEW p \in Resource, NEW q \in Resource, NEW m \in 1..Len(Components[p]),
             NEW n \in 1..Len(Components[q]), Components[p][m] = Components[q][n]
      PROVE  p = q /\ m = n
  <2>1. /\ p \in DOMAIN components /\ q \in DOMAIN components
        /\ Components[p][m] \in components[p] \cap components[q]
    BY <1>3, <1>5 DEF Directly
  <2>2. p = q
    BY <1>2, <2>1
  <2> QED BY <1>5, <2>2 DEF BuiltAsResources
<1>6. ASSUME NEW r \in Resource, Below(r, r) PROVE FALSE
  <2> DEFINE Under(x) == IF x = Cloud THEN CenterNames \cup scheduled
                         ELSE IF x \in CenterNames THEN scheduled ELSE {}
  <2>1. Under(r) \in SUBSET Resource /\ r \notin Under(r)
    BY <1>2, <1>4
  <2>2. \A x \in Resource : Directly(r, x) => x \in Under(r)
    BY <1>2, <1>3
  <2>3. Closed(Under(r))
    <3>1. ASSUME NEW y \in Under(r), NEW x \in Resource, Directly(y, x)
          PROVE  x \in Under(r)
      <4>1. y \in Resource /\ y \in CenterNames \cup scheduled
        BY <1>4, <2>1
      <4>2. y \in DOMAIN components /\ x \in components[y]
        BY <1>3, <3>1, <4>1
      <4>3. y \in CenterNames /\ x \in scheduled
        BY <1>2, <4>1, <4>2
      <4> QED BY <1>2, <4>3
    <3> QED BY <3>1 DEF Closed
  <2> HIDE DEF Under
  <2> QED BY <1>6, <2>1, <2>2, <2>3 DEF Below
<1> QED BY <1>5, <1>6 DEF ComponentsFormForest

(* The components that startup gives to the cloud and the data centers     *)
(* form a forest, as the theorem on failures assumes (ParseCloud,          *)
(* AddDataCenter and AddServer).                                           *)
THEOREM StartupBuildsForest ==
  StartupSpec => [](phase = "listening" /\ BuiltAsResources => ComponentsFormForest)
<1>1. StartupInv => (phase = "listening" /\ BuiltAsResources => ComponentsFormForest)
  BY BuiltIsForest
<1> QED BY <1>1, StartupIsSound, PTL

=============================================================================
