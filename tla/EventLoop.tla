------------------------------- MODULE EventLoop -------------------------------
(***************************************************************************)
(* events::EventLoop (events/event-loop.cpp) on its own: the three ways to *)
(* run it, and client code that schedules while it does not run.  Handlers *)
(* and update_world() schedule what they like, up to MaxBatch events at a  *)
(* time.  SimulateUntil and SimulateSteps are public but have no caller in *)
(* the repository.                                                         *)
(*                                                                         *)
(* An element of Event is one event object: it is made and scheduled once. *)
(***************************************************************************)
EXTENDS EventQueue, FiniteSets

CONSTANTS
  Event,     \* bound: the event objects of a behaviour
  MaxTime,   \* bound: the last time an event is scheduled for
  MaxSteps,  \* bound: steps_count of SimulateSteps
  MaxBatch   \* bound: the events a handler or update_world() schedules at once

ASSUME LoopAssumption ==
  MaxTime \in Nat \ {0} /\ MaxSteps \in Nat /\ MaxBatch \in Nat

VARIABLES
  made,     \* the event objects made so far -> their happen_time
  mode,     \* the member function that is running
  goal,     \* its until_ts, or the steps it has left
  handled,  \* history: the events handled
  last      \* history: the time of the event handled last, 0 before

loopVars == <<queue, now, made, mode, goal, handled, last>>

LoopInit ==
  /\ EvInit
  /\ made = << >>
  /\ mode = "idle"
  /\ goal = 0
  /\ handled = {}
  /\ last = 0

-----------------------------------------------------------------------------
EventsOf(es) == {es[i] : i \in DOMAIN es}

(* The events that can be made and scheduled next, in some order. *)
Fresh ==
  {es \in UNION {[1..n -> Event \ DOMAIN made] : n \in 0..MaxBatch} :
     \A i, j \in DOMAIN es : es[i] = es[j] => i = j}

(* Events are made with their happen_time. *)
Make(es, t) ==
  [e \in DOMAIN made \cup EventsOf(es) |-> IF e \in EventsOf(es) THEN t ELSE made[e]]

(* Insert() from outside the loop. *)
Schedule(e, t, immediate) ==
  /\ mode = "idle"
  /\ e \notin DOMAIN made
  /\ made' = Make(<<e>>, t)
  /\ queue' = Insert(queue, now, t, <<e>>, immediate)
  /\ UNCHANGED <<now, mode, goal, handled, last>>

Call(m, g) ==
  /\ mode = "idle"
  /\ mode' = m
  /\ goal' = g
  /\ UNCHANGED <<queue, now, made, handled, last>>

(* The condition on which the running function breaks its loop. *)
Done ==
  \/ mode = "SimulateAll" /\ queue = << >>
  \/ mode = "SimulateUntil" /\ now > goal
  \/ mode = "SimulateSteps" /\ goal = 0

Return ==
  /\ Done
  /\ mode' = "idle"
  /\ goal' = 0
  /\ UNCHANGED <<queue, now, made, handled, last>>

NextRound ==
  /\ mode # "idle"
  /\ ~Done
  /\ UNCHANGED mode
  /\ goal' = IF mode = "SimulateSteps" THEN goal - 1 ELSE goal

(* SimulateNextStep() with nothing to do only logs. *)
EmptyStep ==
  /\ NextRound
  /\ queue = << >>
  /\ UNCHANGED <<queue, now, made, handled, last>>

(* The handler schedules the events of out, for one time of its choice     *)
(* (also one in the past), as the program's handlers do; update_world()    *)
(* schedules those of update for the present one, at either end.           *)
SimulateNextStep(t) ==
  /\ NextRound
  /\ IsNext(t)
  /\ handled' = handled \cup {NextEvent(t)}
  /\ last' = t
  /\ \E out, update \in Fresh, at \in 0..MaxTime :
       /\ EventsOf(out) \cap EventsOf(update) = {}
       /\ made' = [e \in DOMAIN made \cup EventsOf(out) \cup EventsOf(update) |->
                     IF e \in EventsOf(out) THEN at
                     ELSE IF e \in EventsOf(update) THEN t ELSE made[e]]
       /\ EndOfStep(t, at, out, {update})
       /\ update # << >> => now' = t + 1

LoopNext ==
  \/ \E e \in Event, t \in 0..MaxTime, immediate \in BOOLEAN : Schedule(e, t, immediate)
  \/ Call("SimulateAll", 0)
  \/ \E until \in 0..MaxTime : Call("SimulateUntil", until)
  \/ \E steps \in 0..MaxSteps : Call("SimulateSteps", steps)
  \/ Return
  \/ EmptyStep
  \/ \E t \in DOMAIN queue : SimulateNextStep(t)

LoopSafetySpec == LoopInit /\ [][LoopNext]_loopVars

(* A function that was called goes on; calling one is up to the caller. *)
LoopSpec ==
  /\ LoopSafetySpec
  /\ WF_loopVars(Return)
  /\ WF_loopVars(EmptyStep \/ \E t \in DOMAIN queue : SimulateNextStep(t))

-----------------------------------------------------------------------------
Entries == UNION {{<<t, queue[t][i]>> : i \in 1..Len(queue[t])} : t \in DOMAIN queue}

(* The loop handles the events as the Agenda promises, although its clock  *)
(* runs ahead by a tick whenever a deque empties, before events that       *)
(* update_world() left behind are handled.                                 *)
TheAgenda == INSTANCE Agenda WITH waiting <- Entries, known <- made

AgendaKept == TheAgenda!AgendaSpec

(* SimulateAll and SimulateSteps return, for any handlers that do not go   *)
(* on scheduling for ever.                                                 *)
AllAndStepsReturn == mode \in {"SimulateAll", "SimulateSteps"} ~> mode = "idle"

(* SimulateUntil(u) returns if an event is due at u or later; otherwise it *)
(* spins for ever on the empty queue, with the clock stuck at u or before. *)
UntilReturns ==
  (mode = "SimulateUntil" /\ \E t \in DOMAIN queue : t >= goal) ~> mode = "idle"

=============================================================================
