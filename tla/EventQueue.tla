------------------------------ MODULE EventQueue ------------------------------
(***************************************************************************)
(* The discrete-time event queue every part of the simulator schedules on: *)
(* EventLoop::queue_, current_ts_, Insert() and the frame that             *)
(* SimulateNextStep() puts around a handler (events/event-loop.cpp).       *)
(*                                                                         *)
(* queue_ is a std::map from time stamps to deques that are never empty    *)
(* between two steps.  An event's happen_time is the key it is filed       *)
(* under, so an event is whatever else it carries: addressee and type.     *)
(***************************************************************************)
EXTENDS Integers, Sequences

VARIABLES
  queue,  \* EventLoop::queue_: time stamp -> nonempty sequence of events
  now     \* EventLoop::current_ts_

evVars == <<queue, now>>

EvInit ==
  /\ queue = << >>
  /\ now = 1

(* The clock and the time stamps are natural numbers, and every deque is   *)
(* nonempty and holds events of the set E.                                 *)
QueueTypeOK(E) ==
  /\ now \in Nat
  /\ DOMAIN queue \subseteq Nat
  /\ \A t \in DOMAIN queue : queue[t] \in Seq(E) \ {<< >>}

-----------------------------------------------------------------------------
(* The map: the deque found at t (none is an empty one), storing, erasing. *)

At(q, t) == IF t \in DOMAIN q THEN q[t] ELSE << >>

Put(q, t, es) == [u \in DOMAIN q \cup {t} |-> IF u = t THEN es ELSE q[u]]

Erase(q, t) == [u \in DOMAIN q \ {t} |-> q[u]]

(* A faulty variant of Insert: the present is taken for the past. *)
InsertStrictlyLater(q, clock, t, es, immediate) ==
  IF t <= clock \/ es = << >> THEN q
  ELSE Put(q, t, IF immediate THEN es \o At(q, t) ELSE At(q, t) \o es)

(***************************************************************************)
(* EventLoop::Insert for each event of es in turn, all for time t, while   *)
(* current_ts_ is clock: a time in the past is logged and dropped,         *)
(* immediate events go to the head of the deque, others to its end.  es    *)
(* has at most one event when immediate is set.                            *)
(***************************************************************************)
Insert(q, clock, t, es, immediate) ==
  IF t < clock \/ es = << >> THEN q
  ELSE Put(q, t, IF immediate THEN es \o At(q, t) ELSE At(q, t) \o es)

-----------------------------------------------------------------------------
(* Event e waits for time t; event e waits at all. *)
QueuedAt(e, t) == t \in DOMAIN queue /\ \E i \in 1..Len(queue[t]) : queue[t][i] = e

Queued(e) == \E t \in DOMAIN queue : QueuedAt(e, t)

(* The next step is for time t, that is, queue_.begin() is the deque of t. *)
IsNext(t) == t \in DOMAIN queue /\ \A u \in DOMAIN queue : t <= u

NextEvent(t) == Head(queue[t])

(* Faulty variants of EndOfStep: the event is not popped; the empty deque  *)
(* is not erased; the clock does not advance when a deque is done.         *)
EndOfStepUnpopped(t, at, out, updates) ==
  /\ queue' = Insert(queue, t, at, out, FALSE)
  /\ now' = t

EndOfStepUnerased(t, at, out, updates) ==
  LET q == Insert([queue EXCEPT ![t] = Tail(@)], t, at, out, FALSE)
  IN  /\ \E u \in updates : queue' = IF q[t] = << >> THEN Put(q, t, u) ELSE q
      /\ now' = IF q[t] = << >> THEN t + 1 ELSE t

EndOfStepUntimed(t, at, out, updates) ==
  LET q == Insert([queue EXCEPT ![t] = Tail(@)], t, at, out, FALSE)
  IN  /\ \E u \in updates :
           queue' = IF q[t] # << >> THEN q
                    ELSE IF u = << >> THEN Erase(q, t) ELSE Put(q, t, u)
      /\ now' = t

(***************************************************************************)
(* The rest of SimulateNextStep() around a handler that ran for the first  *)
(* event of time t and scheduled the events out for time at: the event is  *)
(* popped, current_ts_ is t while the handler inserts, and, when the deque *)
(* of t is left empty, its key is erased, update_world() is called with    *)
(* the clock still at t, and the clock then advances by one.  updates is   *)
(* the set of deques update_world() may leave at t, the empty one when it  *)
(* schedules nothing.                                                      *)
(***************************************************************************)
EndOfStep(t, at, out, updates) ==
  LET q == Insert([queue EXCEPT ![t] = Tail(@)], t, at, out, FALSE)
  IN  \/ /\ q[t] # << >>
         /\ queue' = q
         /\ now' = t
      \/ /\ q[t] = << >>
         /\ \E u \in updates :
              queue' = IF u = << >> THEN Erase(q, t) ELSE Put(q, t, u)
         /\ now' = t + 1

NoUpdate == {<< >>}

=============================================================================
