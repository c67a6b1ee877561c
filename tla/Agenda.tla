-------------------------------- MODULE Agenda --------------------------------
(***************************************************************************)
(* What a discrete-event simulation promises to whoever schedules events:  *)
(* an event handed in for the present or later is handled once and at its  *)
(* time, none is handled before one that is due earlier, and simulated     *)
(* time never goes back.  An event for the past may be refused.  How       *)
(* events due at the same time are ordered is left open.                   *)
(***************************************************************************)
EXTENDS Integers

CONSTANT Event

VARIABLES
  waiting,  \* <<t, e>>: event e is due at t
  known,    \* the events handed in so far -> the time asked for
  handled,  \* the events handled so far
  last      \* the time of the event handled last

agendaVars == <<waiting, known, handled, last>>

AgendaInit ==
  /\ waiting = {}
  /\ DOMAIN known = {}
  /\ handled = {}
  /\ last = 0

(* Of the entries, those of kept remain.  Events never handed in before    *)
(* are: one asked for at time sure or later becomes an entry, one for a    *)
(* time before earliest is refused, and between the two it may be either.  *)
Accepts(kept, earliest, sure) ==
  LET new == DOMAIN known' \ DOMAIN known
  IN  /\ DOMAIN known \subseteq DOMAIN known' /\ new \subseteq Event
      /\ \A e \in DOMAIN known : known'[e] = known[e]
      /\ \A e \in new : known'[e] \in Nat
      /\ kept \subseteq waiting'
      /\ \A p \in waiting' \ kept :
           \E e \in new : p = <<known'[e], e>> /\ known'[e] >= earliest
      /\ \A e \in new : known'[e] >= sure => <<known'[e], e>> \in waiting'

(* The present is the time of the event handled last, or the tick after it *)
(* when no other was due then.                                             *)
Plan == UNCHANGED <<handled, last>> /\ Accepts(waiting, last, last + 1)

(* What is scheduled while an event is handled cannot be refused unless it *)
(* is for a time before that event's.                                      *)
Handle(p) ==
  /\ p \in waiting
  /\ \A q \in waiting : p[1] <= q[1]
  /\ p[2] \notin handled
  /\ handled' = handled \cup {p[2]}
  /\ last' = p[1]
  /\ Accepts(waiting \ {p}, p[1], p[1])

AgendaNext == Plan \/ \E p \in waiting : Handle(p)

AgendaSpec == AgendaInit /\ [][AgendaNext]_agendaVars

=============================================================================
