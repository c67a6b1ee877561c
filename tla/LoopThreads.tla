------------------------------ MODULE LoopThreads ------------------------------
(***************************************************************************)
(* The event loop as gRPC's threads use it (World::Listen starts a         *)
(* synchronous server, which serves each call on a thread of its own):     *)
(* EventLoop::Insert, SimulateAll and SimulateNextStep at the grain of     *)
(* their accesses to queue_ and current_ts_, which no lock guards.         *)
(*                                                                         *)
(* A deque is known by the event whose Insert created it.  One access to   *)
(* the map or to a deque is one step here; a use of a deque that has been  *)
(* erased, or of the first element of an empty one, is undefined, and      *)
(* nothing is said of the program after it (broken).  What a torn access   *)
(* to the map's own tree may do besides is not modelled.                   *)
(***************************************************************************)
EXTENDS Integers, Sequences, FiniteSets

CONSTANTS
  Caller,     \* threads that serve one command RPC each (bound: commands)
  Provision,  \* those whose command is a provision request
  Simulator,  \* threads that serve SimulateAll RPCs
  Delay       \* the delay of the handlers: start_delay_ and the like

ASSUME ThreadsAssumption ==
  /\ Caller \cap Simulator = {}
  /\ Provision \subseteq Caller
  /\ Delay \in Nat

Thread == Caller \cup Simulator

(* The event a command inserts, and the one its handler schedules. *)
Command(c) == [of |-> c, completion |-> FALSE]
Completion(c) == [of |-> c, completion |-> TRUE]
Event == [of : Caller, completion : BOOLEAN]

VARIABLES
  queue,       \* queue_: time stamp -> the deque filed there
  deque,       \* the deques not erased -> their events
  now,         \* current_ts_
  pc,          \* where each thread is
  arg,         \* the event and time each thread inserts or holds
  ref,         \* the deque an Insert has found
  step,        \* a simulator's ts and ts_queue: the time and deque of its step
  broken,      \* undefined behaviour has occurred
  handled,     \* history: how often each event was handled
  known,       \* history: the events Insert has filed or dropped -> their times
  last,        \* history: the time of the step handled last
  overlapped   \* history: the RPCs served during another's SimulateAll

shared == <<queue, deque, now>>
history == <<handled, known, last>>
threadVars == <<queue, deque, now, pc, arg, ref, step, broken, handled, known, last, overlapped>>

NoArg == [event |-> Command(CHOOSE c \in Caller : TRUE), ts |-> 0]
NoRef == NoArg.event

ThreadsInit ==
  /\ queue = << >>
  /\ deque = << >>
  /\ now = 1
  /\ pc = [th \in Thread |-> "idle"]
  /\ arg = [th \in Thread |-> NoArg]
  /\ ref = [th \in Thread |-> NoRef]
  /\ step = [s \in Simulator |-> [ts |-> 0, ts_queue |-> NoRef]]
  /\ broken = FALSE
  /\ handled = [e \in Event |-> 0]
  /\ known = << >>
  /\ last = 0
  /\ overlapped = {}

-----------------------------------------------------------------------------
Goto(th, from, to) == pc[th] = from /\ pc' = [pc EXCEPT ![th] = to]

(* A call begins: gRPC has a thread for it whatever the others do. *)
Begins(th) == pc[th] = "idle"

(* The thread uses what is not there. *)
Breaks == broken' = TRUE /\ UNCHANGED <<shared, pc, arg, ref, step, history>>

Live(d) == d \in DOMAIN deque

(* Insert has done with its event. *)
Noticed(th) ==
  known' = [e \in DOMAIN known \cup {arg[th].event} |->
              IF e = arg[th].event THEN arg[th].ts ELSE known[e]]

AfterInsert(th) == IF th \in Caller THEN "done" ELSE "finish"

-----------------------------------------------------------------------------
(* EventLoop::Insert, and the MakeEvent before it that reads the clock. *)
ReadNow(c) ==
  /\ Begins(c)
  /\ Goto(c, "idle", "check")
  /\ arg' = [arg EXCEPT ![c] = [event |-> Command(c), ts |-> now]]
  /\ UNCHANGED <<shared, ref, step, broken, history>>

Check(th) ==
  /\ arg[th].ts >= now
  /\ Goto(th, "check", "find")
  /\ UNCHANGED <<shared, arg, ref, step, broken, history>>

(* A faulty variant of Drop: the present is taken for the past. *)
DropPresent(th) ==
  /\ arg[th].ts <= now
  /\ Goto(th, "check", AfterInsert(th))
  /\ Noticed(th)
  /\ UNCHANGED <<shared, arg, ref, step, broken, handled, last>>

(* "Timestamp in the past!": the event is dropped, the RPC answers OK. *)
Drop(th) ==
  /\ arg[th].ts < now
  /\ Goto(th, "check", AfterInsert(th))
  /\ Noticed(th)
  /\ UNCHANGED <<shared, arg, ref, step, broken, handled, last>>

Find(th) ==
  /\ arg[th].ts \in DOMAIN queue
  /\ Goto(th, "find", "emplace")
  /\ ref' = [ref EXCEPT ![th] = queue[arg[th].ts]]
  /\ UNCHANGED <<shared, arg, step, broken, history>>

FindNothing(th) ==
  /\ arg[th].ts \notin DOMAIN queue
  /\ Goto(th, "find", "create")
  /\ UNCHANGED <<shared, arg, ref, step, broken, history>>

(* queue_[ts]: the deque another thread has filed meanwhile, or a new one. *)
Create(th) ==
  LET t == arg[th].ts
      e == arg[th].event
  IN  /\ Goto(th, "create", "emplace_back")
      /\ \/ /\ t \in DOMAIN queue
            /\ ref' = [ref EXCEPT ![th] = queue[t]]
            /\ UNCHANGED <<queue, deque>>
         \/ /\ t \notin DOMAIN queue
            /\ ref' = [ref EXCEPT ![th] = e]
            /\ queue' = [u \in DOMAIN queue \cup {t} |-> IF u = t THEN e ELSE queue[u]]
            /\ deque' = [d \in DOMAIN deque \cup {e} |-> IF d = e THEN << >> ELSE deque[d]]
      /\ UNCHANGED <<now, arg, step, broken, history>>

Emplacing(th) == pc[th] \in {"emplace", "emplace_back"}

(* In a deque that Find has found a provision request goes to the head; in *)
(* one that queue_[ts] returned every event goes to the end.               *)
Emplace(th) ==
  /\ Emplacing(th)
  /\ Live(ref[th])
  /\ Goto(th, pc[th], AfterInsert(th))
  /\ deque' = [deque EXCEPT ![ref[th]] =
                 IF th \in Provision /\ pc[th] = "emplace"
                 THEN <<arg[th].event>> \o @ ELSE @ \o <<arg[th].event>>]
  /\ Noticed(th)
  /\ UNCHANGED <<queue, now, arg, ref, step, broken, handled, last>>

EmplaceBreaks(th) == Emplacing(th) /\ ~Live(ref[th]) /\ Breaks

Insert(th) ==
  Check(th) \/ Drop(th) \/ Find(th) \/ FindNothing(th) \/ Create(th)
    \/ Emplace(th) \/ EmplaceBreaks(th)

-----------------------------------------------------------------------------
(* EventLoop::SimulateAll and SimulateNextStep. *)
Enter(s) ==
  /\ Begins(s)
  /\ Goto(s, "idle", "test")
  /\ UNCHANGED <<shared, arg, ref, step, broken, history>>

(* A faulty variant of Return: the empty queue does not end the loop. *)
ReturnNever(s) ==
  /\ queue = << >>
  /\ Goto(s, "test", "look")
  /\ UNCHANGED <<shared, arg, ref, step, broken, history>>

Return(s) ==
  /\ queue = << >>
  /\ Goto(s, "test", "idle")
  /\ UNCHANGED <<shared, arg, ref, step, broken, history>>

Test(s) ==
  /\ queue # << >>
  /\ Goto(s, "test", "look")
  /\ UNCHANGED <<shared, arg, ref, step, broken, history>>

(* The queue may have been emptied by another SimulateAll: "Queue is       *)
(* empty!".                                                                *)
LookInVain(s) ==
  /\ queue = << >>
  /\ Goto(s, "look", "test")
  /\ UNCHANGED <<shared, arg, ref, step, broken, history>>

(* A faulty variant of Look: any deque, not the earliest. *)
LookAnywhere(s) ==
  /\ Goto(s, "look", "read")
  /\ \E t \in DOMAIN queue :
       /\ now' = t
       /\ step' = [step EXCEPT ![s] = [ts |-> t, ts_queue |-> queue[t]]]
  /\ UNCHANGED <<queue, deque, arg, ref, broken, history>>

Look(s) ==
  /\ Goto(s, "look", "read")
  /\ \E t \in DOMAIN queue :
       /\ \A u \in DOMAIN queue : t <= u
       /\ now' = t
       /\ step' = [step EXCEPT ![s] = [ts |-> t, ts_queue |-> queue[t]]]
  /\ UNCHANGED <<queue, deque, arg, ref, broken, history>>

TsQueue(s) == step[s].ts_queue

HasFront(s) == Live(TsQueue(s)) /\ deque[TsQueue(s)] # << >>

Read(s) ==
  /\ HasFront(s)
  /\ Goto(s, "read", "pop")
  /\ arg' = [arg EXCEPT ![s] = [event |-> Head(deque[TsQueue(s)]), ts |-> step[s].ts]]
  /\ UNCHANGED <<shared, ref, step, broken, history>>

(* A faulty variant of Pop: the event stays in the deque. *)
PopNothing(s) ==
  /\ HasFront(s)
  /\ Goto(s, "pop", "handle")
  /\ UNCHANGED <<shared, arg, ref, step, broken, history>>

Pop(s) ==
  /\ HasFront(s)
  /\ Goto(s, "pop", "handle")
  /\ deque' = [deque EXCEPT ![TsQueue(s)] = Tail(@)]
  /\ UNCHANGED <<queue, now, arg, ref, step, broken, history>>

FrontBreaks(s) == pc[s] \in {"read", "pop"} /\ ~HasFront(s) /\ Breaks

(* The handler of a command schedules its completion; that of a completion *)
(* nothing.                                                                *)
Handle(s) ==
  LET e == arg[s].event
  IN  /\ pc[s] = "handle"
      /\ handled' = [handled EXCEPT ![e] = @ + 1]
      /\ last' = step[s].ts
      /\ \/ /\ ~e.completion
            /\ arg' = [arg EXCEPT ![s] = [event |-> Completion(e.of), ts |-> step[s].ts + Delay]]
            /\ pc' = [pc EXCEPT ![s] = "check"]
         \/ /\ e.completion
            /\ pc' = [pc EXCEPT ![s] = "finish"]
            /\ UNCHANGED arg
      /\ UNCHANGED <<shared, ref, step, broken, known>>

(* A faulty variant of Finish: the deque is erased whether empty or not. *)
FinishAnyway(s) ==
  /\ Live(TsQueue(s))
  /\ Goto(s, "finish", "erase")
  /\ UNCHANGED <<shared, arg, ref, step, broken, history>>

Finish(s) ==
  /\ Live(TsQueue(s))
  /\ Goto(s, "finish", IF deque[TsQueue(s)] = << >> THEN "erase" ELSE "test")
  /\ UNCHANGED <<shared, arg, ref, step, broken, history>>

Erase(s) ==
  /\ Live(TsQueue(s))
  /\ Goto(s, "erase", "tick")
  /\ queue' = [u \in DOMAIN queue \ {step[s].ts} |-> queue[u]]
  /\ deque' = [d \in DOMAIN deque \ {TsQueue(s)} |-> deque[d]]
  /\ UNCHANGED <<now, arg, ref, step, broken, history>>

EndBreaks(s) == pc[s] \in {"finish", "erase"} /\ ~Live(TsQueue(s)) /\ Breaks

(* update_world(), which schedules nothing here, and the clock's tick. *)
Tick(s) ==
  /\ Goto(s, "tick", "test")
  /\ now' = now + 1
  /\ UNCHANGED <<queue, deque, arg, ref, step, broken, history>>

SimulateNextStep(s) ==
  \/ LookInVain(s)
  \/ Look(s)
  \/ Read(s)
  \/ Pop(s)
  \/ FrontBreaks(s)
  \/ Handle(s)
  \/ Insert(s)
  \/ Finish(s)
  \/ Erase(s)
  \/ EndBreaks(s)
  \/ Tick(s)

-----------------------------------------------------------------------------
Serve(c) == ReadNow(c) \/ Insert(c)

Simulate(s) == Enter(s) \/ Return(s) \/ Test(s) \/ SimulateNextStep(s)

(* Whatever steps, the calls under way while another's SimulateAll is are  *)
(* noted.                                                                  *)
Served(th) == pc[th] \notin {"idle", "done"}

Noted(action) ==
  /\ ~broken
  /\ action
  /\ overlapped' = overlapped \cup
       {th \in Thread : Served(th)' /\ \E s \in Simulator \ {th} : Served(s)'}

ThreadsNext ==
  \/ \E c \in Caller : Noted(Serve(c))
  \/ \E s \in Simulator : Noted(Simulate(s))

(* A call that is served goes on, and clients go on calling SimulateAll,   *)
(* as the console client does after every accepted command.  Nobody has to *)
(* send a command.                                                         *)
ThreadsSpec ==
  /\ ThreadsInit
  /\ [][ThreadsNext]_threadVars
  /\ \A c \in Caller : WF_threadVars(Noted(Insert(c)))
  /\ \A s \in Simulator : WF_threadVars(Noted(Simulate(s)))

-----------------------------------------------------------------------------
(* The events filed, and the one a simulator has popped. *)
Waiting ==
  (UNION {{<<t, deque[queue[t]][i]>> : i \in 1..Len(deque[queue[t]])} : t \in DOMAIN queue})
    \cup {<<step[s].ts, arg[s].event>> : s \in {r \in Simulator : pc[r] = "handle"}}

TheAgenda == INSTANCE Agenda WITH waiting <- Waiting,
  handled <- {e \in Event : handled[e] > 0}

(* As long as no RPC is served during another's SimulateAll, every access  *)
(* keeps the promise of Agenda, also when commands overlap each other, and *)
(* no command is dropped: this is why the other modules may take an Insert *)
(* and a SimulateNextStep as one step each.                                *)
AgendaKept ==
  /\ TheAgenda!AgendaInit
  /\ [][overlapped' = {} => TheAgenda!AgendaNext]_<<Waiting, known, handled, last, overlapped>>

TwoSimulate == overlapped \cap Simulator # {}

(* What overlap can do to memory and to events: nothing is used that is    *)
(* not there unless an RPC is served during a SimulateAll, and one         *)
(* SimulateAll at a time handles an event twice only if that RPC was a     *)
(* provision request: it goes to the head of the deque, and between        *)
(* event-loop.cpp:74 and 75 it is popped in place of the event read.       *)
DamageForOverlappedOnly ==
  /\ broken => overlapped # {}
  /\ (\E e \in Event : handled[e] > 1) => overlapped \cap Provision # {} \/ TwoSimulate

(* It goes back in time only for a command served while it ran: one filed  *)
(* for the time read before the loop moved the clock on.                   *)
BackInTimeForOverlappedOnly ==
  [][last' < last =>
       TwoSimulate \/ \E e \in Event : handled'[e] > handled[e] /\ e.of \in overlapped]_threadVars

(* A command answered before any SimulateAll began is carried out, and so  *)
(* is what it leads to, even if others are served while the loop runs; the *)
(* loss of a command hits only those, or needs two SimulateAlls.           *)
CommandsComplete ==
  \A c \in Caller :
    (pc[c] = "done" /\ c \notin overlapped) ~>
      (broken \/ TwoSimulate \/ handled[Completion(c)] > 0)

(* SimulateAll returns, two of them at once as well, unless the program    *)
(* breaks.                                                                 *)
SimulateAllEnds == \A s \in Simulator : pc[s] # "idle" ~> (pc[s] = "idle" \/ broken)

=============================================================================
