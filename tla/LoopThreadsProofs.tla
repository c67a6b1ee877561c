--------------------------- MODULE LoopThreadsProofs ---------------------------
(***************************************************************************)
(* LoopThreads, proved for any threads, commands and delay: what threads   *)
(* that do not overlap keep of Agenda, and what overlap cannot do.         *)
(***************************************************************************)
EXTENDS LoopThreads, TLAPS

InsertingPC == {"check", "find", "create", "emplace", "emplace_back"}
CallerPC == {"idle", "done"} \cup InsertingPC
SteppingPC == {"read", "pop", "handle", "finish", "erase"} \cup InsertingPC
SimulatorPC == {"idle", "test", "look", "tick"} \cup SteppingPC

Inserting(th) == pc[th] \in InsertingPC
Stepping(s) == pc[s] \in SteppingPC

(* Registers may hold anything while they are not used. *)
AnyEvent == Event \cup {NoRef}

TypeInv ==
  /\ DOMAIN queue \subseteq Nat
  /\ \A t \in DOMAIN queue : queue[t] \in Event
  /\ DOMAIN deque \subseteq Event
  /\ \A d \in DOMAIN deque : deque[d] \in Seq(Event)
  /\ now \in Nat /\ last \in Nat
  /\ pc \in [Thread -> CallerPC \cup SimulatorPC]
  /\ \A c \in Caller : pc[c] \in CallerPC
  /\ \A s \in Simulator : pc[s] \in SimulatorPC
  /\ arg \in [Thread -> [event : AnyEvent, ts : Nat]]
  /\ ref \in [Thread -> AnyEvent]
  /\ step \in [Simulator -> [ts : Nat, ts_queue : AnyEvent]]
  /\ handled \in [Event -> Nat]
  /\ DOMAIN known \subseteq Event /\ \A e \in DOMAIN known : known[e] \in Nat
  /\ overlapped \subseteq Thread

(* An event names the time it is due at, once it has been made: a deque,   *)
(* named by an event, too.                                                 *)
TimeOf(e) == arg[e.of].ts + (IF e.completion THEN Delay ELSE 0)

Due(e, t) == e \in Event /\ pc[e.of] # "idle" /\ TimeOf(e) = t

(* The deques are those of the map, each at the time of its name, with     *)
(* events due at that time; and so are the events and deques that threads  *)
(* hold, also when they have been erased or are about to be filed.  This   *)
(* holds however the threads overlap.                                      *)
DequesInv ==
  /\ \A t \in DOMAIN queue : queue[t] \in DOMAIN deque /\ Due(queue[t], t)
  /\ \A d \in DOMAIN deque :
       /\ TimeOf(d) \in DOMAIN queue /\ queue[TimeOf(d)] = d
       /\ \A i \in 1..Len(deque[d]) : Due(deque[d][i], TimeOf(d))

HeldInv ==
  /\ \A c \in Caller : pc[c] # "idle" => arg[c].event = Command(c)
  /\ \A th \in Thread :
       /\ Inserting(th) => Due(arg[th].event, arg[th].ts)
       /\ Emplacing(th) => Due(ref[th], arg[th].ts)
  /\ \A s \in Simulator :
       /\ Stepping(s) => Due(TsQueue(s), step[s].ts)
       /\ Inserting(s) => arg[s].event.completion /\ arg[s].ts = step[s].ts + Delay
       /\ pc[s] \in {"pop", "handle"} => Due(arg[s].event, step[s].ts)

-----------------------------------------------------------------------------
Acts(th) == (th \in Caller /\ Serve(th)) \/ (th \in Simulator /\ Simulate(th))

(* What no step of a thread touches. *)
OthersKept(th) ==
  /\ \A o \in Thread \ {th} : pc'[o] = pc[o] /\ arg'[o] = arg[o] /\ ref'[o] = ref[o]
  /\ \A s \in Simulator \ {th} : step'[s] = step[s]
  /\ \A c \in Caller : pc[c] # "idle" => pc'[c] # "idle" /\ arg'[c] = arg[c]

LEMMA ActsLeaveOthers ==
  ASSUME TypeInv, NEW th \in Thread, Acts(th)
  PROVE  OthersKept(th)
<1>0. /\ th \in Caller => th \notin Simulator
      /\ Caller \subseteq Thread /\ Simulator \subseteq Thread
      /\ DOMAIN pc = Thread /\ DOMAIN arg = Thread /\ DOMAIN ref = Thread
      /\ DOMAIN step = Simulator
      /\ th \in Caller => pc[th] \in CallerPC
  BY ThreadsAssumption DEF TypeInv, Thread
<1> USE DEF OthersKept, Goto, AfterInsert
<1>1. CASE th \in Caller /\ ReadNow(th)
  BY <1>0, <1>1 DEF ReadNow, Begins
<1>2. CASE Check(th)
  BY <1>0, <1>2 DEF Check
<1>3. CASE Drop(th)
  BY <1>0, <1>3 DEF Drop
<1>4. CASE Find(th)
  BY <1>0, <1>4 DEF Find
<1>5. CASE FindNothing(th)
  BY <1>0, <1>5 DEF FindNothing
<1>6. CASE Create(th)
  BY <1>0, <1>6 DEF Create
<1>7. CASE Emplace(th)
  BY <1>0, <1>7 DEF Emplace, Emplacing
<1>8. CASE EmplaceBreaks(th) \/ FrontBreaks(th) \/ EndBreaks(th)
  BY <1>8 DEF EmplaceBreaks, FrontBreaks, EndBreaks, Breaks
<1>9. CASE th \in Simulator /\ Enter(th)
  BY <1>0, <1>9 DEF Enter
<1>10. CASE th \in Simulator /\ Return(th)
  BY <1>0, <1>10 DEF Return
<1>11. CASE th \in Simulator /\ Test(th)
  BY <1>0, <1>11 DEF Test
<1>12. CASE th \in Simulator /\ LookInVain(th)
  BY <1>0, <1>12 DEF LookInVain
<1>13. CASE th \in Simulator /\ Look(th)
  BY <1>0, <1>13 DEF Look
<1>14. CASE th \in Simulator /\ Read(th)
  BY <1>0, <1>14 DEF Read
<1>15. CASE th \in Simulator /\ Pop(th)
  BY <1>0, <1>15 DEF Pop
<1>16. CASE th \in Simulator /\ Handle(th)
  <2>1. /\ \/ pc' = [pc EXCEPT ![th] = "check"] \/ pc' = [pc EXCEPT ![th] = "finish"]
        /\ \/ UNCHANGED arg
           \/ arg' = [arg EXCEPT ![th] = [event |-> Completion(arg[th].event.of),
                                         ts |-> step[th].ts + Delay]]
        /\ UNCHANGED <<ref, step>>
    BY <1>16 DEF Handle
  <2> QED BY <1>0, <1>16, <2>1
<1>17. CASE th \in Simulator /\ Finish(th)
  BY <1>0, <1>17 DEF Finish
<1>18. CASE th \in Simulator /\ Erase(th)
  BY <1>0, <1>18 DEF Erase
<1>19. CASE th \in Simulator /\ Tick(th)
  BY <1>0, <1>19 DEF Tick
<1> QED BY <1>1, <1>2, <1>3, <1>4, <1>5, <1>6, <1>7, <1>8, <1>9, <1>10, <1>11, <1>12,
           <1>13, <1>14, <1>15, <1>16, <1>17, <1>18, <1>19
        DEF Acts, Serve, Simulate, SimulateNextStep, Insert

(* What is due stays due at its time. *)
LEMMA DueStays ==
  ASSUME TypeInv, NEW th \in Thread, Acts(th), NEW e, NEW t, Due(e, t)
  PROVE  Due(e, t)'
<1>1. e.of \in Caller
  BY DEF Due, Event
<1> QED BY <1>1, ActsLeaveOthers DEF Due, TimeOf, OthersKept

-----------------------------------------------------------------------------
LEMMA TypeStep ==
  ASSUME TypeInv, DequesInv, HeldInv, NEW th \in Thread, Acts(th),
         overlapped' \subseteq Thread
  PROVE  TypeInv'
<1>0. th \in Caller => th \notin Simulator
  BY ThreadsAssumption
<1> USE DEF TypeInv, Goto, AfterInsert, shared, history,
           CallerPC, SimulatorPC, SteppingPC, InsertingPC
<1>1. CASE th \in Caller /\ ReadNow(th)
  <2>1. Command(th) \in Event
    BY <1>1 DEF Command, Event
  <2> QED BY <1>0, <1>1, <2>1 DEF ReadNow, AnyEvent
<1>2. CASE Check(th) \/ FindNothing(th)
  BY <1>0, <1>2 DEF Check, FindNothing, Thread
<1>3. CASE Drop(th)
  BY <1>0, <1>3 DEF Drop, Noticed, HeldInv, Inserting, Due, Thread
<1>4. CASE Find(th)
  BY <1>0, <1>4 DEF Find, AnyEvent, Thread
<1>5. CASE Create(th)
  <2>1. arg[th].event \in Event /\ arg[th].ts \in Nat
    BY <1>5 DEF Create, HeldInv, Inserting, Due
  <2>2. /\ pc' = [pc EXCEPT ![th] = "emplace_back"]
        /\ \E d \in AnyEvent : ref' = [ref EXCEPT ![th] = d]
        /\ UNCHANGED <<now, arg, step, history>>
    BY <1>5, <2>1 DEF Create, AnyEvent
  <2>3. /\ DOMAIN queue' \subseteq Nat
        /\ \A t \in DOMAIN queue' : queue'[t] \in Event
        /\ DOMAIN deque' \subseteq Event
        /\ \A d \in DOMAIN deque' : deque'[d] \in Seq(Event)
    <3>1. CASE UNCHANGED <<queue, deque>>
      BY <3>1
    <3>2. CASE /\ queue' = [u \in DOMAIN queue \cup {arg[th].ts} |->
                              IF u = arg[th].ts THEN arg[th].event ELSE queue[u]]
               /\ deque' = [d \in DOMAIN deque \cup {arg[th].event} |->
                              IF d = arg[th].event THEN << >> ELSE deque[d]]
      <4>1. << >> \in Seq(Event)
        OBVIOUS
      <4> QED BY <2>1, <3>2, <4>1
    <3> QED BY <1>5, <3>1, <3>2 DEF Create
  <2>4. /\ pc' \in [Thread -> CallerPC \cup SimulatorPC]
        /\ \A c \in Caller : pc'[c] \in CallerPC
        /\ \A s \in Simulator : pc'[s] \in SimulatorPC
    BY <2>2
  <2>5. ref' \in [Thread -> AnyEvent]
    BY <2>2
  <2> QED BY <2>2, <2>3, <2>4, <2>5
<1>6. CASE Emplace(th)
  <2>1. arg[th].event \in Event /\ arg[th].ts \in Nat
    BY <1>6 DEF Emplace, Emplacing, HeldInv, Inserting, Due
  <2>2. DOMAIN known' \subseteq Event /\ \A e \in DOMAIN known' : known'[e] \in Nat
    BY <1>6, <2>1 DEF Emplace, Noticed
  <2>3. /\ DOMAIN deque' \subseteq Event
        /\ \A d \in DOMAIN deque' : deque'[d] \in Seq(Event)
    BY <1>6, <2>1 DEF Emplace, Live
  <2> QED BY <1>0, <1>6, <2>2, <2>3 DEF Emplace, Emplacing, Thread
<1>7. CASE EmplaceBreaks(th) \/ FrontBreaks(th) \/ EndBreaks(th)
  BY <1>7 DEF EmplaceBreaks, FrontBreaks, EndBreaks, Breaks
<1>8. CASE th \in Simulator /\ (Enter(th) \/ Return(th) \/ Test(th) \/ LookInVain(th) \/ Finish(th))
  <2>1. /\ \E to \in SimulatorPC : pc' = [pc EXCEPT ![th] = to]
        /\ UNCHANGED <<shared, arg, ref, step, history>>
    BY <1>8 DEF Enter, Return, Test, LookInVain, Finish
  <2> QED BY <1>0, <1>8, <2>1
<1>9. CASE th \in Simulator /\ Tick(th)
  BY <1>0, <1>9 DEF Tick
<1>10. CASE th \in Simulator /\ Look(th)
  BY <1>0, <1>10 DEF Look, AnyEvent
<1>11. CASE th \in Simulator /\ Read(th)
  <2>1. Head(deque[TsQueue(th)]) \in Event
    BY <1>11 DEF Read, HasFront, Live
  <2> QED BY <1>0, <1>11, <2>1 DEF Read, AnyEvent
<1>12. CASE th \in Simulator /\ Pop(th)
  <2>1. Tail(deque[TsQueue(th)]) \in Seq(Event)
    BY <1>12 DEF Pop, HasFront, Live
  <2> QED BY <1>0, <1>12, <2>1 DEF Pop, HasFront, Live
<1>13. CASE th \in Simulator /\ Handle(th)
  <2>1. arg[th].event \in Event /\ Completion(arg[th].event.of) \in Event
    BY <1>13 DEF Handle, HeldInv, Due, Event, Completion
  <2>2. step[th].ts + Delay \in Nat
    BY <1>13, ThreadsAssumption
  <2>3. [event |-> Completion(arg[th].event.of), ts |-> step[th].ts + Delay]
          \in [event : AnyEvent, ts : Nat]
    BY <2>1, <2>2 DEF AnyEvent
  <2>4. arg' \in [Thread -> [event : AnyEvent, ts : Nat]]
    BY <1>13, <2>3 DEF Handle
  <2>5. \E to \in SimulatorPC : pc' = [pc EXCEPT ![th] = to]
    BY <1>13 DEF Handle
  <2>6. handled' \in [Event -> Nat] /\ last' \in Nat
    BY <1>13, <2>1 DEF Handle
  <2> QED BY <1>0, <1>13, <2>4, <2>5, <2>6 DEF Handle
<1>14. CASE th \in Simulator /\ Erase(th)
  BY <1>0, <1>14 DEF Erase
<1> QED BY <1>1, <1>2, <1>3, <1>4, <1>5, <1>6, <1>7, <1>8, <1>9, <1>10, <1>11, <1>12, <1>13, <1>14
        DEF Acts, Serve, Simulate, SimulateNextStep, Insert

-----------------------------------------------------------------------------
(* The four accesses that change the map and its deques. *)
Creates(th) == Create(th) /\ arg[th].ts \notin DOMAIN queue

Changes(th) ==
  \/ Creates(th)
  \/ Emplace(th)
  \/ th \in Simulator /\ (Pop(th) \/ Erase(th))

LEMMA OthersKeepTheMap ==
  ASSUME NEW th \in Thread, Acts(th), ~Changes(th)
  PROVE  UNCHANGED <<queue, deque>>
BY DEF Acts, Serve, Simulate, SimulateNextStep, Insert, Changes, Creates, ReadNow, Check, Drop,
       Find, FindNothing, Create, EmplaceBreaks, Enter, Return, Test, LookInVain, Look,
       Read, FrontBreaks, Handle, Finish, EndBreaks, Tick, Breaks, shared

(* The deques of the map are known by the times they are filed at. *)
LEMMA DequesAreDue ==
  ASSUME DequesInv, NEW d \in DOMAIN deque
  PROVE  Due(d, TimeOf(d))
BY DEF DequesInv

(* Due, of the state after the step, for an event of the state before. *)
TimeNext(e) == arg'[e.of].ts + (IF e.completion THEN Delay ELSE 0)

DueNext(e, t) == e \in Event /\ pc'[e.of] # "idle" /\ TimeNext(e) = t

LEMMA DueIsDueNext ==
  ASSUME TypeInv, NEW th \in Thread, Acts(th), NEW e, NEW t, Due(e, t)
  PROVE  DueNext(e, t) /\ TimeOf(e) = t /\ TimeNext(e) = t
BY DueStays DEF Due, DueNext, TimeOf, TimeNext

(* An event put at either end of a deque joins the others there. *)
Joins(r, e, q) == \A i \in 1..Len(r) : r[i] = e \/ \E j \in 1..Len(q) : r[i] = q[j]

LEMMA AddedAtAnEnd ==
  ASSUME NEW q \in Seq(Event), NEW e \in Event
  PROVE  Joins(<<e>> \o q, e, q) /\ Joins(q \o <<e>>, e, q)
<1>1. \A i \in 1..Len(<<e>> \o q) : (<<e>> \o q)[i] = IF i = 1 THEN e ELSE q[i - 1]
  OBVIOUS
<1>2. \A i \in 1..Len(q \o <<e>>) : (q \o <<e>>)[i] = IF i = Len(q) + 1 THEN e ELSE q[i]
  OBVIOUS
<1>3. Len(<<e>> \o q) = 1 + Len(q) /\ Len(q \o <<e>>) = Len(q) + 1 /\ Len(q) \in Nat
  OBVIOUS
<1> QED BY <1>1, <1>2, <1>3 DEF Joins

LEMMA EmplaceAdds ==
  ASSUME TypeInv, NEW th \in Thread, Emplace(th), arg[th].event \in Event
  PROVE  /\ ref[th] \in DOMAIN deque /\ DOMAIN deque' = DOMAIN deque /\ queue' = queue
         /\ \A d \in DOMAIN deque \ {ref[th]} : deque'[d] = deque[d]
         /\ \A i \in 1..Len(deque'[ref[th]]) :
              \/ deque'[ref[th]][i] = arg[th].event
              \/ \E j \in 1..Len(deque[ref[th]]) : deque'[ref[th]][i] = deque[ref[th]][j]
<1>1. ref[th] \in DOMAIN deque
  BY DEF Emplace, Live
<1>2. \/ deque'[ref[th]] = <<arg[th].event>> \o deque[ref[th]]
      \/ deque'[ref[th]] = deque[ref[th]] \o <<arg[th].event>>
  BY <1>1 DEF Emplace
<1>3. deque[ref[th]] \in Seq(Event)
  BY <1>1 DEF TypeInv
<1>4. arg[th].event \in Event
  OBVIOUS
<1>5. Joins(deque'[ref[th]], arg[th].event, deque[ref[th]])
  BY <1>2, <1>3, <1>4, AddedAtAnEnd
<1> QED BY <1>1, <1>5 DEF Emplace, Joins

LEMMA DequesStep ==
  ASSUME TypeInv, DequesInv, HeldInv, NEW th \in Thread, Acts(th)
  PROVE  DequesInv'
<1>1. \A e, t : Due(e, t) => DueNext(e, t) /\ TimeOf(e) = t /\ TimeNext(e) = t
  BY DueIsDueNext
<1>2. \A t \in DOMAIN queue : queue[t] \in DOMAIN deque /\ DueNext(queue[t], t)
  BY <1>1 DEF DequesInv
<1>3. \A d \in DOMAIN deque :
        /\ TimeNext(d) = TimeOf(d) /\ TimeOf(d) \in DOMAIN queue /\ queue[TimeOf(d)] = d
        /\ \A i \in 1..Len(deque[d]) : DueNext(deque[d][i], TimeOf(d))
  BY <1>1, DequesAreDue DEF DequesInv
<1>4. SUFFICES
        /\ \A t \in DOMAIN queue' : queue'[t] \in DOMAIN deque' /\ DueNext(queue'[t], t)
        /\ \A d \in DOMAIN deque' :
             /\ TimeNext(d) \in DOMAIN queue' /\ queue'[TimeNext(d)] = d
             /\ \A i \in 1..Len(deque'[d]) : DueNext(deque'[d][i], TimeNext(d))
  BY DEF DequesInv, Due, TimeOf, DueNext, TimeNext
<1>5. Inserting(th) => /\ DueNext(arg[th].event, arg[th].ts)
                       /\ TimeNext(arg[th].event) = arg[th].ts
  BY <1>1 DEF HeldInv
<1>6. CASE Creates(th)
  <2>1. /\ DueNext(arg[th].event, arg[th].ts) /\ TimeNext(arg[th].event) = arg[th].ts
        /\ arg[th].ts \notin DOMAIN queue
        /\ queue' = [u \in DOMAIN queue \cup {arg[th].ts} |->
                       IF u = arg[th].ts THEN arg[th].event ELSE queue[u]]
        /\ deque' = [d \in DOMAIN deque \cup {arg[th].event} |->
                       IF d = arg[th].event THEN << >> ELSE deque[d]]
    BY <1>5, <1>6 DEF Creates, Create, Inserting, InsertingPC, Goto
  <2>2. arg[th].event \notin DOMAIN deque
    BY <1>3, <2>1
  <2>3. \A i \in 1..Len(deque'[arg[th].event]) : FALSE
    BY <2>1
  <2> QED BY <1>2, <1>3, <2>1, <2>2, <2>3
<1>7. CASE Emplace(th)
  <2>1. /\ DueNext(arg[th].event, arg[th].ts) /\ arg[th].event \in Event
        /\ ref[th] \in DOMAIN deque /\ TimeOf(ref[th]) = arg[th].ts /\ queue' = queue
    BY <1>1, <1>5, <1>7 DEF Emplace, Emplacing, Inserting, InsertingPC, HeldInv, Due, Live
  <2>2. /\ DOMAIN deque' = DOMAIN deque
        /\ \A d \in DOMAIN deque \ {ref[th]} : deque'[d] = deque[d]
        /\ \A i \in 1..Len(deque'[ref[th]]) :
             \/ deque'[ref[th]][i] = arg[th].event
             \/ \E j \in 1..Len(deque[ref[th]]) : deque'[ref[th]][i] = deque[ref[th]][j]
    BY <1>7, <2>1, EmplaceAdds
  <2> QED BY <1>2, <1>3, <2>1, <2>2
<1>8. CASE th \in Simulator /\ Pop(th)
  <2>1. /\ DOMAIN deque' = DOMAIN deque /\ queue' = queue /\ TsQueue(th) \in DOMAIN deque
        /\ \A d \in DOMAIN deque \ {TsQueue(th)} : deque'[d] = deque[d]
        /\ deque'[TsQueue(th)] = Tail(deque[TsQueue(th)])
        /\ deque[TsQueue(th)] \in Seq(Event) /\ deque[TsQueue(th)] # << >>
    BY <1>8 DEF Pop, HasFront, Live, TypeInv
  <2>2. \A i \in 1..Len(deque'[TsQueue(th)]) :
          \E j \in 1..Len(deque[TsQueue(th)]) : deque'[TsQueue(th)][i] = deque[TsQueue(th)][j]
    BY <2>1
  <2> QED BY <1>2, <1>3, <2>1, <2>2
<1>9. CASE th \in Simulator /\ Erase(th)
  <2>1. /\ queue' = [u \in DOMAIN queue \ {step[th].ts} |-> queue[u]]
        /\ deque' = [d \in DOMAIN deque \ {TsQueue(th)} |-> deque[d]]
        /\ TsQueue(th) \in DOMAIN deque /\ TimeOf(TsQueue(th)) = step[th].ts
    BY <1>1, <1>9 DEF Erase, Live, HeldInv, Stepping, SteppingPC, Goto
  <2>2. queue[step[th].ts] = TsQueue(th) /\ step[th].ts \in DOMAIN queue
    BY <1>3, <2>1
  <2>3. \A t \in DOMAIN queue' : queue'[t] # TsQueue(th)
    BY <1>1, <2>1 DEF DequesInv
  <2>4. \A d \in DOMAIN deque' :
          d \in DOMAIN deque /\ deque'[d] = deque[d] /\ TimeNext(d) # step[th].ts
    BY <1>3, <2>1, <2>2
  <2>5. \A t \in DOMAIN queue' :
          queue'[t] = queue[t] /\ queue[t] \in DOMAIN deque' /\ DueNext(queue[t], t)
    BY <1>2, <2>1, <2>3
  <2>6. \A d \in DOMAIN deque' :
          TimeNext(d) \in DOMAIN queue' /\ queue'[TimeNext(d)] = queue[TimeNext(d)]
    BY <1>3, <2>1, <2>4
  <2>7. \A d \in DOMAIN deque' :
          queue'[TimeNext(d)] = d /\ \A i \in 1..Len(deque'[d]) : DueNext(deque'[d][i], TimeNext(d))
    BY <1>3, <2>4, <2>6
  <2> QED BY <2>5, <2>6, <2>7
<1>10. CASE UNCHANGED <<queue, deque>>
  BY <1>2, <1>3, <1>10
<1> QED BY <1>6, <1>7, <1>8, <1>9, <1>10, OthersKeepTheMap DEF Changes

(* What threads hold stays so for those that do not act, *)
HoldsNext(o) ==
  /\ pc'[o] \in InsertingPC => DueNext(arg'[o].event, arg'[o].ts)
  /\ pc'[o] \in {"emplace", "emplace_back"} => DueNext(ref'[o], arg'[o].ts)

SimulatorHoldsNext(s) ==
  /\ pc'[s] \in SteppingPC => DueNext(step'[s].ts_queue, step'[s].ts)
  /\ pc'[s] \in InsertingPC => arg'[s].event.completion /\ arg'[s].ts = step'[s].ts + Delay
  /\ pc'[s] \in {"pop", "handle"} => DueNext(arg'[s].event, step'[s].ts)

LEMMA OthersHold ==
  ASSUME TypeInv, HeldInv, NEW th \in Thread, Acts(th)
  PROVE  /\ \A c \in Caller \ {th} : pc'[c] # "idle" => arg'[c].event = Command(c)
         /\ \A o \in Thread \ {th} : HoldsNext(o)
         /\ \A s \in Simulator \ {th} : SimulatorHoldsNext(s)
<1>1. \A e, t : Due(e, t) => DueNext(e, t)
  BY DueIsDueNext
<1>2. Caller \subseteq Thread /\ Simulator \subseteq Thread
  BY DEF Thread
<1>3. OthersKept(th)
  BY ActsLeaveOthers
<1>4. \A c \in Caller \ {th} : pc'[c] # "idle" => arg'[c].event = Command(c)
  BY <1>2, <1>3 DEF OthersKept, HeldInv
<1>5. \A o \in Thread \ {th} : HoldsNext(o)
  BY <1>1, <1>3 DEF OthersKept, HeldInv, HoldsNext, Inserting, Emplacing
<1>6. \A s \in Simulator \ {th} : SimulatorHoldsNext(s)
  BY <1>1, <1>2, <1>3 DEF OthersKept, HeldInv, SimulatorHoldsNext, Inserting, Stepping, TsQueue
<1> QED BY <1>4, <1>5, <1>6

(* and for the one that does. *)
LEMMA HeldStep ==
  ASSUME TypeInv, DequesInv, HeldInv, NEW th \in Thread, Acts(th)
  PROVE  HeldInv'
<1>1. \A e, t : Due(e, t) => DueNext(e, t) /\ TimeOf(e) = t /\ TimeNext(e) = t
  BY DueIsDueNext
<1>2. SUFFICES
        /\ th \in Caller => (pc'[th] # "idle" => arg'[th].event = Command(th))
        /\ HoldsNext(th)
        /\ th \in Simulator => SimulatorHoldsNext(th)
  <2>1. /\ \A c \in Caller : pc'[c] # "idle" => arg'[c].event = Command(c)
        /\ \A o \in Thread : HoldsNext(o)
        /\ \A s \in Simulator : SimulatorHoldsNext(s)
    BY <1>2, OthersHold
  <2> QED BY <2>1 DEF HeldInv, HoldsNext, SimulatorHoldsNext, Due, DueNext, TimeOf, TimeNext,
                      Inserting, Emplacing, Stepping, TsQueue
<1>3. /\ th \in Caller => th \notin Simulator
      /\ Caller \subseteq Thread /\ Simulator \subseteq Thread
      /\ DOMAIN pc = Thread /\ DOMAIN arg = Thread /\ DOMAIN ref = Thread
      /\ DOMAIN step = Simulator
      /\ now \in Nat
      /\ \A o \in Thread : arg[o].ts \in Nat
  BY ThreadsAssumption DEF TypeInv, Thread
<1>4. /\ th \in Caller /\ pc[th] # "idle" => arg[th].event = Command(th)
      /\ Inserting(th) => DueNext(arg[th].event, arg[th].ts)
      /\ Emplacing(th) => DueNext(ref[th], arg[th].ts)
      /\ th \in Simulator =>
           /\ Stepping(th) => DueNext(TsQueue(th), step[th].ts)
           /\ Inserting(th) => arg[th].event.completion /\ arg[th].ts = step[th].ts + Delay
           /\ pc[th] \in {"pop", "handle"} => DueNext(arg[th].event, step[th].ts)
  BY <1>1 DEF HeldInv
<1>5. \A t \in DOMAIN queue : queue[t] \in DOMAIN deque /\ DueNext(queue[t], t)
  BY <1>1 DEF DequesInv
<1> USE DEF Goto, AfterInsert, HoldsNext, SimulatorHoldsNext, Inserting, InsertingPC,
            Emplacing, Stepping, SteppingPC, TsQueue
<1>6. CASE th \in Caller /\ ReadNow(th)
  <2>1. /\ pc'[th] = "check" /\ arg'[th] = [event |-> Command(th), ts |-> now]
        /\ th \notin Simulator
    BY <1>3, <1>6 DEF ReadNow
  <2>2. DueNext(Command(th), now)
    BY <1>3, <1>6, <2>1 DEF DueNext, TimeNext, Command, Event
  <2> QED BY <2>1, <2>2
<1>7. CASE Check(th) \/ FindNothing(th)
  BY <1>3, <1>4, <1>7 DEF Check, FindNothing
<1>8. CASE Drop(th)
  BY <1>3, <1>4, <1>8 DEF Drop
<1>9. CASE Find(th)
  BY <1>3, <1>4, <1>5, <1>9 DEF Find
<1>10. CASE Create(th)
  <2>1. /\ DueNext(ref'[th], arg[th].ts)
        /\ pc[th] = "create" /\ pc'[th] = "emplace_back" /\ UNCHANGED <<arg, step>>
    BY <1>3, <1>4, <1>5, <1>10 DEF Create
  <2> QED BY <1>4, <2>1
<1>11. CASE Emplace(th)
  BY <1>3, <1>4, <1>11 DEF Emplace
<1>12. CASE EmplaceBreaks(th) \/ FrontBreaks(th) \/ EndBreaks(th)
  BY <1>4, <1>12 DEF EmplaceBreaks, FrontBreaks, EndBreaks, Breaks
<1>13. CASE th \in Simulator /\ (Enter(th) \/ Return(th) \/ Test(th) \/ LookInVain(th) \/ Tick(th))
  <2>1. pc'[th] \in {"test", "idle", "look"} /\ th \notin Caller
    BY <1>3, <1>13 DEF Enter, Return, Test, LookInVain, Tick
  <2> QED BY <2>1
<1>14. CASE th \in Simulator /\ (Finish(th) \/ Erase(th))
  <2>1. /\ pc[th] \in {"finish", "erase"} /\ pc'[th] \in {"erase", "test", "tick"}
        /\ UNCHANGED step /\ th \notin Caller
    BY <1>3, <1>14 DEF Finish, Erase
  <2> QED BY <1>4, <1>14, <2>1
<1>15. CASE th \in Simulator /\ Look(th)
  <2>1. PICK t \in DOMAIN queue : step' = [step EXCEPT ![th] = [ts |-> t, ts_queue |-> queue[t]]]
    BY <1>15 DEF Look
  <2>2. pc'[th] = "read" /\ step'[th] = [ts |-> t, ts_queue |-> queue[t]] /\ th \notin Caller
    BY <1>3, <1>15, <2>1 DEF Look
  <2> QED BY <1>5, <2>2
<1>16. CASE th \in Simulator /\ Read(th)
  <2>1. /\ pc[th] = "read" /\ pc'[th] = "pop" /\ UNCHANGED step /\ th \notin Caller
        /\ arg'[th].event = Head(deque[TsQueue(th)])
        /\ TsQueue(th) \in DOMAIN deque /\ deque[TsQueue(th)] # << >>
    BY <1>3, <1>16 DEF Read, HasFront, Live
  <2>2. Head(deque[TsQueue(th)]) = deque[TsQueue(th)][1] /\ 1 \in 1..Len(deque[TsQueue(th)])
    BY <2>1 DEF TypeInv
  <2>3. TimeOf(TsQueue(th)) = step[th].ts
    BY <1>1, <1>16, <2>1 DEF HeldInv
  <2>4. DueNext(arg'[th].event, step[th].ts)
    BY <1>1, <2>1, <2>2, <2>3 DEF DequesInv
  <2> QED BY <1>4, <1>16, <2>1, <2>4
<1>17. CASE th \in Simulator /\ Pop(th)
  BY <1>3, <1>4, <1>17 DEF Pop
<1>18. CASE th \in Simulator /\ Handle(th)
  <2> DEFINE e == arg[th].event
  <2>1. /\ pc[th] = "handle" /\ UNCHANGED step /\ th \notin Caller
        /\ DueNext(e, step[th].ts) /\ DueNext(TsQueue(th), step[th].ts)
    BY <1>3, <1>4, <1>18 DEF Handle
  <2>2. CASE e.completion
    BY <1>3, <1>18, <2>1, <2>2 DEF Handle
  <2>3. CASE ~e.completion
    <3>1. /\ pc'[th] = "check"
          /\ arg'[th] = [event |-> Completion(e.of), ts |-> step[th].ts + Delay]
      BY <1>3, <1>18, <2>1, <2>3 DEF Handle
    <3>2. e.of \in Caller /\ pc'[e.of] # "idle" /\ arg'[e.of].ts + 0 = step[th].ts
      BY <2>1, <2>3 DEF DueNext, TimeNext, Event
    <3>3. arg'[e.of].ts \in Nat
      BY <1>3, <3>2, <2>1, <1>18, ActsLeaveOthers DEF OthersKept
    <3>4. DueNext(Completion(e.of), step[th].ts + Delay) /\ Completion(e.of).completion
      BY <3>2, <3>3 DEF DueNext, TimeNext, Completion, Event
    <3> QED BY <2>1, <3>1, <3>4
  <2> QED BY <2>2, <2>3
<1> QED BY <1>6, <1>7, <1>8, <1>9, <1>10, <1>11, <1>12, <1>13, <1>14, <1>15, <1>16, <1>17, <1>18
        DEF Acts, Serve, Simulate, SimulateNextStep, Insert

-----------------------------------------------------------------------------
(* Who is served while a simulator is has been noted. *)
NotedInv ==
  \A s \in Simulator : \A th \in Thread \ {s} : Served(th) /\ Served(s) => th \in overlapped


NotesOverlap ==
  overlapped' = overlapped \cup
    {th \in Thread : Served(th)' /\ \E s \in Simulator \ {th} : Served(s)'}

LEMMA NextActs ==
  ASSUME ThreadsNext
  PROVE  ~broken /\ NotesOverlap /\ \E th \in Thread : Acts(th)
BY DEF ThreadsNext, Noted, Acts, Thread, NotesOverlap, Served

LEMMA NotedStep ==
  ASSUME TypeInv, NotesOverlap
  PROVE  NotedInv' /\ overlapped \subseteq overlapped' /\ overlapped' \subseteq Thread
<1>1. Simulator \subseteq Thread
  BY DEF Thread
<1>2. overlapped \subseteq overlapped' /\ overlapped' \subseteq Thread
  BY DEF NotesOverlap, TypeInv
<1>3. \A s \in Simulator : \A th \in Thread \ {s} : Served(th)' /\ Served(s)' => th \in overlapped'
  BY <1>1 DEF NotesOverlap
<1> QED BY <1>2, <1>3 DEF NotedInv

(* A thread that acts is served, before or after. *)
LEMMA ActorServed ==
  ASSUME TypeInv, NEW th \in Thread, Acts(th)
  PROVE  Served(th) \/ Served(th)'
<1>1. DOMAIN pc = Thread
  BY DEF TypeInv
<1>2. CASE th \in Caller /\ ReadNow(th)
  BY <1>1, <1>2 DEF ReadNow, Goto, Served
<1>3. CASE th \in Simulator /\ Enter(th)
  BY <1>1, <1>3 DEF Enter, Goto, Served
<1>4. CASE Insert(th)
  BY <1>4 DEF Insert, Served, Check, Drop, Find, FindNothing, Create, Emplace, EmplaceBreaks,
              Emplacing, Goto
<1>5. CASE th \in Simulator /\ (Return(th) \/ Test(th) \/ LookInVain(th) \/ Look(th) \/ Read(th)
             \/ Pop(th) \/ FrontBreaks(th) \/ Handle(th) \/ Finish(th) \/ Erase(th)
             \/ EndBreaks(th) \/ Tick(th))
  BY <1>5 DEF Served, Goto, Return, Test, LookInVain, Look, Read, Pop, FrontBreaks, Handle,
              Finish, Erase, EndBreaks, Tick
<1> QED BY <1>2, <1>3, <1>4, <1>5 DEF Acts, Serve, Simulate, SimulateNextStep

(* A thread that acts while another simulates is noted; so is whoever is   *)
(* served while a simulator acts.                                          *)
LEMMA OverlapIsNoted ==
  ASSUME TypeInv, NotedInv, NotesOverlap, NEW th \in Thread, Acts(th)
  PROVE  /\ \A s \in Simulator \ {th} : pc[s] # "idle" => th \in overlapped'
         /\ th \in Simulator =>
              \A o \in Thread \ {th} : pc[o] \notin {"idle", "done"} => o \in overlapped'
<1>1. NotedInv' /\ overlapped \subseteq overlapped' /\ Simulator \subseteq Thread
  BY NotedStep DEF Thread
<1>2. \A o \in Thread \ {th} : pc'[o] = pc[o]
  BY ActsLeaveOthers DEF OthersKept
<1>3. pc[th] \notin {"idle", "done"} \/ pc'[th] \notin {"idle", "done"}
  BY ActorServed DEF Served
<1>4. \A s \in Simulator : pc[s] # "done"
  BY DEF TypeInv, SimulatorPC, SteppingPC, InsertingPC
<1>5. \A s \in Simulator : \A o \in Thread \ {s} :
        pc'[o] \notin {"idle", "done"} /\ pc'[s] \notin {"idle", "done"} => o \in overlapped'
  BY <1>1 DEF NotedInv, Served
<1>6. \A s \in Simulator : \A o \in Thread \ {s} :
        pc[o] \notin {"idle", "done"} /\ pc[s] \notin {"idle", "done"} => o \in overlapped'
  BY <1>1 DEF NotedInv, Served
<1>7. \A s \in Simulator \ {th} : pc[s] # "idle" => th \in overlapped'
  BY <1>1, <1>2, <1>3, <1>4, <1>5, <1>6
<1>8. ASSUME th \in Simulator, NEW o \in Thread \ {th}, pc[o] \notin {"idle", "done"}
      PROVE  o \in overlapped'
  BY <1>2, <1>3, <1>5, <1>6, <1>8
<1> QED BY <1>7, <1>8

(* An event of a command that was not overlapped is filed at this time. *)
OnTimeAt(t) == \E i \in 1..Len(deque[queue[t]]) : deque[queue[t]][i].of \notin overlapped

TakingPC == {"read", "pop", "handle"}
Taking(s) == pc[s] \in TakingPC

(* While one SimulateAll runs at a time, what it has taken or may still    *)
(* take, of commands that were not overlapped, is not due before the step  *)
(* handled last, and not before the step under way.                        *)
TimeInv ==
  /\ \A t \in DOMAIN queue : OnTimeAt(t) => t >= last
  /\ \A s \in Simulator :
       /\ Stepping(s) \/ pc[s] = "tick" => now = step[s].ts
       /\ pc[s] \in {"finish", "erase", "tick"} \/ Inserting(s) => last = step[s].ts
       /\ pc[s] \in {"pop", "handle"} /\ arg[s].event.of \notin overlapped => step[s].ts >= last
       /\ Taking(s) => \A t \in DOMAIN queue : OnTimeAt(t) => t >= step[s].ts
  /\ (\A s \in Simulator : ~Taking(s)) => now >= last
  /\ \A c \in Caller : Inserting(c) /\ c \notin overlapped => arg[c].ts = now

LEMMA OnTimeBefore ==
  ASSUME TypeInv, DequesInv, HeldInv, NotesOverlap, NEW th \in Thread, Acts(th),
         NEW t \in DOMAIN queue', OnTimeAt(t)'
  PROVE  \/ t \in DOMAIN queue /\ OnTimeAt(t)
         \/ Emplace(th) /\ arg[th].ts = t /\ arg[th].event.of \notin overlapped'
<1>1. /\ overlapped \subseteq overlapped'
      /\ \A u \in DOMAIN queue : queue[u] \in DOMAIN deque
      /\ queue'[t] \in DOMAIN deque'
  BY NotedStep, DequesStep DEF DequesInv
<1>2. PICK i \in 1..Len(deque'[queue'[t]]) : deque'[queue'[t]][i].of \notin overlapped'
  BY DEF OnTimeAt
<1>3. CASE Creates(th)
  <2>1. /\ queue' = [u \in DOMAIN queue \cup {arg[th].ts} |->
                       IF u = arg[th].ts THEN arg[th].event ELSE queue[u]]
        /\ deque' = [d \in DOMAIN deque \cup {arg[th].event} |->
                       IF d = arg[th].event THEN << >> ELSE deque[d]]
    BY <1>3 DEF Creates, Create
  <2>2. Len(<< >>) = 0
    OBVIOUS
  <2>3. queue'[t] # arg[th].event
    BY <1>1, <1>2, <2>1, <2>2
  <2>4. t \in DOMAIN queue /\ queue'[t] = queue[t] /\ deque'[queue'[t]] = deque[queue[t]]
    BY <1>1, <2>1, <2>3
  <2> QED BY <1>1, <1>2, <2>4 DEF OnTimeAt
<1>4. CASE Emplace(th)
  <2>1. /\ ref[th] \in DOMAIN deque /\ Due(ref[th], arg[th].ts) /\ queue' = queue
        /\ arg[th].event \in Event
    BY <1>4 DEF Emplace, Emplacing, Inserting, InsertingPC, HeldInv, Due, Live
  <2>2. CASE queue[t] # ref[th]
    <3>1. deque'[queue'[t]] = deque[queue[t]]
      BY <1>1, <1>4, <2>1, <2>2 DEF Emplace
    <3> QED BY <1>1, <1>2, <2>1, <3>1 DEF OnTimeAt
  <2>3. CASE queue[t] = ref[th]
    <3>1. arg[th].ts = t
      BY <2>1, <2>3 DEF DequesInv, Due
    <3>2. \/ deque'[ref[th]][i] = arg[th].event
          \/ \E j \in 1..Len(deque[ref[th]]) : deque'[ref[th]][i] = deque[ref[th]][j]
      BY <1>2, <1>4, <2>1, <2>3, EmplaceAdds
    <3> QED BY <1>1, <1>2, <1>4, <2>1, <2>3, <3>1, <3>2 DEF OnTimeAt
  <2> QED BY <2>2, <2>3
<1>5. CASE th \in Simulator /\ Pop(th)
  <2>1. /\ TsQueue(th) \in DOMAIN deque /\ queue' = queue
        /\ deque' = [deque EXCEPT ![TsQueue(th)] = Tail(deque[TsQueue(th)])]
        /\ deque[TsQueue(th)] \in Seq(Event) /\ deque[TsQueue(th)] # << >>
    BY <1>5 DEF Pop, HasFront, Live, TypeInv
  <2>2. \E j \in 1..Len(deque[queue[t]]) : deque'[queue'[t]][i] = deque[queue[t]][j]
    <3>1. CASE queue[t] = TsQueue(th)
      BY <1>2, <2>1, <3>1
    <3>2. CASE queue[t] # TsQueue(th)
      BY <1>1, <1>2, <2>1, <3>2
    <3> QED BY <3>1, <3>2
  <2> QED BY <1>1, <1>2, <2>1, <2>2 DEF OnTimeAt
<1>6. CASE th \in Simulator /\ Erase(th)
  <2>1. t \in DOMAIN queue /\ queue'[t] = queue[t] /\ deque'[queue'[t]] = deque[queue[t]]
    BY <1>1, <1>6 DEF Erase
  <2> QED BY <1>1, <1>2, <2>1 DEF OnTimeAt
<1>7. CASE UNCHANGED <<queue, deque>>
  BY <1>1, <1>2, <1>7 DEF OnTimeAt
<1> QED BY <1>3, <1>4, <1>5, <1>6, <1>7, OthersKeepTheMap DEF Changes

(* What one thread's step does to the clock and to the time handled last. *)
LEMMA TimesMove ==
  ASSUME TypeInv, NEW th \in Thread, Acts(th)
  PROVE  /\ now' = now \/ (th \in Simulator /\ (Look(th) \/ Tick(th)))
         /\ last' = last \/ (th \in Simulator /\ Handle(th))
         /\ pc[th] = "idle" /\ th \in Caller => ReadNow(th)
<1>1. th \in Caller => th \notin Simulator
  BY ThreadsAssumption
<1>2. now' = now \/ (th \in Simulator /\ (Look(th) \/ Tick(th)))
  BY DEF Acts, Serve, Simulate, SimulateNextStep, Insert, ReadNow, Check, Drop, Find, FindNothing,
         Create, Emplace, EmplaceBreaks, Enter, Return, Test, LookInVain, Read, Pop, FrontBreaks,
         Handle, Finish, Erase, EndBreaks, Breaks, shared
<1>3. last' = last \/ (th \in Simulator /\ Handle(th))
  BY DEF Acts, Serve, Simulate, SimulateNextStep, Insert, ReadNow, Check, Drop, Find, FindNothing,
         Create, Emplace, EmplaceBreaks, Enter, Return, Test, LookInVain, Look, Read, Pop,
         FrontBreaks, Finish, Erase, EndBreaks, Tick, Breaks, history
<1>4. pc[th] = "idle" /\ th \in Caller => ReadNow(th)
  BY <1>1 DEF Acts, Serve, Insert, Check, Drop, Find, FindNothing, Create, Emplace, Emplacing,
              EmplaceBreaks, Goto
<1> QED BY <1>2, <1>3, <1>4

SimulatorTimeNext(s) ==
  /\ pc'[s] \in SteppingPC \cup {"tick"} => now' = step'[s].ts
  /\ pc'[s] \in {"finish", "erase", "tick"} \cup InsertingPC => last' = step'[s].ts
  /\ pc'[s] \in {"pop", "handle"} /\ arg'[s].event.of \notin overlapped' => step'[s].ts >= last'

(* The clock and the steps of the simulator that acts. *)
LEMMA ActorTime ==
  ASSUME TypeInv, DequesInv, HeldInv, TimeInv, NotesOverlap, NEW th \in Simulator, Simulate(th)
  PROVE  SimulatorTimeNext(th)
<1>1. /\ DOMAIN pc = Thread /\ DOMAIN arg = Thread /\ DOMAIN step = Simulator
      /\ th \in Thread /\ th \notin Caller /\ now \in Nat /\ step[th].ts \in Nat
      /\ overlapped \subseteq overlapped'
  BY ThreadsAssumption, NotedStep DEF TypeInv, Thread
<1>2. /\ pc[th] \in SteppingPC \cup {"tick"} => now = step[th].ts
      /\ pc[th] \in {"finish", "erase", "tick"} \cup InsertingPC => last = step[th].ts
      /\ pc[th] \in {"pop", "handle"} /\ arg[th].event.of \notin overlapped => step[th].ts >= last
  BY DEF TimeInv, Stepping, Inserting
<1> USE DEF SimulatorTimeNext, Goto, AfterInsert, InsertingPC, SteppingPC, shared, history
<1>3. CASE Check(th) \/ Drop(th) \/ Find(th) \/ FindNothing(th)
  <2>1. /\ pc[th] \in {"check", "find"} /\ pc'[th] \in {"find", "finish", "emplace", "create"}
        /\ UNCHANGED <<now, last, step>>
    BY <1>1, <1>3 DEF Check, Drop, Find, FindNothing
  <2> QED BY <1>2, <2>1
<1>4. CASE Create(th) \/ Emplace(th)
  <2>1. /\ pc[th] \in {"create", "emplace", "emplace_back"}
        /\ pc'[th] \in {"emplace_back", "finish"}
        /\ UNCHANGED <<now, last, step>>
    BY <1>1, <1>4 DEF Create, Emplace, Emplacing
  <2> QED BY <1>2, <2>1
<1>5. CASE EmplaceBreaks(th) \/ FrontBreaks(th) \/ EndBreaks(th)
  <2>1. UNCHANGED <<now, last, step, pc, arg>>
    BY <1>5 DEF EmplaceBreaks, FrontBreaks, EndBreaks, Breaks
  <2> QED BY <1>1, <1>2, <2>1
<1>6. CASE Enter(th) \/ Return(th) \/ Test(th) \/ LookInVain(th) \/ Tick(th)
  <2>1. pc'[th] \in {"test", "idle", "look"}
    BY <1>1, <1>6 DEF Enter, Return, Test, LookInVain, Tick
  <2> QED BY <2>1
<1>7. CASE Finish(th) \/ Erase(th)
  <2>1. /\ pc[th] \in {"finish", "erase"} /\ pc'[th] \in {"erase", "test", "tick"}
        /\ UNCHANGED <<now, last, step>>
    BY <1>1, <1>7 DEF Finish, Erase
  <2> QED BY <1>2, <2>1
<1>8. CASE Look(th)
  <2>1. PICK t \in DOMAIN queue :
           /\ now' = t
           /\ step' = [step EXCEPT ![th] = [ts |-> t, ts_queue |-> queue[t]]]
    BY <1>8 DEF Look
  <2>2. pc'[th] = "read" /\ step'[th].ts = t
    BY <1>1, <1>8, <2>1 DEF Look
  <2> QED BY <2>1, <2>2
<1>9. CASE Read(th)
  <2>1. /\ pc[th] = "read" /\ pc'[th] = "pop" /\ UNCHANGED <<now, last, step>>
        /\ arg'[th].event = Head(deque[TsQueue(th)])
        /\ TsQueue(th) \in DOMAIN deque /\ deque[TsQueue(th)] # << >>
    BY <1>1, <1>9 DEF Read, HasFront, Live
  <2>2. Head(deque[TsQueue(th)]) = deque[TsQueue(th)][1] /\ 1 \in 1..Len(deque[TsQueue(th)])
    BY <2>1 DEF TypeInv
  <2>3. step[th].ts \in DOMAIN queue /\ queue[step[th].ts] = TsQueue(th)
    BY <2>1 DEF HeldInv, Stepping, DequesInv, Due
  <2>4. arg'[th].event.of \notin overlapped' => OnTimeAt(step[th].ts)
    BY <1>1, <2>1, <2>2, <2>3 DEF OnTimeAt
  <2>5. arg'[th].event.of \notin overlapped' => step[th].ts >= last
    BY <2>3, <2>4 DEF TimeInv
  <2> QED BY <1>2, <2>1, <2>5
<1>10. CASE Pop(th)
  <2>1. /\ pc[th] = "pop" /\ pc'[th] = "handle" /\ UNCHANGED <<now, last, step, arg>>
    BY <1>1, <1>10 DEF Pop
  <2> QED BY <1>1, <1>2, <2>1
<1>11. CASE Handle(th)
  <2>1. /\ pc[th] = "handle" /\ pc'[th] \in {"check", "finish"} /\ UNCHANGED <<now, step>>
        /\ last' = step[th].ts
    BY <1>1, <1>11 DEF Handle
  <2> QED BY <1>2, <2>1
<1> QED BY <1>3, <1>4, <1>5, <1>6, <1>7, <1>8, <1>9, <1>10, <1>11
        DEF Simulate, SimulateNextStep, Insert

(* A caller that files an event on time files it for now, and nobody takes *)
(* one meanwhile; a simulator files it for no time before its step.        *)
LEMMA FiledInTime ==
  ASSUME TypeInv, HeldInv, NotedInv, TimeInv, NotesOverlap, NEW th \in Thread, Acts(th),
         Emplace(th), arg[th].event.of \notin overlapped', ~TwoSimulate'
  PROVE  /\ arg[th].ts >= last
         /\ \A s \in Simulator : Taking(s) => s = th
         /\ th \in Caller => \A s \in Simulator : ~Taking(s)
<1>1. /\ Inserting(th) /\ now \in Nat /\ last \in Nat
      /\ th \in Caller => th \notin Simulator
      /\ \A s \in Simulator \ {th} : pc[s] # "idle" => th \in overlapped'
      /\ overlapped \subseteq overlapped'
  BY ThreadsAssumption, OverlapIsNoted, NotedStep
     DEF Emplace, Emplacing, Inserting, InsertingPC, TypeInv
<1>2. CASE th \in Caller
  <2>1. arg[th].event.of = th
    <3>1. pc[th] # "idle"
      BY <1>1 DEF Inserting, InsertingPC
    <3>2. arg[th].event = Command(th)
      BY <1>2, <3>1 DEF HeldInv
    <3> QED BY <3>2 DEF Command
  <2>2. \A s \in Simulator : ~Taking(s)
    BY <1>1, <1>2, <2>1 DEF Taking, TakingPC
  <2>3. arg[th].ts = now /\ now >= last
    BY <1>1, <1>2, <2>1, <2>2 DEF TimeInv
  <2> QED BY <1>1, <2>2, <2>3
<1>3. CASE th \in Simulator
  <2>1. arg[th].ts = step[th].ts + Delay /\ last = step[th].ts
    BY <1>1, <1>3 DEF HeldInv, TimeInv
  <2>2. arg[th].ts >= last
    BY <1>1, <2>1, ThreadsAssumption
  <2>3. \A s \in Simulator \ {th} : ~Taking(s)
    BY <1>1, <1>3 DEF TwoSimulate, Taking, TakingPC
  <2> QED BY <1>1, <1>3, <2>2, <2>3
<1> QED BY <1>2, <1>3 DEF Thread

(* A simulator takes from its Look on until it handles an event. *)
LEMMA TakesOn ==
  ASSUME TypeInv, NEW th \in Simulator, Acts(th)
  PROVE  /\ pc'[th] \in TakingPC /\ ~Look(th) => pc[th] \in TakingPC /\ step' = step
         /\ pc[th] \in TakingPC /\ ~Handle(th) => pc'[th] \in TakingPC
<1>1. DOMAIN pc = Thread /\ th \in Thread /\ th \notin Caller
  BY ThreadsAssumption DEF TypeInv, Thread
<1> USE DEF Goto, TakingPC, AfterInsert
<1>2. CASE Insert(th)
  <2>1. CASE EmplaceBreaks(th)
    BY <2>1 DEF EmplaceBreaks, Emplacing, Breaks
  <2>2. CASE ~EmplaceBreaks(th)
    <3>1. /\ pc[th] \in InsertingPC
          /\ \E to \in InsertingPC \cup {"finish"} : pc' = [pc EXCEPT ![th] = to]
      BY <1>1, <1>2, <2>2 DEF Insert, Check, Drop, Find, FindNothing, Create, Emplace,
         Emplacing, InsertingPC
    <3> QED BY <1>1, <3>1 DEF InsertingPC
  <2> QED BY <2>1, <2>2
<1>3. CASE Enter(th) \/ Return(th) \/ Test(th) \/ LookInVain(th) \/ Tick(th) \/ Finish(th)
           \/ Erase(th)
  <2>1. /\ pc[th] \notin TakingPC
        /\ \E to \in {"test", "idle", "look", "erase", "tick"} : pc' = [pc EXCEPT ![th] = to]
    BY <1>3 DEF Enter, Begins, Return, Test, LookInVain, Tick, Finish, Erase
  <2> QED BY <1>1, <2>1
<1>4. CASE FrontBreaks(th) \/ EndBreaks(th)
  BY <1>4 DEF FrontBreaks, EndBreaks, Breaks
<1>5. CASE Look(th)
  BY <1>5 DEF Look
<1>6. CASE Read(th) \/ Pop(th)
  BY <1>1, <1>6 DEF Read, Pop
<1>7. CASE Handle(th)
  BY <1>1, <1>7 DEF Handle
<1> QED BY <1>1, <1>2, <1>3, <1>4, <1>5, <1>6, <1>7 DEF Acts, Simulate, SimulateNextStep

LEMMA TimeStep ==
  ASSUME TypeInv, DequesInv, HeldInv, NotedInv, TimeInv, NotesOverlap,
         NEW th \in Thread, Acts(th), ~TwoSimulate'
  PROVE  TimeInv'
<1>1. /\ DOMAIN pc = Thread /\ DOMAIN arg = Thread /\ DOMAIN step = Simulator
      /\ Simulator \subseteq Thread /\ Caller \subseteq Thread /\ now \in Nat /\ last \in Nat
      /\ th \in Caller => th \notin Simulator
      /\ overlapped \subseteq overlapped' /\ overlapped' \cap Simulator = {}
      /\ \A s \in Simulator : step[s].ts \in Nat
  BY ThreadsAssumption, NotedStep DEF TypeInv, Thread, TwoSimulate
<1>2. /\ \A o \in Thread \ {th} : pc'[o] = pc[o] /\ arg'[o] = arg[o]
      /\ \A s \in Simulator \ {th} : step'[s] = step[s]
  BY ActsLeaveOthers DEF OthersKept
<1>3. /\ th \in Caller => \A s \in Simulator : pc[s] # "idle" => th \in overlapped'
      /\ th \in Simulator => \A s \in Simulator \ {th} : pc[s] = "idle"
      /\ th \in Simulator => \A c \in Caller : Inserting(c) => c \in overlapped'
  <2>1. \A s \in Simulator \ {th} : pc[s] # "done"
    BY DEF TypeInv, SimulatorPC, SteppingPC, InsertingPC
  <2> QED BY <1>1, <2>1, OverlapIsNoted DEF Inserting, InsertingPC
<1>4. /\ now' = now \/ (th \in Simulator /\ (Look(th) \/ Tick(th)))
      /\ last' = last \/ (th \in Simulator /\ Handle(th))
      /\ pc[th] = "idle" /\ th \in Caller => ReadNow(th)
  BY TimesMove
<1>5. ASSUME NEW t \in DOMAIN queue', OnTimeAt(t)'
      PROVE  t >= last'
  <2>1. CASE th \in Simulator /\ Handle(th)
    <3>1. last' = step[th].ts /\ pc[th] = "handle"
      BY <2>1 DEF Handle
    <3>2. t \in DOMAIN queue /\ OnTimeAt(t)
      BY <1>5, <3>1, OnTimeBefore DEF Emplace, Emplacing
    <3> QED BY <2>1, <3>1, <3>2 DEF TimeInv, Taking, TakingPC
  <2>2. CASE last' = last
    BY <1>5, <2>2, OnTimeBefore, FiledInTime DEF TimeInv
  <2> QED BY <1>4, <2>1, <2>2
<1>6. ASSUME NEW s \in Simulator, pc'[s] \in TakingPC, NEW t \in DOMAIN queue', OnTimeAt(t)'
      PROVE  t >= step'[s].ts
  <2>1. CASE s # th
    <3>1. pc[s] \in TakingPC /\ step'[s] = step[s]
      BY <1>1, <1>2, <1>6, <2>1
    <3>2. Taking(s)
      BY <3>1 DEF Taking
    <3>3. t \in DOMAIN queue /\ OnTimeAt(t)
      BY <1>6, <2>1, <3>2, OnTimeBefore, FiledInTime
    <3> QED BY <3>1, <3>2, <3>3 DEF TimeInv
  <2>2. CASE s = th
    <3>1. CASE Look(th)
      <4>1. PICK u \in DOMAIN queue :
              /\ \A v \in DOMAIN queue : u <= v
              /\ step' = [step EXCEPT ![th] = [ts |-> u, ts_queue |-> queue[u]]]
        BY <3>1 DEF Look
      <4>2. step'[s].ts = u /\ queue' = queue
        BY <1>1, <2>2, <3>1, <4>1 DEF Look
      <4>3. DOMAIN queue \subseteq Nat
        BY DEF TypeInv
      <4> QED BY <4>1, <4>2, <4>3
    <3>2. CASE ~Look(th)
      <4>1. pc[th] \in TakingPC /\ step' = step
        BY <1>1, <1>6, <2>2, <3>2, TakesOn
      <4>2. ~Emplace(th)
        BY <4>1 DEF Emplace, Emplacing, TakingPC
      <4> QED BY <1>6, <2>2, <4>1, <4>2, OnTimeBefore DEF TimeInv, Taking
    <3> QED BY <3>1, <3>2
  <2> QED BY <2>1, <2>2
<1>7. ASSUME NEW s \in Simulator
      PROVE  SimulatorTimeNext(s)
  <2>1. CASE s = th
    BY <1>1, <2>1, ActorTime DEF Acts
  <2>2. CASE s # th /\ th \in Simulator
    BY <1>1, <1>2, <1>3, <2>2 DEF SimulatorTimeNext, SteppingPC, InsertingPC
  <2>3. CASE s # th /\ th \in Caller
    <3>1. now' = now /\ last' = last /\ pc'[s] = pc[s] /\ arg'[s] = arg[s] /\ step'[s] = step[s]
      BY <1>1, <1>2, <1>4, <2>3
    <3> QED BY <1>1, <3>1 DEF TimeInv, SimulatorTimeNext, Stepping, Inserting
  <2> QED BY <2>1, <2>2, <2>3 DEF Thread
<1>8. ASSUME \A s \in Simulator : pc'[s] \notin TakingPC
      PROVE  now' >= last'
  <2>1. CASE th \in Simulator /\ Handle(th)
    <3>1. last' = step[th].ts /\ now' = now /\ now = step[th].ts
      BY <2>1 DEF Handle, shared, TimeInv, Stepping, SteppingPC
    <3> QED BY <1>1, <3>1
  <2>2. CASE last' = last /\ ~(th \in Simulator /\ Handle(th))
    <3>1. \A s \in Simulator : ~Taking(s)
      BY <1>1, <1>2, <1>8, <2>2, TakesOn DEF Taking
    <3>2. now >= last
      BY <3>1 DEF TimeInv
    <3>3. now' = now \/ now' = now + 1
      BY <1>1, <1>4, <1>8 DEF Look, Tick, Goto, TakingPC
    <3> QED BY <1>1, <2>2, <3>2, <3>3
  <2> QED BY <1>4, <2>1, <2>2
<1>9. ASSUME NEW c \in Caller, pc'[c] \in InsertingPC, c \notin overlapped'
      PROVE  arg'[c].ts = now'
  <2>1. CASE c # th
    <3>1. pc[c] \in InsertingPC /\ arg'[c] = arg[c] /\ c \notin overlapped
      BY <1>1, <1>2, <1>9, <2>1
    <3>2. now' = now
      BY <1>3, <1>4, <1>9, <3>1 DEF Inserting
    <3> QED BY <3>1, <3>2 DEF TimeInv, Inserting
  <2>2. CASE c = th /\ pc[c] = "idle"
    BY <1>1, <1>4, <2>2 DEF ReadNow, shared
  <2>3. CASE c = th /\ pc[c] # "idle"
    <3>1. pc[c] \in InsertingPC
      BY <1>1, <2>3 DEF Acts, Serve, ReadNow, Begins, Insert, Check, Drop, Find, FindNothing,
         Create,
                        Emplace, Emplacing, EmplaceBreaks, Goto, InsertingPC
    <3>2. arg'[c] = arg[c]
      BY <2>3, ActsLeaveOthers DEF OthersKept
    <3>3. now' = now
      BY <1>1, <1>4, <2>3
    <3> QED BY <1>1, <1>9, <3>1, <3>2, <3>3 DEF TimeInv, Inserting
  <2> QED BY <2>1, <2>2, <2>3
<1> QED BY <1>5, <1>6, <1>7, <1>8, <1>9
        DEF TimeInv, SimulatorTimeNext, Stepping, Inserting, Taking

-----------------------------------------------------------------------------
(* A deque is empty only for a thread that fills or erases it. *)
Minds(th, d) ==
  \/ pc[th] = "emplace_back" /\ ref[th] = d
  \/ /\ th \in Simulator /\ TsQueue(th) = d
     /\ pc[th] \in {"handle", "finish", "erase"} \/ Inserting(th)

(* While nothing overlaps, what a thread has found is there. *)
IntactInv ==
  /\ ~broken
  /\ \A th \in Thread : Emplacing(th) => Live(ref[th])
  /\ \A s \in Simulator :
       /\ Stepping(s) => Live(TsQueue(s))
       /\ pc[s] \in {"read", "pop"} => deque[TsQueue(s)] # << >>
       /\ pc[s] = "erase" => deque[TsQueue(s)] = << >>
  /\ \A d \in DOMAIN deque : deque[d] = << >> => \E th \in Thread : Minds(th, d)


MindsNext(th, d) ==
  \/ pc'[th] = "emplace_back" /\ ref'[th] = d
  \/ /\ th \in Simulator /\ step'[th].ts_queue = d
     /\ pc'[th] \in {"handle", "finish", "erase"} \cup InsertingPC

IntactNext(th) ==
  /\ pc'[th] \in {"emplace", "emplace_back"} => ref'[th] \in DOMAIN deque'
  /\ th \in Simulator =>
       /\ pc'[th] \in SteppingPC => step'[th].ts_queue \in DOMAIN deque'
       /\ pc'[th] \in {"read", "pop"} => deque'[step'[th].ts_queue] # << >>
       /\ pc'[th] = "erase" => deque'[step'[th].ts_queue] = << >>
  /\ \A d \in DOMAIN deque' : deque'[d] = << >> =>
       MindsNext(th, d) \/ (d \in DOMAIN deque /\ deque[d] = << >> /\ ~Minds(th, d))

(* What the thread that acts uses is there, and it minds what it empties. *)
LEMMA ActorIntact ==
  ASSUME TypeInv, DequesInv, HeldInv, IntactInv, NEW th \in Thread, Acts(th),
         th \in Simulator => \A o \in Thread \ {th} : pc[o] \in {"idle", "done"}
  PROVE  broken' = broken /\ IntactNext(th)
<1>1. /\ DOMAIN pc = Thread /\ DOMAIN ref = Thread /\ DOMAIN step = Simulator
      /\ th \in Caller => th \notin Simulator
      /\ Simulator \subseteq Thread /\ Caller \subseteq Thread
      /\ \A t \in DOMAIN queue : queue[t] \in DOMAIN deque
  BY ThreadsAssumption DEF TypeInv, Thread, DequesInv
<1>2. /\ pc[th] \in {"emplace", "emplace_back"} => ref[th] \in DOMAIN deque
      /\ th \in Simulator =>
           /\ pc[th] \in SteppingPC => step[th].ts_queue \in DOMAIN deque
           /\ pc[th] \in {"read", "pop"} => deque[step[th].ts_queue] # << >>
           /\ pc[th] = "erase" => deque[step[th].ts_queue] = << >>
  BY DEF IntactInv, Emplacing, Stepping, Live, TsQueue
<1> USE DEF IntactNext, Minds, MindsNext, Goto, AfterInsert, Inserting, InsertingPC, SteppingPC,
            TsQueue, shared, Live
<1>3. CASE th \in Caller /\ ReadNow(th)
  BY <1>1, <1>3 DEF ReadNow
<1>4. CASE Check(th) \/ Drop(th) \/ FindNothing(th)
  <2>1. /\ pc[th] \in {"check", "find"} /\ UNCHANGED <<queue, deque, ref, step, broken>>
        /\ pc'[th] \in {"find", "create"} \/ pc'[th] = IF th \in Caller THEN "done" ELSE "finish"
    BY <1>1, <1>4 DEF Check, Drop, FindNothing
  <2> QED BY <1>1, <1>2, <2>1
<1>5. CASE Find(th)
  BY <1>1, <1>2, <1>5 DEF Find
<1>6. CASE Create(th)
  <2>1. /\ pc[th] = "create" /\ pc'[th] = "emplace_back" /\ UNCHANGED <<step, broken>>
    BY <1>1, <1>6 DEF Create
  <2>2. CASE arg[th].ts \in DOMAIN queue
    <3>1. ref'[th] = queue[arg[th].ts] /\ UNCHANGED <<queue, deque>>
      BY <1>1, <1>6, <2>2 DEF Create
    <3> QED BY <1>1, <1>2, <2>1, <2>2, <3>1
  <2>3. CASE arg[th].ts \notin DOMAIN queue
    <3>1. /\ ref'[th] = arg[th].event
          /\ deque' = [d \in DOMAIN deque \cup {arg[th].event} |->
                         IF d = arg[th].event THEN << >> ELSE deque[d]]
      BY <1>1, <1>6, <2>3 DEF Create
    <3>2. arg[th].event \notin DOMAIN deque
      BY <2>1, <2>3 DEF DequesInv, HeldInv, Due
    <3> QED BY <1>1, <1>2, <2>1, <3>1, <3>2
  <2> QED BY <2>2, <2>3
<1>7. CASE Emplace(th)
  <2>1. /\ pc[th] \in {"emplace", "emplace_back"} /\ UNCHANGED <<step, broken, ref>>
        /\ pc'[th] = IF th \in Caller THEN "done" ELSE "finish"
    BY <1>1, <1>7 DEF Emplace, Emplacing
  <2>2. /\ ref[th] \in DOMAIN deque /\ DOMAIN deque' = DOMAIN deque
        /\ \A d \in DOMAIN deque \ {ref[th]} : deque'[d] = deque[d]
        /\ \/ deque'[ref[th]] = <<arg[th].event>> \o deque[ref[th]]
           \/ deque'[ref[th]] = deque[ref[th]] \o <<arg[th].event>>
    BY <1>7 DEF Emplace
  <2>3. deque[ref[th]] \in Seq(Event)
    BY <2>2 DEF TypeInv
  <2>4. deque'[ref[th]] # << >>
    BY <2>2, <2>3
  <2> QED BY <1>1, <1>2, <2>1, <2>2, <2>4
<1>8. CASE EmplaceBreaks(th)
  BY <1>2, <1>8 DEF EmplaceBreaks, Emplacing
<1>9. CASE th \in Simulator /\ (Enter(th) \/ Return(th) \/ Test(th) \/ LookInVain(th) \/ Tick(th))
  <2>1. /\ pc'[th] \in {"test", "idle", "look"} /\ pc[th] \in {"idle", "test", "look", "tick"}
        /\ UNCHANGED <<deque, broken>>
    BY <1>1, <1>9 DEF Enter, Begins, Return, Test, LookInVain, Tick
  <2> QED BY <2>1
<1>10. CASE th \in Simulator /\ Look(th)
  <2>1. PICK t \in DOMAIN queue : step' = [step EXCEPT ![th] = [ts |-> t, ts_queue |-> queue[t]]]
    BY <1>10 DEF Look
  <2>2. /\ pc[th] = "look" /\ pc'[th] = "read" /\ step'[th].ts_queue = queue[t]
        /\ UNCHANGED <<deque, broken>>
    BY <1>1, <1>10, <2>1 DEF Look
  <2>3. \A o \in Thread : \A d : ~Minds(o, d)
    BY <1>1, <1>10, <2>2
  <2>4. deque[queue[t]] # << >>
    BY <1>1, <2>3 DEF IntactInv
  <2> QED BY <1>1, <1>10, <2>2, <2>3, <2>4
<1>11. CASE th \in Simulator /\ Read(th)
  <2>1. pc[th] = "read" /\ pc'[th] = "pop" /\ UNCHANGED <<deque, broken, step>>
    BY <1>1, <1>11 DEF Read
  <2> QED BY <1>1, <1>2, <1>11, <2>1
<1>12. CASE th \in Simulator /\ Pop(th)
  <2>1. /\ pc[th] = "pop" /\ pc'[th] = "handle" /\ UNCHANGED <<broken, step>>
        /\ deque' = [deque EXCEPT ![TsQueue(th)] = Tail(deque[TsQueue(th)])]
    BY <1>1, <1>12 DEF Pop
  <2> QED BY <1>1, <1>2, <1>12, <2>1
<1>13. CASE th \in Simulator /\ (FrontBreaks(th) \/ EndBreaks(th))
  BY <1>2, <1>13 DEF FrontBreaks, EndBreaks, HasFront
<1>14. CASE th \in Simulator /\ Handle(th)
  <2>1. /\ pc[th] = "handle" /\ pc'[th] \in {"check", "finish"}
        /\ UNCHANGED <<deque, broken, step, ref>>
    BY <1>1, <1>14 DEF Handle
  <2> QED BY <1>1, <1>2, <1>14, <2>1
<1>15. CASE th \in Simulator /\ Finish(th)
  <2>1. /\ pc[th] = "finish" /\ UNCHANGED <<deque, broken, step>>
        /\ pc'[th] = IF deque[TsQueue(th)] = << >> THEN "erase" ELSE "test"
    BY <1>1, <1>15 DEF Finish
  <2> QED BY <1>1, <1>2, <1>15, <2>1
<1>16. CASE th \in Simulator /\ Erase(th)
  <2>1. /\ pc[th] = "erase" /\ pc'[th] = "tick" /\ UNCHANGED <<broken, step>>
        /\ deque' = [d \in DOMAIN deque \ {TsQueue(th)} |-> deque[d]]
    BY <1>1, <1>16 DEF Erase
  <2> QED BY <1>1, <1>16, <2>1
<1> QED BY <1>3, <1>4, <1>5, <1>6, <1>7, <1>8, <1>9, <1>10, <1>11, <1>12, <1>13, <1>14, <1>15, <1>16
        DEF Acts, Serve, Simulate, SimulateNextStep, Insert

LEMMA IntactStep ==
  ASSUME TypeInv, DequesInv, HeldInv, NotedInv, IntactInv, NotesOverlap,
         NEW th \in Thread, Acts(th), overlapped' = {}
  PROVE  IntactInv'
<1>1. /\ \A s \in Simulator \ {th} : pc[s] = "idle" /\ pc'[s] = "idle"
      /\ th \in Simulator =>
           \A o \in Thread \ {th} : pc[o] \in {"idle", "done"} /\ pc'[o] = pc[o]
      /\ \A o \in Thread \ {th} : pc'[o] = pc[o] /\ ref'[o] = ref[o]
      /\ Simulator \subseteq Thread
      /\ th \notin Simulator => th \in Caller
  BY OverlapIsNoted, ActsLeaveOthers DEF OthersKept, Thread
<1>2. ~broken' /\ IntactNext(th)
  BY <1>1, ActorIntact DEF IntactInv
<1>3. ASSUME NEW o \in Thread, pc'[o] \in {"emplace", "emplace_back"}
      PROVE  ref'[o] \in DOMAIN deque'
  <2>1. CASE o = th
    BY <1>2, <1>3, <2>1 DEF IntactNext
  <2>2. CASE o # th
    <3>1. th \notin Simulator /\ ref'[o] = ref[o] /\ ref[o] \in DOMAIN deque
      BY <1>1, <1>3, <2>2 DEF IntactInv, Emplacing, Live
    <3>2. DOMAIN deque \subseteq DOMAIN deque'
      BY <3>1, OthersKeepTheMap DEF Changes, Creates, Create, Emplace
    <3> QED BY <3>1, <3>2
  <2> QED BY <2>1, <2>2
<1>4. ASSUME NEW s \in Simulator
      PROVE  /\ pc'[s] \in SteppingPC => step'[s].ts_queue \in DOMAIN deque'
             /\ pc'[s] \in {"read", "pop"} => deque'[step'[s].ts_queue] # << >>
             /\ pc'[s] = "erase" => deque'[step'[s].ts_queue] = << >>
  BY <1>1, <1>2, <1>4 DEF IntactNext, SteppingPC, InsertingPC
<1>5. ASSUME NEW d \in DOMAIN deque', deque'[d] = << >>
      PROVE  \E o \in Thread : MindsNext(o, d)
  <2>1. CASE MindsNext(th, d)
    BY <2>1
  <2>2. CASE d \in DOMAIN deque /\ deque[d] = << >> /\ ~Minds(th, d)
    <3>1. PICK o \in Thread : Minds(o, d)
      BY <2>2 DEF IntactInv
    <3>2. o # th
      BY <2>2, <3>1
    <3> QED BY <1>1, <3>1, <3>2 DEF Minds, MindsNext, Inserting, InsertingPC
  <2> QED BY <1>2, <1>5, <2>1, <2>2 DEF IntactNext
<1> QED BY <1>2, <1>3, <1>4, <1>5
        DEF IntactInv, Emplacing, Live, Stepping, TsQueue, Minds, MindsNext, Inserting

-----------------------------------------------------------------------------
Has(q, e) == \E i \in 1..Len(q) : q[i] = e
Distinct(q) == \A i, j \in 1..Len(q) : q[i] = q[j] => i = j

Filed(e) == \E d \in DOMAIN deque : Has(deque[d], e)

(* While one SimulateAll runs at a time and overlaps no provision request, *)
(* an event is filed once at most, and not after it has been handled; what *)
(* is popped is what was read.                                             *)
OnceInv ==
  /\ \A d \in DOMAIN deque : Distinct(deque[d])
  /\ \A e \in Event :
       /\ Filed(e) => e \in DOMAIN known /\ handled[e] = 0
       /\ handled[e] <= 1
       /\ handled[e] > 0 => e \in DOMAIN known
  /\ \A c \in Caller :
       /\ pc[c] = "idle" => Command(c) \notin DOMAIN known
       /\ Completion(c) \in DOMAIN known => handled[Command(c)] > 0
  /\ \A th \in Thread : Inserting(th) => arg[th].event \notin DOMAIN known
  /\ \A s \in Simulator :
       /\ pc[s] = "pop" => HasFront(s) /\ Head(deque[TsQueue(s)]) = arg[s].event
       /\ pc[s] = "handle" =>
            ~Filed(arg[s].event) /\ arg[s].event \in DOMAIN known /\ handled[arg[s].event] = 0
       /\ Inserting(s) => handled[Command(arg[s].event.of)] > 0


LEMMA DistinctAdded ==
  ASSUME NEW q \in Seq(Event), NEW e \in Event, Distinct(q), ~Has(q, e)
  PROVE  Distinct(<<e>> \o q) /\ Distinct(q \o <<e>>)
<1>1. \A i \in 1..Len(<<e>> \o q) : (<<e>> \o q)[i] = IF i = 1 THEN e ELSE q[i - 1]
  OBVIOUS
<1>2. \A i \in 1..Len(q \o <<e>>) : (q \o <<e>>)[i] = IF i = Len(q) + 1 THEN e ELSE q[i]
  OBVIOUS
<1>3. Len(<<e>> \o q) = 1 + Len(q) /\ Len(q \o <<e>>) = Len(q) + 1 /\ Len(q) \in Nat
  OBVIOUS
<1>4. ASSUME NEW i \in 1..(1 + Len(q)), NEW j \in 1..(1 + Len(q)),
             (<<e>> \o q)[i] = (<<e>> \o q)[j]
      PROVE  i = j
  <2>1. i # 1 => i - 1 \in 1..Len(q)
    BY <1>3
  <2>2. j # 1 => j - 1 \in 1..Len(q)
    BY <1>3
  <2>3. i = 1 <=> j = 1
    BY <1>1, <1>3, <1>4, <2>1, <2>2 DEF Has
  <2>4. CASE i # 1 /\ j # 1
    <3>1. q[i - 1] = q[j - 1]
      BY <1>1, <1>3, <1>4, <2>4
    <3>2. i - 1 = j - 1
      BY <2>1, <2>2, <2>4, <3>1 DEF Distinct
    <3> QED BY <1>3, <3>2
  <2> QED BY <2>3, <2>4
<1>5. ASSUME NEW i \in 1..(Len(q) + 1), NEW j \in 1..(Len(q) + 1),
             (q \o <<e>>)[i] = (q \o <<e>>)[j]
      PROVE  i = j
  <2>1. i # Len(q) + 1 => i \in 1..Len(q)
    BY <1>3
  <2>2. j # Len(q) + 1 => j \in 1..Len(q)
    BY <1>3
  <2>3. i = Len(q) + 1 <=> j = Len(q) + 1
    BY <1>2, <1>3, <1>5, <2>1, <2>2 DEF Has
  <2> QED BY <1>2, <1>3, <1>5, <2>1, <2>2, <2>3 DEF Distinct
<1> QED BY <1>3, <1>4, <1>5 DEF Distinct

(* The head of a deque whose events differ is not among the others. *)
LEMMA HeadTaken ==
  ASSUME NEW q \in Seq(Event), q # << >>
  PROVE  /\ Has(q, Head(q)) /\ Head(q) \in Event
         /\ \A e : Has(Tail(q), e) => Has(q, e)
         /\ Distinct(q) => Distinct(Tail(q)) /\ ~Has(Tail(q), Head(q))
<1>1. /\ Head(q) = q[1] /\ Len(q) \in Nat /\ Len(q) > 0 /\ Len(Tail(q)) = Len(q) - 1
      /\ q[1] \in Event
  OBVIOUS
<1>2. \A i \in 1..Len(Tail(q)) : Tail(q)[i] = q[i + 1] /\ i + 1 \in 1..Len(q) /\ i + 1 # 1
  BY <1>1
<1>3. 1 \in 1..Len(q)
  BY <1>1
<1>4. Has(q, Head(q)) /\ \A e : Has(Tail(q), e) => Has(q, e)
  BY <1>1, <1>2, <1>3 DEF Has
<1>5. ASSUME Distinct(q)
      PROVE  Distinct(Tail(q)) /\ ~Has(Tail(q), Head(q))
  <2>1. ~Has(Tail(q), Head(q))
    BY <1>1, <1>2, <1>3, <1>5 DEF Has, Distinct
  <2>2. ASSUME NEW i \in 1..Len(Tail(q)), NEW j \in 1..Len(Tail(q)), Tail(q)[i] = Tail(q)[j]
        PROVE  i = j
    <3>1. i + 1 = j + 1
      BY <1>2, <1>5, <2>2 DEF Distinct
    <3> QED BY <1>1, <3>1
  <2> QED BY <2>1, <2>2 DEF Distinct
<1> QED BY <1>1, <1>4, <1>5

(* What an event is. *)
LEMMA EventForms ==
  ASSUME NEW e \in Event
  PROVE  /\ e.of \in Caller
         /\ e.completion => e = Completion(e.of)
         /\ ~e.completion => e = Command(e.of)
BY DEF Event, Command, Completion

LEMMA CommandForms ==
  ASSUME NEW c \in Caller
  PROVE  /\ Command(c) \in Event /\ Completion(c) \in Event
         /\ Command(c).of = c /\ Completion(c).of = c
         /\ ~Command(c).completion /\ Completion(c).completion
         /\ Command(c) # Completion(c)
BY DEF Event, Command, Completion

FiledNext(e) == \E d \in DOMAIN deque' : Has(deque'[d], e)

(* What is filed was filed before, or has just been. *)
LEMMA FiledBefore ==
  ASSUME TypeInv, DequesInv, HeldInv, NEW th \in Thread, Acts(th), NEW e, FiledNext(e)
  PROVE  Filed(e) \/ (Emplace(th) /\ e = arg[th].event)
<1>1. PICK d \in DOMAIN deque' : Has(deque'[d], e)
  BY DEF FiledNext
<1>2. CASE Creates(th)
  <2>1. deque' = [c \in DOMAIN deque \cup {arg[th].event} |->
                    IF c = arg[th].event THEN << >> ELSE deque[c]]
    BY <1>2 DEF Creates, Create
  <2>2. ~Has(<< >>, e)
    BY DEF Has
  <2> QED BY <1>1, <2>1, <2>2 DEF Filed
<1>3. CASE Emplace(th)
  <2>1. arg[th].event \in Event
    BY <1>3 DEF Emplace, Emplacing, Inserting, InsertingPC, HeldInv, Due
  <2> QED BY <1>1, <1>3, <2>1, EmplaceAdds DEF Filed, Has
<1>4. CASE th \in Simulator /\ Pop(th)
  <2>1. /\ TsQueue(th) \in DOMAIN deque
        /\ deque' = [deque EXCEPT ![TsQueue(th)] = Tail(deque[TsQueue(th)])]
        /\ deque[TsQueue(th)] \in Seq(Event) /\ deque[TsQueue(th)] # << >>
    BY <1>4 DEF Pop, HasFront, Live, TypeInv
  <2>2. Has(Tail(deque[TsQueue(th)]), e) => Has(deque[TsQueue(th)], e)
    BY <2>1, HeadTaken
  <2> QED BY <1>1, <2>1, <2>2 DEF Filed
<1>5. CASE th \in Simulator /\ Erase(th)
  BY <1>1, <1>5 DEF Erase, Filed
<1>6. CASE UNCHANGED <<queue, deque>>
  BY <1>1, <1>6 DEF Filed
<1> QED BY <1>2, <1>3, <1>4, <1>5, <1>6, OthersKeepTheMap DEF Changes

Adds(th) == Drop(th) \/ Emplace(th)

LEMMA HistoryMoves ==
  ASSUME TypeInv, NEW th \in Thread, Acts(th)
  PROVE  /\ DOMAIN known' = IF Adds(th) THEN DOMAIN known \cup {arg[th].event} ELSE DOMAIN known
         /\ ~Adds(th) => known' = known
         /\ Adds(th) => Noticed(th)
         /\ handled' = handled \/ (th \in Simulator /\ Handle(th))
         /\ Adds(th) => handled' = handled /\ Inserting(th)
         /\ th \in Simulator /\ Handle(th) => ~Adds(th)
<1>1. ~Adds(th) => known' = known
  BY DEF Adds, Acts, Serve, Simulate, SimulateNextStep, Insert, ReadNow, Check, Find, FindNothing,
         Create, EmplaceBreaks, Enter, Return, Test, LookInVain, Look, Read, Pop,
         FrontBreaks, Handle, Finish, Erase, EndBreaks, Tick, Breaks, history
<1>2. handled' = handled \/ (th \in Simulator /\ Handle(th))
  BY DEF Acts, Serve, Simulate, SimulateNextStep, Insert, ReadNow, Check, Drop, Find, FindNothing,
         Create, Emplace, EmplaceBreaks, Enter, Return, Test, LookInVain, Look, Read, Pop,
         FrontBreaks, Finish, Erase, EndBreaks, Tick, Breaks, history
<1>3. Adds(th) => Noticed(th) /\ handled' = handled /\ Inserting(th) /\ pc[th] # "handle"
  BY DEF Adds, Drop, Emplace, Emplacing, Goto, Inserting, InsertingPC
<1>4. Handle(th) => pc[th] = "handle"
  BY DEF Handle
<1>5. Noticed(th) => DOMAIN known' = DOMAIN known \cup {arg[th].event}
  BY DEF Noticed
<1> QED BY <1>1, <1>2, <1>3, <1>4, <1>5

LEMMA DistinctStep ==
  ASSUME TypeInv, DequesInv, HeldInv, OnceInv, NEW th \in Thread, Acts(th), NEW d \in DOMAIN deque'
  PROVE  Distinct(deque'[d])
<1>1. \A c \in DOMAIN deque : Distinct(deque[c]) /\ deque[c] \in Seq(Event)
  BY DEF OnceInv, TypeInv
<1>2. CASE Creates(th)
  <2>1. deque' = [c \in DOMAIN deque \cup {arg[th].event} |->
                    IF c = arg[th].event THEN << >> ELSE deque[c]]
    BY <1>2 DEF Creates, Create
  <2>2. Distinct(<< >>)
    BY DEF Distinct
  <2> QED BY <1>1, <2>1, <2>2
<1>3. CASE Emplace(th)
  <2>1. ref[th] \in DOMAIN deque /\ arg[th].event \in Event /\ arg[th].event \notin DOMAIN known
    BY <1>3 DEF Emplace, Emplacing, Inserting, InsertingPC, HeldInv, Due, Live, OnceInv
  <2>2. ~Has(deque[ref[th]], arg[th].event)
    BY <2>1 DEF OnceInv, Filed
  <2>3. \/ deque'[ref[th]] = <<arg[th].event>> \o deque[ref[th]]
        \/ deque'[ref[th]] = deque[ref[th]] \o <<arg[th].event>>
    BY <1>3, <2>1 DEF Emplace
  <2>4. Distinct(deque'[ref[th]])
    BY <1>1, <2>1, <2>2, <2>3, DistinctAdded
  <2>5. d # ref[th] => d \in DOMAIN deque /\ deque'[d] = deque[d]
    BY <1>3, <2>1, EmplaceAdds
  <2> QED BY <1>1, <2>4, <2>5
<1>4. CASE th \in Simulator /\ Pop(th)
  <2>1. /\ TsQueue(th) \in DOMAIN deque
        /\ deque' = [deque EXCEPT ![TsQueue(th)] = Tail(deque[TsQueue(th)])]
        /\ deque[TsQueue(th)] # << >>
    BY <1>4 DEF Pop, HasFront, Live
  <2>2. Distinct(Tail(deque[TsQueue(th)]))
    BY <1>1, <2>1, HeadTaken
  <2> QED BY <1>1, <2>1, <2>2
<1>5. CASE th \in Simulator /\ Erase(th)
  BY <1>1, <1>5 DEF Erase
<1>6. CASE UNCHANGED <<queue, deque>>
  BY <1>1, <1>6
<1> QED BY <1>2, <1>3, <1>4, <1>5, <1>6, OthersKeepTheMap DEF Changes

(* The event a thread inserts: a caller's own command, a completion of a   *)
(* simulator; no two threads insert the same while one loop runs.          *)
LEMMA InsertedEvents ==
  ASSUME TypeInv, HeldInv, NotedInv, NotesOverlap, NEW th \in Thread, Acts(th), ~TwoSimulate',
         Inserting(th)
  PROVE  /\ arg[th].event \in Event
         /\ th \in Caller => arg[th].event = Command(th)
         /\ th \in Simulator => arg[th].event = Completion(arg[th].event.of)
         /\ \A o \in Thread \ {th} : Inserting(o) => arg[o].event # arg[th].event
<1>1. /\ \A o \in Thread : Inserting(o) => pc[o] # "idle" /\ arg[o].event \in Event
      /\ \A c \in Caller : pc[c] # "idle" => arg[c].event = Command(c)
      /\ \A s \in Simulator : Inserting(s) => arg[s].event.completion
      /\ Caller \subseteq Thread /\ Simulator \subseteq Thread
  BY DEF HeldInv, Due, Inserting, InsertingPC, Thread
<1>2. \A o \in Thread : Inserting(o) =>
        /\ o \in Caller => arg[o].event = Command(o)
        /\ o \in Simulator => arg[o].event = Completion(arg[o].event.of)
  BY <1>1, EventForms
<1>3. ASSUME NEW o \in Thread \ {th}, Inserting(o)
      PROVE  arg[o].event # arg[th].event
  <2>1. ~(o \in Simulator /\ th \in Simulator)
    BY <1>1, <1>3, OverlapIsNoted DEF TwoSimulate
  <2>2. CASE o \in Caller /\ th \in Caller
    BY <1>2, <1>3, <2>2, CommandForms
  <2>3. CASE (o \in Caller /\ th \in Simulator) \/ (o \in Simulator /\ th \in Caller)
    <3>1. \A c \in Caller : ~arg[c].event.completion \/ ~Inserting(c)
      BY <1>1, <1>2, CommandForms
    <3> QED BY <1>1, <1>3, <2>3, <3>1
  <2> QED BY <2>1, <2>2, <2>3 DEF Thread
<1> QED BY <1>1, <1>2, <1>3

(* The event a simulator handles. *)
LEMMA HandledEvent ==
  ASSUME TypeInv, HeldInv, OnceInv, NEW th \in Simulator, Handle(th)
  PROVE  /\ arg[th].event \in Event /\ arg[th].event \in DOMAIN known
         /\ ~Filed(arg[th].event) /\ handled[arg[th].event] = 0
         /\ handled' = [handled EXCEPT ![arg[th].event] = 1]
<1>1. pc[th] = "handle" /\ handled' = [handled EXCEPT ![arg[th].event] = handled[arg[th].event] + 1]
  BY DEF Handle
<1>2. arg[th].event \in Event
  BY <1>1 DEF HeldInv, Due
<1>3. ~Filed(arg[th].event) /\ arg[th].event \in DOMAIN known /\ handled[arg[th].event] = 0
  BY <1>1 DEF OnceInv
<1> QED BY <1>1, <1>2, <1>3

LEMMA KnownStep ==
  ASSUME TypeInv, DequesInv, HeldInv, NotedInv, OnceInv, NotesOverlap,
         NEW th \in Thread, Acts(th), ~TwoSimulate', NEW e \in Event
  PROVE  /\ FiledNext(e) => e \in DOMAIN known' /\ handled'[e] = 0
         /\ handled'[e] <= 1 /\ handled'[e] >= handled[e]
         /\ handled'[e] > 0 => e \in DOMAIN known'
<1>1. /\ Filed(e) => e \in DOMAIN known /\ handled[e] = 0
      /\ handled[e] <= 1 /\ handled[e] \in Nat
      /\ handled[e] > 0 => e \in DOMAIN known
  BY DEF OnceInv, TypeInv
<1>2. CASE th \in Simulator /\ Handle(th)
  <2>1. ~Emplace(th) /\ DOMAIN known' = DOMAIN known
    BY <1>2, HistoryMoves DEF Adds
  <2>2. e # arg[th].event => handled'[e] = handled[e]
    BY <1>2, HandledEvent DEF TypeInv
  <2>3. e = arg[th].event => handled'[e] = 1 /\ ~Filed(e) /\ e \in DOMAIN known /\ handled[e] = 0
    BY <1>2, HandledEvent DEF TypeInv
  <2> QED BY <1>1, <2>1, <2>2, <2>3, FiledBefore
<1>3. CASE ~(th \in Simulator /\ Handle(th))
  <2>1. handled' = handled /\ DOMAIN known \subseteq DOMAIN known'
    BY <1>3, HistoryMoves
  <2>2. Emplace(th) => arg[th].event \in DOMAIN known' /\ arg[th].event \notin DOMAIN known
    BY HistoryMoves DEF Adds, OnceInv
  <2>3. Emplace(th) /\ e = arg[th].event => e \in DOMAIN known' /\ handled[e] = 0
    BY <1>1, <2>2
  <2> QED BY <1>1, <2>1, <2>3, FiledBefore
<1> QED BY <1>2, <1>3

(* How a thread comes to insert, to pop and to handle an event. *)
LEMMA ComesTo ==
  ASSUME TypeInv, NEW th \in Thread, Acts(th)
  PROVE  /\ pc'[th] \in InsertingPC =>
              \/ pc[th] \in InsertingPC /\ arg' = arg /\ ~Adds(th) /\ UNCHANGED handled
              \/ th \in Caller /\ ReadNow(th)
              \/ th \in Simulator /\ Handle(th) /\ ~arg[th].event.completion
         /\ th \in Simulator /\ pc'[th] = "pop" =>
              Read(th) \/ (pc[th] = "pop" /\ UNCHANGED <<deque, step, arg>>)
         /\ th \in Simulator /\ pc'[th] = "handle" => Pop(th)
<1>1. /\ DOMAIN pc = Thread /\ (th \in Caller => th \notin Simulator)
  BY ThreadsAssumption DEF TypeInv
<1> USE DEF Goto, InsertingPC, AfterInsert, shared, history
<1>2. CASE th \in Caller /\ ReadNow(th)
  BY <1>1, <1>2
<1>3. CASE Check(th) \/ Find(th) \/ FindNothing(th) \/ Create(th)
  <2>1. /\ pc[th] \in {"check", "find", "create"}
        /\ pc'[th] \in {"find", "create", "emplace", "emplace_back"}
        /\ UNCHANGED <<arg, handled>>
    BY <1>1, <1>3 DEF Check, Find, FindNothing, Create
  <2>2. ~Adds(th)
    <3>1. CASE Check(th)
      <4>1. arg[th].ts \in Nat /\ now \in Nat
        BY DEF TypeInv
      <4> QED BY <3>1, <4>1 DEF Adds, Drop, Emplace, Emplacing, Check
    <3>2. CASE ~Check(th)
      <4>1. pc[th] \in {"find", "create"}
        BY <1>3, <3>2 DEF Find, FindNothing, Create
      <4> QED BY <4>1 DEF Adds, Drop, Emplace, Emplacing
    <3> QED BY <3>1, <3>2
  <2> QED BY <2>1, <2>2
<1>4. CASE Drop(th) \/ Emplace(th)
  <2>1. pc'[th] \in {"done", "finish"}
    BY <1>1, <1>4 DEF Drop, Emplace
  <2> QED BY <2>1
<1>5. CASE EmplaceBreaks(th) \/ FrontBreaks(th) \/ EndBreaks(th)
  <2>1. UNCHANGED <<pc, arg, deque, step, handled, known>> /\ pc[th] # "handle"
    BY <1>5 DEF EmplaceBreaks, Emplacing, FrontBreaks, EndBreaks, Breaks
  <2>2. ~Adds(th)
    BY <1>5, <1>1, <2>1 DEF Adds, Drop, Emplace, Emplacing, EmplaceBreaks, FrontBreaks, EndBreaks
  <2> QED BY <2>1, <2>2
<1>6. CASE th \in Simulator /\ (Enter(th) \/ Return(th) \/ Test(th) \/ LookInVain(th) \/ Look(th)
             \/ Finish(th) \/ Erase(th) \/ Tick(th))
  <2>1. pc'[th] \in {"test", "idle", "look", "read", "erase", "tick"}
    BY <1>1, <1>6 DEF Enter, Return, Test, LookInVain, Look, Finish, Erase, Tick
  <2> QED BY <2>1
<1>7. CASE th \in Simulator /\ (Read(th) \/ Pop(th))
  BY <1>1, <1>7 DEF Read, Pop
<1>8. CASE th \in Simulator /\ Handle(th)
  BY <1>1, <1>8 DEF Handle
<1> QED BY <1>2, <1>3, <1>4, <1>5, <1>6, <1>7, <1>8
        DEF Acts, Serve, Simulate, SimulateNextStep, Insert

LEMMA OnceStep ==
  ASSUME TypeInv, DequesInv, HeldInv, NotedInv, OnceInv, NotesOverlap,
         NEW th \in Thread, Acts(th), ~TwoSimulate', overlapped' \cap Provision = {}
  PROVE  OnceInv'
<1>1. /\ DOMAIN pc = Thread /\ DOMAIN arg = Thread /\ DOMAIN step = Simulator
      /\ Simulator \subseteq Thread /\ Caller \subseteq Thread
      /\ th \in Caller => th \notin Simulator
      /\ th \notin Simulator => th \in Caller
      /\ \A c \in Caller : pc[c] # "idle" => arg[c].event = Command(c)
  BY ThreadsAssumption DEF TypeInv, Thread, HeldInv
<1>2. /\ \A o \in Thread \ {th} : pc'[o] = pc[o] /\ arg'[o] = arg[o]
      /\ \A s \in Simulator \ {th} : step'[s] = step[s]
      /\ \A c \in Caller : pc[c] # "idle" => pc'[c] # "idle" /\ arg'[c] = arg[c]
  BY ActsLeaveOthers DEF OthersKept
<1>3. /\ th \in Simulator => \A s \in Simulator \ {th} : pc[s] = "idle"
      /\ th \in Provision => \A s \in Simulator : pc[s] = "idle"
  BY <1>1, OverlapIsNoted, ThreadsAssumption DEF TwoSimulate
<1>4. \A e \in Event :
        /\ FiledNext(e) => e \in DOMAIN known' /\ handled'[e] = 0
        /\ handled'[e] <= 1 /\ handled'[e] >= handled[e]
        /\ handled[e] \in Nat /\ handled'[e] \in Nat
        /\ handled'[e] > 0 => e \in DOMAIN known'
  BY KnownStep, TypeStep, NotedStep DEF TypeInv
<1>5. DOMAIN known' = IF Adds(th) THEN DOMAIN known \cup {arg[th].event} ELSE DOMAIN known
  BY HistoryMoves
<1>6. Adds(th) =>
        /\ Inserting(th) /\ arg[th].event \in Event /\ arg[th].event \notin DOMAIN known
        /\ th \in Caller => arg[th].event = Command(th)
        /\ th \in Simulator => arg[th].event = Completion(arg[th].event.of)
        /\ \A o \in Thread \ {th} : Inserting(o) => arg[o].event # arg[th].event
  BY HistoryMoves, InsertedEvents DEF OnceInv
<1>7. ASSUME NEW c \in Caller, pc'[c] = "idle"
      PROVE  Command(c) \notin DOMAIN known'
  <2>1. pc[c] = "idle" /\ Command(c) \notin DOMAIN known
    BY <1>1, <1>2, <1>7 DEF OnceInv
  <2>2. Adds(th) => arg[th].event # Command(c)
    <3>1. CASE th \in Simulator
      BY <1>6, <3>1, CommandForms, EventForms
    <3>2. CASE th \in Caller
      BY <1>6, <2>1, <3>2, CommandForms DEF Inserting, InsertingPC
    <3> QED BY <1>1, <3>1, <3>2
  <2> QED BY <1>5, <2>1, <2>2
<1>8. ASSUME NEW c \in Caller, Completion(c) \in DOMAIN known'
      PROVE  handled'[Command(c)] > 0
  <2>1. Command(c) \in Event
    BY CommandForms
  <2>2. CASE Completion(c) \in DOMAIN known
    BY <1>4, <2>1, <2>2 DEF OnceInv
  <2>3. CASE Adds(th) /\ Completion(c) = arg[th].event
    <3>1. th \in Simulator /\ arg[th].event.of = c
      BY <1>1, <1>6, <2>3, CommandForms
    <3> QED BY <1>4, <1>6, <2>1, <2>3, <3>1 DEF OnceInv
  <2> QED BY <1>5, <1>8, <2>2, <2>3
<1>9. ASSUME th \in Simulator, Handle(th), ~arg[th].event.completion
       PROVE  \E c \in Caller : /\ arg[th].event = Command(c) /\ arg'[th].event = Completion(c)
                                /\ handled[Command(c)] = 0 /\ handled'[Command(c)] = 1
                                /\ DOMAIN known' = DOMAIN known
  <2>1. /\ arg[th].event \in Event /\ handled[arg[th].event] = 0 /\ handled'[arg[th].event] = 1
    BY <1>9, HandledEvent DEF TypeInv
  <2>2. arg'[th].event = Completion(arg[th].event.of)
    BY <1>1, <1>9 DEF Handle
  <2> QED BY <1>5, <1>9, <2>1, <2>2, HistoryMoves, EventForms
<1>10. ASSUME NEW o \in Thread, pc'[o] \in InsertingPC
      PROVE  arg'[o].event \notin DOMAIN known'
  <2>1. CASE o # th
    <3>1. arg'[o].event = arg[o].event /\ Inserting(o)
      BY <1>2, <1>10, <2>1 DEF Inserting
    <3> QED BY <1>5, <1>6, <2>1, <3>1 DEF OnceInv
  <2>2. CASE o = th /\ pc[th] \in InsertingPC /\ arg' = arg /\ ~Adds(th)
    BY <1>5, <2>2 DEF OnceInv, Inserting
  <2>3. CASE o = th /\ th \in Caller /\ ReadNow(th)
    <3>1. pc[th] = "idle" /\ arg'[th].event = Command(th)
      BY <1>1, <2>3 DEF ReadNow, Begins
    <3>2. ~Adds(th)
      BY <1>6, <3>1 DEF Inserting, InsertingPC
    <3> QED BY <1>5, <2>3, <3>1, <3>2 DEF OnceInv
  <2>4. CASE o = th /\ th \in Simulator /\ Handle(th) /\ ~arg[th].event.completion
    <3>1. PICK c \in Caller : /\ arg'[th].event = Completion(c) /\ DOMAIN known' = DOMAIN known
                              /\ handled[Command(c)] = 0
      BY <1>9, <2>4
    <3> QED BY <2>4, <3>1 DEF OnceInv
  <2> QED BY <1>10, <2>1, <2>2, <2>3, <2>4, ComesTo
<1>11. ASSUME NEW s \in Simulator, s # th, pc'[s] \in {"pop", "handle"} \cup InsertingPC
       PROVE  /\ pc[s] = pc'[s] /\ arg'[s] = arg[s] /\ step'[s] = step[s]
              /\ th \in Caller /\ th \notin Provision /\ handled' = handled
  <2>1. pc[s] = pc'[s] /\ pc[s] # "idle" /\ arg'[s] = arg[s] /\ step'[s] = step[s]
    BY <1>1, <1>2, <1>11 DEF InsertingPC
  <2>2. th \notin Simulator /\ th \notin Provision
    BY <1>3, <1>11, <2>1
  <2> QED BY <1>1, <2>1, <2>2, HistoryMoves
<1>12. ASSUME NEW s \in Simulator, pc'[s] = "pop"
       PROVE  /\ step'[s].ts_queue \in DOMAIN deque' /\ deque'[step'[s].ts_queue] # << >>
              /\ Head(deque'[step'[s].ts_queue]) = arg'[s].event
  <2> DEFINE d == step[s].ts_queue
  <2>1. CASE s # th
    <3>1. /\ pc[s] = "pop" /\ arg'[s] = arg[s] /\ step'[s] = step[s]
          /\ th \in Caller /\ th \notin Provision /\ th \notin Simulator
      BY <1>1, <1>12, <1>11, <2>1
    <3>2. d \in DOMAIN deque /\ deque[d] # << >> /\ Head(deque[d]) = arg[s].event
      BY <3>1 DEF OnceInv, HasFront, Live, TsQueue
    <3>3. CASE Creates(th)
      <4>1. deque' = [c \in DOMAIN deque \cup {arg[th].event} |->
                        IF c = arg[th].event THEN << >> ELSE deque[c]]
        BY <3>3 DEF Creates, Create
      <4>2. arg[th].event \notin DOMAIN deque
        BY <3>3 DEF Creates, Create, Goto, Inserting, InsertingPC, DequesInv, HeldInv, Due
      <4> QED BY <3>1, <3>2, <4>1, <4>2
    <3>4. CASE Emplace(th)
      <4>1. ref[th] \in DOMAIN deque /\ arg[th].event \in Event
            /\ deque' = [deque EXCEPT ![ref[th]] = deque[ref[th]] \o <<arg[th].event>>]
        BY <1>6, <3>1, <3>4 DEF Adds, Emplace, Live
      <4>2. deque[d] \in Seq(Event)
        BY <3>2 DEF TypeInv
      <4>3. (deque[d] \o <<arg[th].event>>) # << >>
            /\ Head(deque[d] \o <<arg[th].event>>) = Head(deque[d])
        BY <3>2, <4>1, <4>2
      <4> QED BY <3>1, <3>2, <4>1, <4>3
    <3>5. CASE UNCHANGED <<queue, deque>>
      BY <3>1, <3>2, <3>5
    <3> QED BY <3>1, <3>3, <3>4, <3>5, OthersKeepTheMap DEF Changes
  <2>2. CASE s = th /\ Read(th)
    BY <1>1, <2>2 DEF Read, HasFront, Live, TsQueue, shared
  <2>3. CASE s = th /\ pc[th] = "pop" /\ UNCHANGED <<deque, step, arg>>
    BY <2>3 DEF OnceInv, HasFront, Live, TsQueue
  <2> QED BY <1>12, <2>1, <2>2, <2>3, ComesTo
<1>13. ASSUME NEW s \in Simulator, pc'[s] = "handle"
       PROVE  /\ ~FiledNext(arg'[s].event) /\ arg'[s].event \in DOMAIN known'
              /\ handled'[arg'[s].event] = 0
  <2> DEFINE e == arg[s].event
  <2>1. CASE s # th
    <3>1. /\ pc[s] = "handle" /\ arg'[s] = arg[s] /\ handled' = handled
      BY <1>13, <1>11, <2>1
    <3>2. ~Filed(e) /\ e \in DOMAIN known /\ handled[e] = 0
      BY <3>1 DEF OnceInv
    <3>3. ~FiledNext(e)
      BY <1>6, <3>2, FiledBefore DEF Adds
    <3> QED BY <1>5, <3>1, <3>2, <3>3
  <2>2. CASE s = th
    <3>1. Pop(th) /\ th \notin Caller
      BY <1>1, <1>13, <2>2, ComesTo
    <3>2. /\ TsQueue(th) \in DOMAIN deque /\ deque[TsQueue(th)] # << >>
          /\ deque[TsQueue(th)] \in Seq(Event) /\ Distinct(deque[TsQueue(th)])
          /\ e = Head(deque[TsQueue(th)]) /\ arg' = arg
          /\ deque' = [deque EXCEPT ![TsQueue(th)] = Tail(deque[TsQueue(th)])]
      BY <2>2, <3>1 DEF Pop, Goto, HasFront, Live, TypeInv, OnceInv
    <3>3. e \in Event /\ Filed(e) /\ ~Has(Tail(deque[TsQueue(th)]), e)
      BY <3>2, HeadTaken DEF Filed
    <3>4. ASSUME NEW d \in DOMAIN deque, d # TsQueue(th), Has(deque[d], e)
          PROVE  FALSE
      <4>1. Due(e, TimeOf(d)) /\ queue[TimeOf(d)] = d
        BY <3>4 DEF DequesInv, Has
      <4>2. Due(e, TimeOf(TsQueue(th))) /\ queue[TimeOf(TsQueue(th))] = TsQueue(th)
        <5>1. Has(deque[TsQueue(th)], e)
          BY <3>2, HeadTaken
        <5> QED BY <3>2, <5>1 DEF DequesInv, Has
      <4> QED BY <3>4, <4>1, <4>2 DEF Due
    <3>5. ~FiledNext(e)
      BY <3>2, <3>3, <3>4 DEF FiledNext
    <3>6. e \in DOMAIN known /\ handled[e] = 0
      BY <3>3 DEF OnceInv
    <3>7. handled' = handled /\ DOMAIN known \subseteq DOMAIN known'
      BY <1>5, <3>1, HistoryMoves DEF Pop, history
    <3> QED BY <2>2, <3>2, <3>5, <3>6, <3>7
  <2> QED BY <2>1, <2>2
<1>14. ASSUME NEW s \in Simulator, pc'[s] \in InsertingPC
       PROVE  handled'[Command(arg'[s].event.of)] > 0
  <2>1. CASE s # th
    <3>1. pc[s] = pc'[s] /\ arg'[s] = arg[s] /\ handled' = handled
      BY <1>14, <1>11, <2>1
    <3> QED BY <1>14, <3>1 DEF OnceInv, Inserting
  <2>2. CASE s = th /\ pc[th] \in InsertingPC /\ arg' = arg /\ UNCHANGED handled
    BY <2>2 DEF OnceInv, Inserting
  <2>3. CASE s = th /\ Handle(th) /\ ~arg[th].event.completion
    <3>1. PICK c \in Caller : arg'[th].event = Completion(c) /\ handled'[Command(c)] = 1
      BY <1>9, <2>3
    <3> QED BY <2>3, <3>1, CommandForms
  <2> QED BY <1>1, <1>14, <2>1, <2>2, <2>3, ComesTo
<1> QED BY <1>4, <1>7, <1>8, <1>10, <1>12, <1>13, <1>14, DistinctStep
        DEF OnceInv, FiledNext, Filed, HasFront, Live, TsQueue, Inserting

-----------------------------------------------------------------------------
ThreadsInv ==
  /\ TypeInv
  /\ DequesInv
  /\ HeldInv
  /\ NotedInv
  /\ ~TwoSimulate => TimeInv
  /\ overlapped = {} => IntactInv
  /\ ~TwoSimulate /\ overlapped \cap Provision = {} => OnceInv

LEMMA ThreadsInvInit == ThreadsInit => ThreadsInv
<1> SUFFICES ASSUME ThreadsInit PROVE ThreadsInv
  OBVIOUS
<1> USE DEF ThreadsInit
<1>1. TypeInv
  <2>1. NoArg \in [event : AnyEvent, ts : Nat] /\ NoRef \in AnyEvent
    BY DEF NoArg, NoRef, AnyEvent
  <2>2. [ts |-> 0, ts_queue |-> NoRef] \in [ts : Nat, ts_queue : AnyEvent]
    BY <2>1
  <2>3. /\ queue = << >> /\ deque = << >> /\ DOMAIN queue = {} /\ DOMAIN deque = {}
    OBVIOUS
  <2>4. /\ pc \in [Thread -> CallerPC \cup SimulatorPC]
        /\ \A c \in Caller : pc[c] \in CallerPC
        /\ \A s \in Simulator : pc[s] \in SimulatorPC
    BY DEF CallerPC, SimulatorPC, Thread
  <2>5. arg \in [Thread -> [event : AnyEvent, ts : Nat]]
    BY <2>1
  <2>6. ref \in [Thread -> AnyEvent] /\ step \in [Simulator -> [ts : Nat, ts_queue : AnyEvent]]
    BY <2>1, <2>2
  <2> QED BY <2>3, <2>4, <2>5, <2>6 DEF TypeInv
<1>2. \A th \in Thread : pc[th] = "idle"
  OBVIOUS
<1>3. Caller \subseteq Thread /\ Simulator \subseteq Thread
  BY DEF Thread
<1>4. DOMAIN queue = {} /\ DOMAIN deque = {}
  OBVIOUS
<1>5. DequesInv
  BY <1>4 DEF DequesInv
<1>6. HeldInv
  BY <1>2, <1>3 DEF HeldInv, Inserting, InsertingPC, Emplacing, Stepping, SteppingPC
<1>7. NotedInv
  BY <1>2, <1>3 DEF NotedInv, Served
<1>8. TimeInv
  BY <1>2, <1>3, <1>4
     DEF TimeInv, Inserting, InsertingPC, Stepping, SteppingPC, Taking, TakingPC
<1>9. IntactInv
  BY <1>2, <1>3, <1>4 DEF IntactInv, Emplacing, Stepping, SteppingPC, InsertingPC
<1>10. OnceInv
  <2>1. \A e \in Event : ~Filed(e) /\ handled[e] = 0
    BY <1>4 DEF Filed
  <2> QED BY <1>2, <1>3, <1>4, <2>1 DEF OnceInv, Inserting, InsertingPC
<1> QED BY <1>1, <1>5, <1>6, <1>7, <1>8, <1>9, <1>10 DEF ThreadsInv

LEMMA ThreadsInvStep == ThreadsInv /\ [ThreadsNext]_threadVars => ThreadsInv'
<1> SUFFICES ASSUME ThreadsInv, [ThreadsNext]_threadVars PROVE ThreadsInv'
  OBVIOUS
<1>1. CASE ThreadsNext
  <2>1. NotesOverlap /\ \E th \in Thread : Acts(th)
    BY <1>1, NextActs
  <2>2. PICK th \in Thread : Acts(th)
    BY <2>1
  <2>3. TypeInv /\ DequesInv /\ HeldInv /\ NotedInv
    BY DEF ThreadsInv
  <2>4. NotedInv' /\ overlapped \subseteq overlapped' /\ overlapped' \subseteq Thread
    BY <2>1, <2>3, NotedStep
  <2>5. TypeInv' /\ DequesInv' /\ HeldInv'
    BY <2>2, <2>3, <2>4, TypeStep, DequesStep, HeldStep
  <2>6. ~TwoSimulate' => TimeInv'
    BY <2>1, <2>2, <2>3, <2>4, TimeStep DEF ThreadsInv, TwoSimulate
  <2>7. overlapped' = {} => IntactInv'
    BY <2>1, <2>2, <2>3, <2>4, IntactStep DEF ThreadsInv
  <2>8. ~TwoSimulate' /\ overlapped' \cap Provision = {} => OnceInv'
    BY <2>1, <2>2, <2>3, <2>4, OnceStep DEF ThreadsInv, TwoSimulate
  <2> QED BY <2>4, <2>5, <2>6, <2>7, <2>8 DEF ThreadsInv
<1>2. CASE UNCHANGED threadVars
  BY <1>2 DEF threadVars, ThreadsInv, TypeInv, DequesInv, HeldInv, NotedInv, TwoSimulate, TimeInv,
              IntactInv, OnceInv, Due, TimeOf, Inserting, Emplacing, Stepping, TsQueue, Served,
              OnTimeAt, Taking, Minds, Live, HasFront, Filed
<1> QED BY <1>1, <1>2

THEOREM ThreadsKeepTheirBooks == ThreadsSpec => []ThreadsInv
BY ThreadsInvInit, ThreadsInvStep, PTL DEF ThreadsSpec

(* Nothing is used that is not there unless an RPC is served during a      *)
(* SimulateAll, and an event is handled twice only if a provision request  *)
(* is, or two SimulateAlls overlap.                                        *)
THEOREM DamageNeedsOverlap == ThreadsSpec => []DamageForOverlappedOnly
<1>1. ThreadsInv => DamageForOverlappedOnly
  <2> SUFFICES ASSUME ThreadsInv PROVE DamageForOverlappedOnly
    OBVIOUS
  <2>1. broken => overlapped # {}
    BY DEF ThreadsInv, IntactInv
  <2>2. ASSUME NEW e \in Event, handled[e] > 1, ~TwoSimulate, overlapped \cap Provision = {}
        PROVE  FALSE
    <3>1. handled[e] <= 1 /\ handled[e] \in Nat
      BY <2>2 DEF ThreadsInv, OnceInv, TypeInv
    <3> QED BY <2>2, <3>1
  <2> QED BY <2>1, <2>2 DEF DamageForOverlappedOnly
<1> QED BY <1>1, ThreadsKeepTheirBooks, PTL

(* One loop goes back in time only to handle an event of a command that    *)
(* was served while it ran.                                                *)
THEOREM BackInTimeNeedsOverlap == ThreadsSpec => BackInTimeForOverlappedOnly
<1>1. ThreadsInv /\ [ThreadsNext]_threadVars =>
        [last' < last => TwoSimulate
           \/ \E e \in Event : handled'[e] > handled[e] /\ e.of \in overlapped]_threadVars
  <2> SUFFICES ASSUME ThreadsInv, ThreadsNext, last' < last, ~TwoSimulate
               PROVE  \E e \in Event : handled'[e] > handled[e] /\ e.of \in overlapped
    OBVIOUS
  <2>1. TypeInv /\ HeldInv /\ TimeInv
    BY DEF ThreadsInv
  <2>2. PICK th \in Thread : Acts(th)
    BY NextActs
  <2>3. last \in Nat /\ last' # last
    BY <2>1 DEF TypeInv
  <2>4. th \in Simulator /\ Handle(th)
    BY <2>1, <2>2, <2>3, TimesMove
  <2>5. /\ pc[th] = "handle" /\ last' = step[th].ts
        /\ handled' = [handled EXCEPT ![arg[th].event] = handled[arg[th].event] + 1]
    BY <2>4 DEF Handle
  <2>6. arg[th].event \in Event /\ step[th].ts \in Nat
    BY <2>1, <2>4, <2>5 DEF HeldInv, Due, TypeInv
  <2>7. arg[th].event.of \in overlapped
    BY <2>1, <2>3, <2>4, <2>5, <2>6 DEF TimeInv
  <2>8. handled'[arg[th].event] > handled[arg[th].event]
    BY <2>1, <2>5, <2>6 DEF TypeInv
  <2> QED BY <2>6, <2>7, <2>8
<1> QED BY <1>1, ThreadsKeepTheirBooks, PTL DEF ThreadsSpec, BackInTimeForOverlappedOnly

-----------------------------------------------------------------------------
(* What waits, for a map, deques and registers: the events filed, and      *)
(* those popped.                                                           *)
FiledIn(Q, D) == UNION {{<<t, D[Q[t]][i]>> : i \in 1..Len(D[Q[t]])} : t \in DOMAIN Q}
HeldIn(P, S, A) == {<<S[s].ts, A[s].event>> : s \in {r \in Simulator : P[r] = "handle"}}

LEMMA WaitingSplits ==
  /\ Waiting = FiledIn(queue, deque) \cup HeldIn(pc, step, arg)
  /\ Waiting' = FiledIn(queue', deque') \cup HeldIn(pc', step', arg')
<1>1. Waiting = FiledIn(queue, deque) \cup HeldIn(pc, step, arg)
  BY Zenon DEF Waiting, FiledIn, HeldIn
<1>2. Waiting' = FiledIn(queue', deque') \cup HeldIn(pc', step', arg')
  BY Zenon DEF Waiting, FiledIn, HeldIn
<1> QED BY <1>1, <1>2

LEMMA FiledMembers ==
  ASSUME NEW Q, NEW D
  PROVE  \A p : p \in FiledIn(Q, D)
           <=> (\E t \in DOMAIN Q : \E e : p = <<t, e>> /\ Has(D[Q[t]], e))
<1> DEFINE At(t) == {<<t, D[Q[t]][i]>> : i \in 1..Len(D[Q[t]])}
<1>1. \A p, t : p \in At(t) <=> \E e : p = <<t, e>> /\ Has(D[Q[t]], e)
  BY DEF Has
<1>2. FiledIn(Q, D) = UNION {At(t) : t \in DOMAIN Q}
  BY Zenon DEF FiledIn
<1> HIDE DEF At
<1>3. \A p : (p \in UNION {At(t) : t \in DOMAIN Q}) <=> (\E t \in DOMAIN Q : p \in At(t))
  OBVIOUS
<1> QED BY <1>1, <1>2, <1>3

LEMMA HeldMembers ==
  ASSUME NEW P, NEW S, NEW A
  PROVE  \A p : p \in HeldIn(P, S, A)
           <=> (\E s \in Simulator : P[s] = "handle" /\ p = <<S[s].ts, A[s].event>>)
BY DEF HeldIn

(* What the accesses leave in a deque. *)
LEMMA EmplaceKeeps ==
  ASSUME NEW q \in Seq(Event), NEW e \in Event
  PROVE  /\ \A x : Has(<<e>> \o q, x) <=> x = e \/ Has(q, x)
         /\ \A x : Has(q \o <<e>>, x) <=> x = e \/ Has(q, x)
<1>1. \A i \in 1..(1 + Len(q)) : (<<e>> \o q)[i] = IF i = 1 THEN e ELSE q[i - 1]
  OBVIOUS
<1>2. \A i \in 1..(Len(q) + 1) : (q \o <<e>>)[i] = IF i = Len(q) + 1 THEN e ELSE q[i]
  OBVIOUS
<1>3. Len(<<e>> \o q) = 1 + Len(q) /\ Len(q \o <<e>>) = Len(q) + 1 /\ Len(q) \in Nat
  OBVIOUS
<1>4. \A x : Has(<<e>> \o q, x) => x = e \/ Has(q, x)
  BY <1>3, AddedAtAnEnd DEF Joins, Has
<1>5. \A x : Has(q \o <<e>>, x) => x = e \/ Has(q, x)
  BY <1>3, AddedAtAnEnd DEF Joins, Has
<1>6. Has(<<e>> \o q, e) /\ Has(q \o <<e>>, e)
  <2>1. 1 \in 1..(1 + Len(q)) /\ Len(q) + 1 \in 1..(Len(q) + 1)
    BY <1>3
  <2> QED BY <1>1, <1>2, <1>3, <2>1 DEF Has
<1>7. ASSUME NEW i \in 1..Len(q)
      PROVE  Has(<<e>> \o q, q[i]) /\ Has(q \o <<e>>, q[i])
  <2>1. /\ i + 1 \in 1..(1 + Len(q)) /\ i \in 1..(Len(q) + 1) /\ i # Len(q) + 1
        /\ i + 1 # 1 /\ (i + 1) - 1 = i
    BY <1>3
  <2>2. (<<e>> \o q)[i + 1] = q[i] /\ (q \o <<e>>)[i] = q[i]
    BY <1>1, <1>2, <2>1
  <2> QED BY <1>3, <2>1, <2>2 DEF Has
<1> QED BY <1>4, <1>5, <1>6, <1>7 DEF Has

LEMMA PopKeeps ==
  ASSUME NEW q \in Seq(Event), q # << >>
  PROVE  \A x : Has(q, x) <=> x = Head(q) \/ Has(Tail(q), x)
<1>1. Has(q, Head(q)) /\ \A x : Has(Tail(q), x) => Has(q, x)
  BY HeadTaken
<1>2. ASSUME NEW i \in 1..Len(q), i # 1
      PROVE  Has(Tail(q), q[i])
  <2>1. i - 1 \in 1..Len(Tail(q)) /\ Tail(q)[i - 1] = q[i]
    BY <1>2
  <2> QED BY <2>1 DEF Has
<1>3. Head(q) = q[1]
  OBVIOUS
<1> QED BY <1>1, <1>2, <1>3 DEF Has

LEMMA FiledMoves ==
  ASSUME TypeInv, DequesInv, HeldInv, IntactInv, OnceInv, NEW th \in Thread, Acts(th)
  PROVE  /\ Emplace(th) =>
              FiledIn(queue', deque') = FiledIn(queue, deque) \cup {<<arg[th].ts, arg[th].event>>}
         /\ th \in Simulator /\ Pop(th) =>
              FiledIn(queue, deque) = FiledIn(queue', deque') \cup {<<step[th].ts, arg[th].event>>}
         /\ ~(Emplace(th) \/ (th \in Simulator /\ Pop(th))) =>
              FiledIn(queue', deque') = FiledIn(queue, deque)
<1>1. \A p : p \in FiledIn(queue, deque)
        <=> (\E t \in DOMAIN queue : \E e : p = <<t, e>> /\ Has(deque[queue[t]], e))
  BY FiledMembers
<1>2. \A p : p \in FiledIn(queue', deque')
        <=> (\E t \in DOMAIN queue' : \E e : p = <<t, e>> /\ Has(deque'[queue'[t]], e))
  BY FiledMembers
<1>3. \A t \in DOMAIN queue : queue[t] \in DOMAIN deque /\ TimeOf(queue[t]) = t
  BY DEF DequesInv, Due
<1>4. \A e : ~Has(<< >>, e)
  BY DEF Has
<1>5. ASSUME Emplace(th)
      PROVE  FiledIn(queue', deque') = FiledIn(queue, deque) \cup {<<arg[th].ts, arg[th].event>>}
  <2> DEFINE d == ref[th]  x == arg[th].event  u == arg[th].ts
  <2>1. /\ d \in DOMAIN deque /\ x \in Event /\ Due(d, u) /\ queue' = queue
        /\ \/ deque'[d] = <<x>> \o deque[d] \/ deque'[d] = deque[d] \o <<x>>
        /\ \A c \in DOMAIN deque \ {d} : deque'[c] = deque[c]
    BY <1>5 DEF Emplace, Emplacing, Inserting, InsertingPC, HeldInv, Due, Live
  <2>2. u \in DOMAIN queue /\ queue[u] = d
    BY <2>1 DEF DequesInv, Due
  <2>3. \A t \in DOMAIN queue : t # u => queue[t] # d
    BY <1>3, <2>2
  <2>4. deque[d] \in Seq(Event)
    BY <2>1 DEF TypeInv
  <2> HIDE DEF d, x, u
  <2>5. \A e : Has(deque'[d], e) <=> e = x \/ Has(deque[d], e)
    <3>1. CASE deque'[d] = <<x>> \o deque[d]
      BY <2>1, <2>4, <3>1, EmplaceKeeps
    <3>2. CASE deque'[d] = deque[d] \o <<x>>
      BY <2>1, <2>4, <3>2, EmplaceKeeps
    <3> QED BY <2>1, <3>1, <3>2
  <2>6. \A t \in DOMAIN queue : \A e :
          Has(deque'[queue[t]], e) <=> (t = u /\ e = x) \/ Has(deque[queue[t]], e)
    BY <1>3, <2>1, <2>2, <2>3, <2>5
  <2>7. \A p : p \in FiledIn(queue', deque') <=> p \in FiledIn(queue, deque) \/ p = <<u, x>>
    <3>1. ASSUME NEW p \in FiledIn(queue', deque')
          PROVE  p \in FiledIn(queue, deque) \/ p = <<u, x>>
      <4>1. PICK t \in DOMAIN queue : \E e : p = <<t, e>> /\ Has(deque'[queue'[t]], e)
        BY <1>1, <1>2, <2>1, <3>1
      <4>2. PICK e : p = <<t, e>> /\ Has(deque'[queue'[t]], e)
        BY <4>1
      <4> QED BY <1>1, <1>2, <2>1, <2>6, <4>2
    <3>2. ASSUME NEW p \in FiledIn(queue, deque)
          PROVE  p \in FiledIn(queue', deque')
      <4>1. PICK t \in DOMAIN queue : \E e : p = <<t, e>> /\ Has(deque[queue[t]], e)
        BY <1>1, <1>2, <2>1, <3>2
      <4>2. PICK e : p = <<t, e>> /\ Has(deque[queue[t]], e)
        BY <4>1
      <4> QED BY <1>1, <1>2, <2>1, <2>6, <4>2
    <3>3. <<u, x>> \in FiledIn(queue', deque')
      BY <1>1, <1>2, <2>1, <2>2, <2>6
    <3> QED BY <3>1, <3>2, <3>3
  <2> QED BY <2>7 DEF u, x
<1>6. ASSUME th \in Simulator, Pop(th)
      PROVE  FiledIn(queue, deque) = FiledIn(queue', deque') \cup {<<step[th].ts, arg[th].event>>}
  <2> DEFINE d == TsQueue(th)  x == arg[th].event  u == step[th].ts
  <2>1. /\ d \in DOMAIN deque /\ Due(d, u) /\ queue' = queue
        /\ x = Head(deque[d]) /\ deque[d] # << >> /\ deque'[d] = Tail(deque[d])
        /\ \A c \in DOMAIN deque \ {d} : deque'[c] = deque[c]
    BY <1>6 DEF Pop, Goto, HasFront, Live, HeldInv, Stepping, SteppingPC, OnceInv
  <2>2. u \in DOMAIN queue /\ queue[u] = d
    BY <2>1 DEF DequesInv, Due
  <2>3. \A t \in DOMAIN queue : t # u => queue[t] # d
    BY <1>3, <2>2
  <2>4. deque[d] \in Seq(Event)
    BY <2>1 DEF TypeInv
  <2>5. \A e : Has(deque[d], e) <=> e = x \/ Has(deque'[d], e)
    BY <2>1, <2>4, PopKeeps
  <2> HIDE DEF d, x, u
  <2>6. \A t \in DOMAIN queue : \A e :
          Has(deque[queue[t]], e) <=> (t = u /\ e = x) \/ Has(deque'[queue[t]], e)
    BY <1>3, <2>1, <2>2, <2>3, <2>5
  <2>7. \A p : p \in FiledIn(queue, deque) <=> p \in FiledIn(queue', deque') \/ p = <<u, x>>
    <3>1. ASSUME NEW p \in FiledIn(queue, deque)
          PROVE  p \in FiledIn(queue', deque') \/ p = <<u, x>>
      <4>1. PICK t \in DOMAIN queue : \E e : p = <<t, e>> /\ Has(deque[queue[t]], e)
        BY <1>1, <1>2, <2>1, <3>1
      <4>2. PICK e : p = <<t, e>> /\ Has(deque[queue[t]], e)
        BY <4>1
      <4> QED BY <1>1, <1>2, <2>1, <2>6, <4>2
    <3>2. ASSUME NEW p \in FiledIn(queue', deque')
          PROVE  p \in FiledIn(queue, deque)
      <4>1. PICK t \in DOMAIN queue : \E e : p = <<t, e>> /\ Has(deque'[queue'[t]], e)
        BY <1>1, <1>2, <2>1, <3>2
      <4>2. PICK e : p = <<t, e>> /\ Has(deque'[queue'[t]], e)
        BY <4>1
      <4> QED BY <1>1, <1>2, <2>1, <2>6, <4>2
    <3>3. <<u, x>> \in FiledIn(queue, deque)
      BY <1>1, <1>2, <2>1, <2>2, <2>6
    <3> QED BY <3>1, <3>2, <3>3
  <2> QED BY <2>7 DEF u, x
<1>7. ASSUME Creates(th)
      PROVE  FiledIn(queue', deque') = FiledIn(queue, deque)
  <2> DEFINE x == arg[th].event  u == arg[th].ts
  <2>1. /\ queue' = [t \in DOMAIN queue \cup {u} |-> IF t = u THEN x ELSE queue[t]]
        /\ deque' = [c \in DOMAIN deque \cup {x} |-> IF c = x THEN << >> ELSE deque[c]]
        /\ u \notin DOMAIN queue
    BY <1>7 DEF Creates, Create
  <2>2. x \notin DOMAIN deque
    BY <1>7, <2>1 DEF Creates, Create, Goto, Inserting, InsertingPC, DequesInv, HeldInv, Due
  <2> HIDE DEF x, u
  <2>3. \A t \in DOMAIN queue : queue'[t] = queue[t] /\ deque'[queue'[t]] = deque[queue[t]]
    BY <1>3, <2>1, <2>2
  <2>4. deque'[queue'[u]] = << >> /\ DOMAIN queue' = DOMAIN queue \cup {u}
    BY <2>1
  <2>5. \A p : p \in FiledIn(queue', deque') <=> p \in FiledIn(queue, deque)
    BY <1>1, <1>2, <1>4, <2>3, <2>4
  <2> QED BY <2>5
<1>8. ASSUME th \in Simulator, Erase(th)
      PROVE  FiledIn(queue', deque') = FiledIn(queue, deque)
  <2> DEFINE d == TsQueue(th)  u == step[th].ts
  <2>1. /\ d \in DOMAIN deque /\ Due(d, u) /\ deque[d] = << >>
        /\ queue' = [t \in DOMAIN queue \ {u} |-> queue[t]]
        /\ deque' = [c \in DOMAIN deque \ {d} |-> deque[c]]
    BY <1>8 DEF Erase, Goto, Live, HeldInv, Stepping, SteppingPC, IntactInv
  <2>2. u \in DOMAIN queue /\ queue[u] = d
    BY <2>1 DEF DequesInv, Due
  <2> HIDE DEF d, u
  <2>3. \A t \in DOMAIN queue' :
          t \in DOMAIN queue /\ queue'[t] = queue[t] /\ deque'[queue'[t]] = deque[queue[t]]
    BY <1>3, <2>1, <2>2
  <2>4. \A e : ~Has(deque[queue[u]], e)
    BY <1>4, <2>1, <2>2
  <2>5. \A t \in DOMAIN queue : t \in DOMAIN queue' \/ t = u
    BY <2>1
  <2>6. \A p : p \in FiledIn(queue', deque') <=> p \in FiledIn(queue, deque)
    BY <1>1, <1>2, <2>3, <2>4, <2>5
  <2> QED BY <2>6
<1>9. ASSUME ~(Emplace(th) \/ (th \in Simulator /\ Pop(th)))
      PROVE  FiledIn(queue', deque') = FiledIn(queue, deque)
  <2>1. CASE Changes(th)
    BY <1>7, <1>8, <1>9, <2>1 DEF Changes
  <2>2. CASE ~Changes(th)
    <3>1. queue' = queue /\ deque' = deque
      BY <2>2, OthersKeepTheMap
    <3> QED BY <3>1, Zenon
  <2> QED BY <2>1, <2>2
<1> QED BY <1>5, <1>6, <1>9

(* The only event popped is that of the thread that acts. *)
LEMMA HeldMoves ==
  ASSUME TypeInv, NotedInv, NotesOverlap, NEW th \in Thread, Acts(th), overlapped' = {}
  PROVE  /\ IF th \in Simulator /\ pc[th] = "handle"
            THEN HeldIn(pc, step, arg) = {<<step[th].ts, arg[th].event>>}
            ELSE HeldIn(pc, step, arg) = {}
         /\ IF th \in Simulator /\ pc'[th] = "handle"
            THEN HeldIn(pc', step', arg') = {<<step'[th].ts, arg'[th].event>>}
            ELSE HeldIn(pc', step', arg') = {}
<1>1. \A s \in Simulator \ {th} : pc[s] = "idle" /\ pc'[s] = "idle"
  BY OverlapIsNoted, ActsLeaveOthers DEF OthersKept, Thread
<1>2. \A p : p \in HeldIn(pc, step, arg)
        <=> (th \in Simulator /\ pc[th] = "handle" /\ p = <<step[th].ts, arg[th].event>>)
  BY <1>1, HeldMembers
<1>3. \A p : p \in HeldIn(pc', step', arg')
        <=> (th \in Simulator /\ pc'[th] = "handle" /\ p = <<step'[th].ts, arg'[th].event>>)
  BY <1>1, HeldMembers
<1> QED BY <1>2, <1>3

(* Whatever a thread does, unless it handles or files an event, nothing    *)
(* changes in what waits.                                                  *)
LEMMA WaitingMoves ==
  ASSUME ThreadsInv, NotesOverlap, NEW th \in Thread, Acts(th), overlapped' = {}
  PROVE  /\ Emplace(th) => Waiting' = Waiting \cup {<<arg[th].ts, arg[th].event>>}
         /\ th \in Simulator /\ Handle(th) =>
              /\ <<step[th].ts, arg[th].event>> \in Waiting
              /\ <<step[th].ts, arg[th].event>> \notin Waiting'
              /\ Waiting = Waiting' \cup {<<step[th].ts, arg[th].event>>}
         /\ ~(Emplace(th) \/ (th \in Simulator /\ Handle(th))) => Waiting' = Waiting
<1>1. /\ TypeInv /\ DequesInv /\ HeldInv /\ NotedInv /\ IntactInv /\ OnceInv
      /\ overlapped = {}
  BY NotedStep DEF ThreadsInv, TwoSimulate
<1>2. /\ Waiting = FiledIn(queue, deque) \cup HeldIn(pc, step, arg)
      /\ Waiting' = FiledIn(queue', deque') \cup HeldIn(pc', step', arg')
  BY WaitingSplits
<1>3. /\ IF th \in Simulator /\ pc[th] = "handle"
         THEN HeldIn(pc, step, arg) = {<<step[th].ts, arg[th].event>>}
         ELSE HeldIn(pc, step, arg) = {}
      /\ IF th \in Simulator /\ pc'[th] = "handle"
         THEN HeldIn(pc', step', arg') = {<<step'[th].ts, arg'[th].event>>}
         ELSE HeldIn(pc', step', arg') = {}
  BY <1>1, HeldMoves
<1>4. /\ DOMAIN pc = Thread /\ Simulator \subseteq Thread
      /\ th \in Simulator /\ pc'[th] = "handle" => Pop(th)
  BY <1>1, ComesTo DEF TypeInv, Thread
<1>5. /\ Emplace(th) => pc[th] \in {"emplace", "emplace_back"}
      /\ Pop(th) => pc[th] = "pop" /\ pc'[th] = "handle" /\ UNCHANGED <<step, arg>>
      /\ Handle(th) => pc[th] = "handle" /\ pc'[th] # "handle"
  BY <1>4 DEF Emplace, Emplacing, Pop, Handle, Goto
<1>6. th \in Simulator /\ pc[th] = "handle" => Handle(th)
  BY ThreadsAssumption
     DEF Acts, Serve, Simulate, SimulateNextStep, Insert, Check, Drop, Find, FindNothing, Create,
         Emplace, Emplacing, EmplaceBreaks, Enter, Begins, Return, Test, LookInVain, Look,
               Read, Pop,
         FrontBreaks, Finish, Erase, EndBreaks, Tick, Goto
<1>7. CASE Emplace(th)
  <2>1. HeldIn(pc, step, arg) = {} /\ HeldIn(pc', step', arg') = {}
    BY <1>3, <1>4, <1>5, <1>7
  <2> QED BY <1>1, <1>2, <1>5, <1>7, <2>1, FiledMoves
<1>8. CASE th \in Simulator /\ Handle(th)
  <2> DEFINE p == <<step[th].ts, arg[th].event>>
  <2>1. HeldIn(pc, step, arg) = {p} /\ HeldIn(pc', step', arg') = {}
    BY <1>3, <1>4, <1>5, <1>8
  <2>2. FiledIn(queue', deque') = FiledIn(queue, deque)
    BY <1>1, <1>5, <1>8, FiledMoves
  <2>3. p \notin FiledIn(queue, deque)
    <3>1. ~Filed(arg[th].event)
      BY <1>1, <1>8, HandledEvent
    <3> QED BY <1>1, <3>1, FiledMembers DEF Filed, DequesInv
  <2> QED BY <1>2, <1>5, <1>8, <2>1, <2>2, <2>3
<1>9. CASE th \in Simulator /\ Pop(th)
  <2>1. /\ HeldIn(pc, step, arg) = {}
        /\ HeldIn(pc', step', arg') = {<<step[th].ts, arg[th].event>>}
    BY <1>3, <1>5, <1>9
  <2> QED BY <1>1, <1>2, <1>5, <1>9, <2>1, FiledMoves
<1>10. CASE ~(Emplace(th) \/ (th \in Simulator /\ (Pop(th) \/ Handle(th))))
  <2>1. HeldIn(pc, step, arg) = {} /\ HeldIn(pc', step', arg') = {}
    BY <1>3, <1>4, <1>6, <1>10
  <2> QED BY <1>1, <1>2, <1>10, <2>1, FiledMoves
<1> QED BY <1>7, <1>8, <1>9, <1>10

(* While nothing is overlapped no event is dropped: a command is filed for *)
(* the time it has read, a completion for the step's time or later.        *)
LEMMA NoneDropped ==
  ASSUME TypeInv, HeldInv, TimeInv, NEW th \in Thread, overlapped = {}
  PROVE  ~Drop(th)
<1> SUFFICES ASSUME Drop(th) PROVE FALSE
  OBVIOUS
<1>1. Inserting(th) /\ arg[th].ts < now /\ now \in Nat /\ pc[th] = "check"
  BY DEF Drop, Goto, Inserting, InsertingPC, TypeInv
<1>2. CASE th \in Caller
  BY <1>1, <1>2 DEF TimeInv
<1>3. CASE th \in Simulator
  <2>1. arg[th].ts = step[th].ts + Delay /\ now = step[th].ts
    BY <1>1, <1>3 DEF HeldInv, TimeInv, Stepping, SteppingPC, InsertingPC
  <2> QED BY <1>1, <2>1, ThreadsAssumption
<1> QED BY <1>2, <1>3 DEF Thread

(* What a step that overlaps nothing does is a step of Agenda. *)
LEMMA AgendaStep ==
  ASSUME ThreadsInv, ThreadsNext, overlapped' = {}
  PROVE  TheAgenda!AgendaNext
<1>1. PICK th \in Thread : Acts(th)
  BY NextActs
<1>2. NotesOverlap
  BY NextActs
<1>3. /\ TypeInv /\ DequesInv /\ HeldInv /\ NotedInv /\ TimeInv /\ OnceInv
      /\ overlapped = {} /\ ~TwoSimulate' /\ TypeInv'
  BY <1>2, NotedStep, ThreadsInvStep DEF ThreadsInv, TwoSimulate
<1>4. /\ DOMAIN known \subseteq DOMAIN known'
      /\ DOMAIN known' \ DOMAIN known = IF Emplace(th) THEN {arg[th].event} ELSE {}
      /\ \A e \in DOMAIN known : known'[e] = known[e]
      /\ Emplace(th) => known'[arg[th].event] = arg[th].ts
      /\ handled' = handled \/ (th \in Simulator /\ Handle(th))
      /\ last' = last \/ (th \in Simulator /\ Handle(th))
  <2>1. Adds(th) <=> Emplace(th)
    BY <1>3, NoneDropped DEF Adds
  <2>2. Adds(th) => arg[th].event \notin DOMAIN known
    BY <1>1, <1>3, HistoryMoves DEF OnceInv
  <2>3. CASE Adds(th)
    <3>1. known' = [e \in DOMAIN known \cup {arg[th].event} |->
                      IF e = arg[th].event THEN arg[th].ts ELSE known[e]]
      BY <1>1, <1>3, <2>3, HistoryMoves DEF Noticed
    <3> QED BY <1>1, <1>3, <2>1, <2>2, <2>3, <3>1, HistoryMoves, TimesMove
  <2>4. CASE ~Adds(th)
    BY <1>1, <1>3, <2>1, <2>4, HistoryMoves, TimesMove
  <2> QED BY <2>3, <2>4
<1>5. CASE Emplace(th)
  <2> DEFINE p == <<arg[th].ts, arg[th].event>>
  <2>1. Waiting' = Waiting \cup {p}
    BY <1>1, <1>2, <1>5, WaitingMoves
  <2>2. handled' = handled /\ last' = last
    BY <1>5 DEF Emplace
  <2>3. arg[th].event \in Event /\ arg[th].ts \in Nat
    BY <1>3, <1>5 DEF Emplace, Emplacing, Inserting, InsertingPC, HeldInv, Due, OnceInv, TypeInv
  <2>4. arg[th].ts >= last
    BY <1>1, <1>2, <1>3, <1>5, FiledInTime
  <2>5. TheAgenda!Accepts(Waiting, last, last + 1)
    BY <1>4, <1>5, <2>1, <2>3, <2>4 DEF TheAgenda!Accepts
  <2> QED BY <2>2, <2>5 DEF TheAgenda!AgendaNext, TheAgenda!Plan
<1>6. CASE th \in Simulator /\ Handle(th)
  <2> DEFINE e == arg[th].event  p == <<step[th].ts, e>>
  <2>1. p \in Waiting /\ p \notin Waiting' /\ Waiting = Waiting' \cup {p}
    BY <1>1, <1>2, <1>6, WaitingMoves
  <2>2. /\ e \in Event /\ handled[e] = 0 /\ handled' = [handled EXCEPT ![e] = 1]
        /\ last' = step[th].ts /\ pc[th] = "handle" /\ step[th].ts \in Nat
    BY <1>3, <1>6, HandledEvent DEF Handle, TypeInv
  <2>3. {x \in Event : handled'[x] > 0} = {x \in Event : handled[x] > 0} \cup {e}
    BY <1>3, <2>2 DEF TypeInv
  <2>4. ASSUME NEW q \in Waiting
        PROVE  step[th].ts <= q[1]
    <3>1. CASE q \in FiledIn(queue, deque)
      <4>1. PICK t \in DOMAIN queue : \E x : q = <<t, x>> /\ Has(deque[queue[t]], x)
        BY <3>1, FiledMembers
      <4>2. q[1] = t /\ OnTimeAt(t)
        BY <1>3, <4>1 DEF OnTimeAt, Has
      <4>3. t >= step[th].ts
        BY <1>3, <1>6, <2>2, <4>2 DEF TimeInv, Taking, TakingPC
      <4>4. t \in Nat
        BY <1>3 DEF TypeInv
      <4> QED BY <2>2, <4>2, <4>3, <4>4
    <3>2. CASE q \in HeldIn(pc, step, arg)
      <4>1. q = p
        BY <1>1, <1>2, <1>3, <1>6, <2>2, <3>2, HeldMoves
      <4> QED BY <2>2, <4>1
    <3> QED BY <3>1, <3>2, WaitingSplits
  <2>a. ~Emplace(th)
    BY <1>6 DEF Handle, Emplace, Emplacing
  <2>5. TheAgenda!Accepts(Waiting \ {p}, p[1], p[1])
    BY <1>4, <2>1, <2>a DEF TheAgenda!Accepts
  <2>6. PICK q \in Waiting : q = p
    BY <2>1
  <2>7. TheAgenda!Handle(q)
    BY <2>1, <2>2, <2>3, <2>4, <2>5, <2>6 DEF TheAgenda!Handle
  <2> QED BY <2>7 DEF TheAgenda!AgendaNext
<1>7. CASE ~(Emplace(th) \/ (th \in Simulator /\ Handle(th)))
  <2>1. Waiting' = Waiting /\ handled' = handled /\ last' = last
    BY <1>1, <1>2, <1>4, <1>7, WaitingMoves
  <2>2. TheAgenda!Accepts(Waiting, last, last + 1)
    BY <1>4, <1>7, <2>1 DEF TheAgenda!Accepts
  <2> QED BY <2>1, <2>2 DEF TheAgenda!AgendaNext, TheAgenda!Plan
<1> QED BY <1>5, <1>6, <1>7

LEMMA AgendaStart == ThreadsInit => TheAgenda!AgendaInit
<1> SUFFICES ASSUME ThreadsInit PROVE TheAgenda!AgendaInit
  OBVIOUS
<1>1. /\ queue = << >> /\ DOMAIN queue = {} /\ DOMAIN known = {} /\ last = 0
      /\ \A s \in Simulator : pc[s] # "handle"
      /\ \A e \in Event : handled[e] = 0
  BY DEF ThreadsInit, Thread
<1>2. FiledIn(queue, deque) = {}
  BY <1>1, FiledMembers
<1>3. HeldIn(pc, step, arg) = {}
  BY <1>1, HeldMembers
<1>4. Waiting = {}
  BY <1>2, <1>3, WaitingSplits
<1>5. {e \in Event : handled[e] > 0} = {}
  BY <1>1
<1> QED BY <1>1, <1>4, <1>5 DEF TheAgenda!AgendaInit

(* As long as no RPC is served during another's SimulateAll, every access  *)
(* of every thread keeps the promise of Agenda.                            *)
THEOREM ThreadsKeepTheAgenda == ThreadsSpec => AgendaKept
<1>1. ThreadsInv /\ [ThreadsNext]_threadVars =>
        [overlapped' = {} => TheAgenda!AgendaNext]_<<Waiting, known, handled, last, overlapped>>
  <2> SUFFICES ASSUME ThreadsInv, [ThreadsNext]_threadVars
               PROVE  [overlapped' = {} => TheAgenda!AgendaNext
                        ]_<<Waiting, known, handled, last, overlapped>>
    OBVIOUS
  <2>1. CASE ThreadsNext
    BY <2>1, AgendaStep
  <2>2. CASE UNCHANGED threadVars
    <3>1. Waiting' = Waiting
      BY <2>2, WaitingSplits DEF threadVars
    <3> QED BY <2>2, <3>1 DEF threadVars
  <2> QED BY <2>1, <2>2
<1> QED BY <1>1, AgendaStart, ThreadsKeepTheirBooks, PTL DEF ThreadsSpec, AgendaKept

=============================================================================
