--------------------------- MODULE EventQueueProofs ---------------------------
(***************************************************************************)
(* What Insert and EndOfStep do to the queue, for every queue and every    *)
(* set of events: the facts the proofs about the components cite.          *)
(***************************************************************************)
EXTENDS EventQueue, TLAPS

(* The queue a step works on before it drops an emptied deque: the deque   *)
(* of t has lost its head and out is filed for time at.                    *)
Stepped(t, at, out) == Insert([queue EXCEPT ![t] = Tail(@)], t, at, out, FALSE)

-----------------------------------------------------------------------------
(* The work queue of a step: every deque other than those of t and at is   *)
(* as before, that of t has lost its head, that of at has gained out.      *)
SteppedAsExpected(E, t, at, out) ==
  LET r == Stepped(t, at, out)
  IN  /\ DOMAIN r \subseteq Nat
      /\ DOMAIN queue \subseteq DOMAIN r
      /\ \A u \in DOMAIN r : r[u] \in Seq(E)
      /\ \A u \in DOMAIN r \ {t} : r[u] # << >>
      /\ \A u \in DOMAIN queue \ {t, at} : r[u] = queue[u]
      /\ at # t => r[t] = Tail(queue[t])
      /\ at \in DOMAIN queue \ {t} => r[at] = queue[at] \o out
      /\ at = t => r[at] = Tail(queue[t]) \o out
      /\ at \in DOMAIN r \ DOMAIN queue => r[at] = out
      /\ out # << >> => at \in DOMAIN r

LEMMA SteppedQueue ==
  ASSUME NEW E, QueueTypeOK(E), NEW t \in DOMAIN queue,
         NEW STATE at, at \in Nat, at >= t, NEW STATE out, out \in Seq(E)
  PROVE  SteppedAsExpected(E, t, at, out)
<1> DEFINE q == [queue EXCEPT ![t] = Tail(@)]
           r == Insert(q, t, at, out, FALSE)
<1>1. queue[t] \in Seq(E) /\ queue[t] # << >> /\ t \in Nat
  BY DEF QueueTypeOK
<1>2. Tail(queue[t]) \in Seq(E)
  BY <1>1
<1>3. DOMAIN q = DOMAIN queue /\ q[t] = Tail(queue[t])
  OBVIOUS
<1>4. \A u \in DOMAIN queue \ {t} : q[u] = queue[u]
  OBVIOUS
<1>5. \A u \in DOMAIN q : q[u] \in Seq(E)
  BY <1>2, <1>3, <1>4 DEF QueueTypeOK
<1>6. DOMAIN q \subseteq Nat
  BY <1>3 DEF QueueTypeOK
<1>a. r = Insert(q, t, at, out, FALSE)
  OBVIOUS
<1> HIDE DEF q, r
<1>b. out = << >> => r = q
  BY <1>a DEF Insert
<1>c. out # << >> => r = [u \in DOMAIN q \cup {at} |-> IF u = at THEN At(q, at) \o out ELSE q[u]]
  BY <1>1, <1>a DEF Insert, Put
<1>d. At(q, at) \in Seq(E) /\ At(q, at) \o out \in Seq(E)
  BY <1>5 DEF At
<1>e. \A s \in Seq(E) : s \o << >> = s /\ << >> \o s = s
  OBVIOUS
<1>7. /\ DOMAIN r \subseteq Nat
      /\ DOMAIN q \subseteq DOMAIN r
      /\ \A u \in DOMAIN r : r[u] \in Seq(E)
      /\ \A u \in DOMAIN q : u # at => r[u] = q[u]
      /\ at \in DOMAIN q => r[at] = q[at] \o out
      /\ out # << >> => at \in DOMAIN r
      /\ at \in DOMAIN r \ DOMAIN q => r[at] = out
      /\ DOMAIN r \subseteq DOMAIN q \cup {at}
      /\ at \in DOMAIN r \ DOMAIN q => out # << >>
  <2>1. CASE out = << >>
    BY <2>1, <1>5, <1>6, <1>b, <1>e
  <2>2. CASE out # << >>
    BY <2>2, <1>5, <1>6, <1>c, <1>d, <1>e DEF At
  <2> QED BY <2>1, <2>2
<1>8. \A u \in DOMAIN r \ {t} : r[u] # << >>
  <2> SUFFICES ASSUME NEW u \in DOMAIN r \ {t} PROVE r[u] # << >>
    OBVIOUS
  <2>1. CASE u \in DOMAIN queue
    <3>1. queue[u] \in Seq(E) /\ queue[u] # << >>
      BY <2>1 DEF QueueTypeOK
    <3>2. queue[u] \o out # << >>
      BY <3>1
    <3> QED BY <2>1, <3>1, <3>2, <1>3, <1>4, <1>7
  <2>2. CASE u \notin DOMAIN queue
    BY <2>2, <1>3, <1>7
  <2> QED BY <2>1, <2>2
<1>9. Stepped(t, at, out) = r
  BY DEF Stepped, r, q
<1> QED
  BY <1>3, <1>4, <1>7, <1>8, <1>9 DEF SteppedAsExpected

(* The two outcomes of a step in terms of its work queue: kept whole, or   *)
(* with the empty deque of t replaced by what update_world() schedules.    *)
LEMMA StepOutcome ==
  ASSUME NEW t, NEW STATE at, NEW STATE out, NEW ACTION updates, EndOfStep(t, at, out, updates)
  PROVE  LET r == Stepped(t, at, out)
         IN  \/ r[t] # << >> /\ queue' = r /\ now' = t
             \/ /\ r[t] = << >>
                /\ now' = t + 1
                /\ \/ queue' = Erase(r, t)
                   \/ \E u \in updates : u # << >> /\ queue' = Put(r, t, u)
<1> QED BY DEF EndOfStep, Stepped

(* A step leaves a well-typed queue behind. *)
LEMMA StepQueueType ==
  ASSUME NEW E, QueueTypeOK(E), NEW t \in DOMAIN queue,
         NEW STATE at, at \in Nat, at >= t, NEW STATE out, out \in Seq(E),
         NEW ACTION updates, \A u \in updates : u \in Seq(E),
         EndOfStep(t, at, out, updates)
  PROVE  QueueTypeOK(E)'
<1> DEFINE r == Stepped(t, at, out)
<1>0. SteppedAsExpected(E, t, at, out)
  BY SteppedQueue
<1>1. /\ DOMAIN r \subseteq Nat
      /\ DOMAIN queue \subseteq DOMAIN r
      /\ \A u \in DOMAIN r : r[u] \in Seq(E)
      /\ \A u \in DOMAIN r \ {t} : r[u] # << >>
  BY <1>0 DEF SteppedAsExpected
<1>2. t \in Nat
  BY DEF QueueTypeOK
<1>3. \/ r[t] # << >> /\ queue' = r /\ now' = t
      \/ /\ r[t] = << >>
         /\ now' = t + 1
         /\ \/ queue' = Erase(r, t)
            \/ \E u \in updates : u # << >> /\ queue' = Put(r, t, u)
  BY StepOutcome
<1> HIDE DEF r
<1>4. CASE r[t] # << >> /\ queue' = r /\ now' = t
  BY <1>1, <1>2, <1>4 DEF QueueTypeOK
<1>5. CASE now' = t + 1 /\ queue' = Erase(r, t)
  BY <1>1, <1>2, <1>5 DEF QueueTypeOK, Erase
<1>6. CASE now' = t + 1 /\ \E u \in updates : u # << >> /\ queue' = Put(r, t, u)
  BY <1>1, <1>2, <1>6 DEF QueueTypeOK, Put
<1> QED BY <1>3, <1>4, <1>5, <1>6

-----------------------------------------------------------------------------
(* Whatever is filed in the work queue is filed after the step. *)
LEMMA WorkIsKept ==
  ASSUME NEW E, QueueTypeOK(E), NEW t \in DOMAIN queue,
         NEW STATE at, at \in Nat, at >= t, NEW STATE out, out \in Seq(E),
         NEW ACTION updates, EndOfStep(t, at, out, updates),
         NEW u \in DOMAIN Stepped(t, at, out),
         NEW j \in 1..Len(Stepped(t, at, out)[u])
  PROVE  /\ u \in DOMAIN queue'
         /\ j \in 1..Len(queue'[u])
         /\ queue'[u][j] = Stepped(t, at, out)[u][j]
<1> DEFINE r == Stepped(t, at, out)
<1>1. \/ r[t] # << >> /\ queue' = r /\ now' = t
      \/ /\ r[t] = << >>
         /\ now' = t + 1
         /\ \/ queue' = Erase(r, t)
            \/ \E w \in updates : w # << >> /\ queue' = Put(r, t, w)
  BY StepOutcome
<1>2. u \in DOMAIN r /\ j \in 1..Len(r[u])
  OBVIOUS
<1> HIDE DEF r
<1>3. CASE queue' = r
  BY <1>2, <1>3 DEF r
<1>4. CASE r[t] = << >> /\ queue' = Erase(r, t)
  <2>1. u # t
    BY <1>2, <1>4
  <2> QED BY <1>2, <1>4, <2>1 DEF Erase, r
<1>5. CASE r[t] = << >> /\ \E w \in updates : queue' = Put(r, t, w)
  <2>1. u # t
    BY <1>2, <1>5
  <2> QED BY <1>2, <1>5, <2>1 DEF Put, r
<1> QED BY <1>1, <1>3, <1>4, <1>5

(* A step keeps every event filed, except the one it handles. *)
LEMMA StepKeeps ==
  ASSUME NEW E, QueueTypeOK(E), NEW t \in DOMAIN queue,
         NEW STATE at, at \in Nat, at >= t, NEW STATE out, out \in Seq(E),
         NEW ACTION updates, EndOfStep(t, at, out, updates),
         NEW e, Queued(e), e # NextEvent(t)
  PROVE  Queued(e)'
<1> DEFINE r == Stepped(t, at, out)
<1>0. SteppedAsExpected(E, t, at, out)
  BY SteppedQueue
<1>4. /\ DOMAIN queue \subseteq DOMAIN r
      /\ \A w \in DOMAIN queue \ {t, at} : r[w] = queue[w]
      /\ at # t => r[t] = Tail(queue[t])
      /\ at \in DOMAIN queue \ {t} => r[at] = queue[at] \o out
      /\ at = t => r[at] = Tail(queue[t]) \o out
  BY <1>0 DEF SteppedAsExpected
<1>1. PICK u \in DOMAIN queue : \E i \in 1..Len(queue[u]) : queue[u][i] = e
  BY DEF Queued, QueuedAt
<1>2. PICK i \in 1..Len(queue[u]) : queue[u][i] = e
  BY <1>1
<1>3. queue[u] \in Seq(E) /\ queue[t] \in Seq(E) \ {<< >>}
  BY DEF QueueTypeOK
<1>5. u \in DOMAIN r /\ \E j \in 1..Len(r[u]) : r[u][j] = e
  <2> HIDE DEF r
  <2>1. CASE u # t /\ u # at
    BY <1>2, <1>4, <2>1
  <2>2. CASE u # t /\ u = at
    <3>1. r[u] = queue[u] \o out
      BY <1>4, <2>2
    <3>2. i \in 1..Len(r[u]) /\ r[u][i] = e
      BY <1>2, <1>3, <3>1
    <3> QED BY <1>4, <3>2
  <2>3. CASE u = t
    <3>1. i # 1
      BY <1>2, <1>3, <2>3 DEF NextEvent
    <3>2. /\ i - 1 \in 1..Len(Tail(queue[t]))
          /\ Tail(queue[t])[i - 1] = e
          /\ Tail(queue[t]) \in Seq(E)
      BY <1>2, <1>3, <2>3, <3>1
    <3>3. i - 1 \in 1..Len(Tail(queue[t]) \o out) /\ (Tail(queue[t]) \o out)[i - 1] = e
      BY <3>2
    <3>4. CASE at = t
      BY <1>4, <2>3, <3>3, <3>4
    <3>5. CASE at # t
      BY <1>4, <2>3, <3>2, <3>5
    <3> QED BY <3>4, <3>5
  <2> QED BY <2>1, <2>2, <2>3
<1>6. PICK j \in 1..Len(r[u]) : r[u][j] = e
  BY <1>5
<1>7. u \in DOMAIN queue' /\ j \in 1..Len(queue'[u]) /\ queue'[u][j] = e
  BY <1>5, <1>6, WorkIsKept
<1> QED BY <1>7 DEF Queued, QueuedAt

(* A step files every event it schedules. *)
LEMMA StepFiles ==
  ASSUME NEW E, QueueTypeOK(E), NEW t \in DOMAIN queue,
         NEW STATE at, at \in Nat, at >= t, NEW STATE out, out \in Seq(E),
         NEW ACTION updates, EndOfStep(t, at, out, updates),
         NEW i \in 1..Len(out), NEW e, e = out[i]
  PROVE  Queued(e)'
<1> DEFINE r == Stepped(t, at, out)
<1>0. SteppedAsExpected(E, t, at, out)
  BY SteppedQueue
<1>1. /\ \A u \in DOMAIN r : r[u] \in Seq(E)
      /\ at \in DOMAIN queue \ {t} => r[at] = queue[at] \o out
      /\ at = t => r[at] = Tail(queue[t]) \o out
      /\ at \in DOMAIN r \ DOMAIN queue => r[at] = out
      /\ out # << >> => at \in DOMAIN r
  BY <1>0 DEF SteppedAsExpected
<1>2. at \in DOMAIN r
  BY <1>1
<1>3. \E s \in Seq(E) : r[at] = s \o out
  <2> HIDE DEF r
  <2>1. CASE at \in DOMAIN queue \ {t}
    BY <1>1, <2>1 DEF QueueTypeOK
  <2>2. CASE at = t
    <3>1. Tail(queue[t]) \in Seq(E)
      BY DEF QueueTypeOK
    <3> QED BY <1>1, <2>2, <3>1
  <2>3. CASE at \notin DOMAIN queue
    <3>1. r[at] = << >> \o out
      BY <1>1, <1>2, <2>3
    <3>2. << >> \in Seq(E)
      OBVIOUS
    <3> QED BY <3>1, <3>2
  <2> QED BY <2>1, <2>2, <2>3
<1>4. PICK s \in Seq(E) : r[at] = s \o out
  BY <1>3
<1>5. Len(s) + i \in 1..Len(r[at]) /\ r[at][Len(s) + i] = out[i]
  <2> HIDE DEF r
  <2> QED BY <1>4
<1>6. /\ at \in DOMAIN queue'
      /\ Len(s) + i \in 1..Len(queue'[at])
      /\ queue'[at][Len(s) + i] = out[i]
  BY <1>2, <1>5, WorkIsKept
<1> QED BY <1>6 DEF Queued, QueuedAt

-----------------------------------------------------------------------------
(* An event filed for any time, at either end of its deque, or dropped as  *)
(* one of the past, leaves a well-typed queue that still holds every event *)
(* it held.                                                                *)
LEMMA InsertKeeps ==
  ASSUME NEW E, QueueTypeOK(E), NEW e \in E, NEW immediate \in BOOLEAN,
         NEW STATE clock, NEW STATE time, time \in Nat,
         queue' = Insert(queue, clock, time, <<e>>, immediate), now' = now
  PROVE  QueueTypeOK(E)' /\ \A f : Queued(f) => Queued(f)'
<1> DEFINE d == IF immediate THEN <<e>> \o At(queue, time) ELSE At(queue, time) \o <<e>>
<1>0. CASE time < clock
  BY <1>0 DEF Insert, QueueTypeOK, Queued, QueuedAt
<1> SUFFICES ASSUME ~(time < clock) PROVE QueueTypeOK(E)' /\ \A f : Queued(f) => Queued(f)'
  BY <1>0
<1>2. queue' = [u \in DOMAIN queue \cup {time} |-> IF u = time THEN d ELSE queue[u]]
  BY DEF Insert, Put
<1>3. At(queue, time) \in Seq(E)
  <2>1. << >> \in Seq(E)
    OBVIOUS
  <2> QED BY <2>1 DEF At, QueueTypeOK
<1>4. d \in Seq(E) /\ d # << >>
  BY <1>3
<1>5. QueueTypeOK(E)'
  BY <1>2, <1>4 DEF QueueTypeOK
<1>6. ASSUME NEW f, Queued(f) PROVE Queued(f)'
  <2>1. PICK u \in DOMAIN queue : \E i \in 1..Len(queue[u]) : queue[u][i] = f
    BY <1>6 DEF Queued, QueuedAt
  <2>2. PICK i \in 1..Len(queue[u]) : queue[u][i] = f
    BY <2>1
  <2>3. queue[u] \in Seq(E)
    BY DEF QueueTypeOK
  <2>4. \E j \in 1..Len(queue'[u]) : queue'[u][j] = f
    <3>1. CASE u # time
      BY <1>2, <2>2, <3>1
    <3>2. CASE u = time /\ immediate
      <4>1. queue'[u] = <<e>> \o queue[u]
        BY <1>2, <3>2 DEF At
      <4>2. i + 1 \in 1..Len(<<e>> \o queue[u]) /\ (<<e>> \o queue[u])[i + 1] = f
        BY <2>2, <2>3
      <4> QED BY <4>1, <4>2
    <3>3. CASE u = time /\ ~immediate
      <4>1. queue'[u] = queue[u] \o <<e>>
        BY <1>2, <3>3 DEF At
      <4>2. i \in 1..Len(queue[u] \o <<e>>) /\ (queue[u] \o <<e>>)[i] = f
        BY <2>2, <2>3
      <4> QED BY <4>1, <4>2
    <3> QED BY <3>1, <3>2, <3>3
  <2>5. u \in DOMAIN queue'
    BY <1>2
  <2> QED BY <2>4, <2>5 DEF Queued, QueuedAt
<1> QED BY <1>5, <1>6

(* A command is filed for the present. *)
LEMMA InsertNow ==
  ASSUME NEW E, QueueTypeOK(E), NEW e \in E, NEW immediate \in BOOLEAN,
         queue' = Insert(queue, now, now, <<e>>, immediate), now' = now
  PROVE  QueueTypeOK(E)' /\ \A f : Queued(f) => Queued(f)'
<1>1. now \in Nat
  BY DEF QueueTypeOK
<1> QED BY <1>1, InsertKeeps

-----------------------------------------------------------------------------
(* Where the event at position i of the deque of time u comes from when a  *)
(* step for time t has been done: it was in another deque, it has moved up *)
(* in that of t, it was scheduled by the step, or update_world() has       *)
(* scheduled the whole deque.                                              *)
WasFiled(t, u, i) ==
  /\ u \in DOMAIN queue \ {t}
  /\ i \in 1..Len(queue[u])
  /\ queue'[u][i] = queue[u][i]

HasMovedUp(t, u, i) ==
  /\ u = t
  /\ i + 1 \in 1..Len(queue[t])
  /\ queue'[u][i] = queue[t][i + 1]

IsNew(t, at, out, u, i) ==
  /\ u = at
  /\ \E k \in 1..Len(out) :
       /\ queue'[u][i] = out[k]
       /\ i = k + (IF u = t THEN Len(queue[t]) - 1 ELSE Len(At(queue, u)))

IsUpdate(t, updates, u) ==
  /\ u = t
  /\ Len(queue[t]) = 1
  /\ queue'[t] \in updates

(* Every event that waits after a step comes from one of the four.         *)
LEMMA StepSources ==
  ASSUME NEW E, QueueTypeOK(E), NEW t \in DOMAIN queue,
         NEW STATE at, at \in Nat, at >= t, NEW STATE out, out \in Seq(E),
         NEW ACTION updates, EndOfStep(t, at, out, updates),
         NEW u \in DOMAIN queue', NEW i \in 1..Len(queue'[u])
  PROVE  \/ WasFiled(t, u, i)
         \/ HasMovedUp(t, u, i)
         \/ IsNew(t, at, out, u, i)
         \/ IsUpdate(t, updates, u)
<1> DEFINE r == Stepped(t, at, out)
<1>0. SteppedAsExpected(E, t, at, out)
  BY SteppedQueue
<1>1. /\ DOMAIN queue \subseteq DOMAIN r
      /\ \A w \in DOMAIN r : r[w] \in Seq(E)
      /\ \A w \in DOMAIN queue \ {t, at} : r[w] = queue[w]
      /\ at # t => r[t] = Tail(queue[t])
      /\ at \in DOMAIN queue \ {t} => r[at] = queue[at] \o out
      /\ at = t => r[at] = Tail(queue[t]) \o out
      /\ at \in DOMAIN r \ DOMAIN queue => r[at] = out
  BY <1>0 DEF SteppedAsExpected
<1>2. DOMAIN r \subseteq DOMAIN queue \cup {at}
  BY DEF Stepped, Insert, Put
<1>3. /\ queue[t] \in Seq(E) /\ queue[t] # << >> /\ Len(queue[t]) \in Nat \ {0}
      /\ Tail(queue[t]) \in Seq(E) /\ Len(Tail(queue[t])) = Len(queue[t]) - 1
      /\ \A j \in 1..(Len(queue[t]) - 1) : Tail(queue[t])[j] = queue[t][j + 1]
      /\ \A w \in DOMAIN queue : queue[w] \in Seq(E)
  BY DEF QueueTypeOK
<1>4. ASSUME u \in DOMAIN r, queue'[u] = r[u]
      PROVE  WasFiled(t, u, i) \/ HasMovedUp(t, u, i) \/ IsNew(t, at, out, u, i)
  <2> HIDE DEF r
  <2>1. CASE u # t /\ u # at
    BY <1>1, <1>2, <1>4, <2>1 DEF WasFiled
  <2>2. CASE u # t /\ u = at /\ u \in DOMAIN queue
    <3>1. queue'[u] = queue[u] \o out /\ queue[u] \in Seq(E)
      BY <1>1, <1>3, <1>4, <2>2
    <3>2. CASE i <= Len(queue[u])
      BY <2>2, <3>1, <3>2 DEF WasFiled
    <3>3. CASE i > Len(queue[u])
      <4>1. i - Len(queue[u]) \in 1..Len(out) /\ queue'[u][i] = out[i - Len(queue[u])]
        BY <3>1, <3>3
      <4>2. At(queue, u) = queue[u] /\ i = (i - Len(queue[u])) + Len(queue[u])
        BY <2>2, <3>1 DEF At
      <4> QED BY <2>2, <4>1, <4>2 DEF IsNew
    <3> QED BY <3>1, <3>2, <3>3
  <2>3. CASE u = at /\ u \notin DOMAIN queue
    <3>1. queue'[u] = out /\ u # t
      BY <1>1, <1>4, <2>3
    <3>2. At(queue, u) = << >> /\ Len(<< >>) = 0
      BY <2>3 DEF At
    <3> QED BY <2>3, <3>1, <3>2 DEF IsNew
  <2>4. CASE u = t
    <3>1. \/ at # t /\ queue'[u] = Tail(queue[t])
          \/ at = t /\ queue'[u] = Tail(queue[t]) \o out
      BY <1>1, <1>4, <2>4
    <3>2. CASE i < Len(queue[t])
      <4>1. i + 1 \in 1..Len(queue[t]) /\ queue'[u][i] = Tail(queue[t])[i]
        BY <1>3, <3>1, <3>2
      <4> QED BY <1>3, <2>4, <3>2, <4>1 DEF HasMovedUp
    <3>3. CASE ~(i < Len(queue[t]))
      <4>1. at = t /\ queue'[u] = Tail(queue[t]) \o out
        BY <1>3, <3>1, <3>3
      <4>2. /\ i - (Len(queue[t]) - 1) \in 1..Len(out)
            /\ queue'[u][i] = out[i - (Len(queue[t]) - 1)]
        BY <1>3, <3>3, <4>1
      <4>3. i = (i - (Len(queue[t]) - 1)) + (Len(queue[t]) - 1)
        BY <1>3
      <4> QED BY <2>4, <4>1, <4>2, <4>3 DEF IsNew
    <3> QED BY <3>2, <3>3
  <2> QED BY <1>2, <1>4, <2>1, <2>2, <2>3, <2>4
<1>5. \/ r[t] # << >> /\ queue' = r /\ now' = t
      \/ /\ r[t] = << >>
         /\ now' = t + 1
         /\ \/ queue' = Erase(r, t)
            \/ \E w \in updates : w # << >> /\ queue' = Put(r, t, w)
  BY StepOutcome
<1>6. CASE queue' = r
  BY <1>4, <1>6
<1>7. CASE queue' = Erase(r, t)
  BY <1>4, <1>7 DEF Erase
<1>8. CASE r[t] = << >> /\ \E w \in updates : queue' = Put(r, t, w)
  <2>1. CASE u # t
    BY <1>1, <1>2, <1>4, <1>8, <2>1 DEF Put
  <2>2. CASE u = t
    <3>1. queue'[t] \in updates
      BY <1>8 DEF Put
    <3>2. Len(queue[t]) = 1
      <4> HIDE DEF r
      <4>1. r[t] = Tail(queue[t]) \/ r[t] = Tail(queue[t]) \o out
        BY <1>1
      <4>2. PICK d \in Seq(E) : d = Tail(queue[t])
        BY <1>3
      <4>3. Len(d) = 0
        <5>1. CASE r[t] = d
          BY <1>8, <5>1
        <5>2. CASE r[t] = d \o out
          <6>1. Len(d \o out) = Len(d) + Len(out) /\ Len(d) \in Nat /\ Len(out) \in Nat
            OBVIOUS
          <6>2. Len(d \o out) = 0
            BY <1>8, <5>2
          <6> QED BY <6>1, <6>2
        <5> QED BY <4>1, <4>2, <5>1, <5>2
      <4>4. PICK n \in Nat : n = Len(queue[t])
        BY <1>3
      <4>5. Len(d) = n - 1
        BY <1>3, <4>2, <4>4
      <4> QED BY <4>3, <4>4, <4>5
    <3> QED BY <2>2, <3>1, <3>2 DEF IsUpdate
  <2> QED BY <2>1, <2>2
<1> QED BY <1>5, <1>6, <1>7, <1>8

(* The deque of the step, if there still is one, is the first again.       *)
LEMMA StaysNext ==
  ASSUME NEW E, QueueTypeOK(E), NEW t \in DOMAIN queue, IsNext(t),
         NEW STATE at, at \in Nat, at >= t, NEW STATE out, out \in Seq(E),
         NEW ACTION updates, EndOfStep(t, at, out, updates)
  PROVE  \A u \in DOMAIN queue' : t <= u
<1> DEFINE r == Stepped(t, at, out)
<1>1. DOMAIN r \subseteq DOMAIN queue \cup {at}
  BY DEF Stepped, Insert, Put
<1>2. \A u \in DOMAIN r : t <= u
  BY <1>1 DEF IsNext, QueueTypeOK
<1>3. \/ r[t] # << >> /\ queue' = r /\ now' = t
      \/ /\ r[t] = << >>
         /\ now' = t + 1
         /\ \/ queue' = Erase(r, t)
            \/ \E w \in updates : w # << >> /\ queue' = Put(r, t, w)
  BY StepOutcome
<1>4. t \in Nat
  BY DEF QueueTypeOK
<1> QED BY <1>2, <1>3, <1>4 DEF Erase, Put

(* The same for a command filed for the present.                           *)
HasMovedDown(u, i) ==
  /\ u = now /\ u \in DOMAIN queue
  /\ i - 1 \in 1..Len(queue[u])
  /\ queue'[u][i] = queue[u][i - 1]

WasThere(u, i) ==
  /\ u \in DOMAIN queue
  /\ i \in 1..Len(queue[u])
  /\ queue'[u][i] = queue[u][i]

IsCommand(e, u, i) ==
  /\ u = now
  /\ queue'[u][i] = e

InsertedAtHead(e) ==
  \A u \in DOMAIN queue' : \A i \in 1..Len(queue'[u]) :
    \/ WasThere(u, i) /\ u # now
    \/ HasMovedDown(u, i)
    \/ IsCommand(e, u, i) /\ i = 1

InsertedAtEnd(e) ==
  \A u \in DOMAIN queue' : \A i \in 1..Len(queue'[u]) :
    \/ WasThere(u, i)
    \/ IsCommand(e, u, i) /\ \A j \in 1..Len(queue'[u]) : j <= i

(* The command is at the end it was filed at, and nothing else is new.     *)
LEMMA InsertSources ==
  ASSUME NEW E, QueueTypeOK(E), NEW e \in E, NEW immediate \in BOOLEAN,
         queue' = Insert(queue, now, now, <<e>>, immediate)
  PROVE  /\ DOMAIN queue' = DOMAIN queue \cup {now}
         /\ immediate => InsertedAtHead(e)
         /\ ~immediate => InsertedAtEnd(e)
<1>1. now \in Nat /\ \A u \in DOMAIN queue : queue[u] \in Seq(E)
  BY DEF QueueTypeOK
<1>2. PICK d \in Seq(E) : d = At(queue, now)
  <2>1. << >> \in Seq(E)
    OBVIOUS
  <2> QED BY <1>1, <2>1 DEF At
<1>3. /\ now \in DOMAIN queue => d = queue[now]
      /\ now \notin DOMAIN queue => Len(d) = 0
  BY <1>2 DEF At
<1>4. PICK c \in Seq(E) : c = IF immediate THEN <<e>> \o d ELSE d \o <<e>>
  <2>1. <<e>> \o d \in Seq(E) /\ d \o <<e>> \in Seq(E)
    OBVIOUS
  <2>2. (IF immediate THEN <<e>> \o d ELSE d \o <<e>>) \in Seq(E)
    BY <2>1
  <2> QED BY <2>2
<1>5. queue' = [u \in DOMAIN queue \cup {now} |-> IF u = now THEN c ELSE queue[u]]
  BY <1>1, <1>2, <1>4 DEF Insert, Put
<1>6. \A u \in DOMAIN queue' : \A i \in 1..Len(queue'[u]) : u # now => WasThere(u, i)
  BY <1>5 DEF WasThere
<1>7. queue'[now] = c
  BY <1>5
<1>8. ASSUME immediate PROVE InsertedAtHead(e)
  <2>1. c = <<e>> \o d
    BY <1>4, <1>8
  <2>2. \A i \in 1..Len(c) : \/ i = 1 /\ c[i] = e
                             \/ i - 1 \in 1..Len(d) /\ c[i] = d[i - 1]
    BY <2>1
  <2>3. Len(d) # 0 => now \in DOMAIN queue
    BY <1>3
  <2>4. ASSUME NEW i \in 1..Len(queue'[now]) PROVE HasMovedDown(now, i) \/ (IsCommand(e, now, i) /\ i = 1)
    <3>1. CASE i = 1 /\ c[i] = e
      BY <1>7, <3>1 DEF IsCommand
    <3>2. CASE i - 1 \in 1..Len(d) /\ c[i] = d[i - 1]
      BY <1>3, <1>7, <2>3, <3>2 DEF HasMovedDown
    <3> QED BY <1>7, <2>2, <3>1, <3>2
  <2> QED BY <1>6, <2>4 DEF InsertedAtHead
<1>9. ASSUME ~immediate PROVE InsertedAtEnd(e)
  <2>1. c = d \o <<e>>
    BY <1>4, <1>9
  <2>2. \A i \in 1..Len(c) : \/ c[i] = e /\ \A j \in 1..Len(c) : j <= i
                             \/ i \in 1..Len(d) /\ c[i] = d[i]
    BY <2>1
  <2>3. Len(d) # 0 => now \in DOMAIN queue
    BY <1>3
  <2>4. ASSUME NEW i \in 1..Len(queue'[now])
        PROVE  \/ WasThere(now, i)
               \/ IsCommand(e, now, i) /\ \A j \in 1..Len(queue'[now]) : j <= i
    <3>1. CASE c[i] = e /\ \A j \in 1..Len(c) : j <= i
      BY <1>7, <3>1 DEF IsCommand
    <3>2. CASE i \in 1..Len(d) /\ c[i] = d[i]
      BY <1>3, <1>7, <2>3, <3>2 DEF WasThere
    <3> QED BY <1>7, <2>2, <3>1, <3>2
  <2> QED BY <1>6, <2>4 DEF InsertedAtEnd
<1> QED BY <1>5, <1>8, <1>9

=============================================================================
