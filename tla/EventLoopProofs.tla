---------------------------- MODULE EventLoopProofs ----------------------------
(***************************************************************************)
(* The event loop, proved for every set of events and all times: it        *)
(* implements the Agenda, whatever is scheduled from outside, by handlers  *)
(* (also for the past) and by update_world().                              *)
(***************************************************************************)
EXTENDS EventLoop, TLAPS

(* Event e is in the deque s; it is filed in the map q under time t.       *)
In(s, e) == \E i \in 1..Len(s) : s[i] = e

Files(q, t, e) == t \in DOMAIN q /\ In(q[t], e)

Shape(q) == DOMAIN q \subseteq Nat /\ \A t \in DOMAIN q : q[t] \in Seq(Event)

(* No event is in a deque, or filed, twice. *)
Distinct(s) == \A i, j \in 1..Len(s) : s[i] = s[j] => i = j

Once(q) ==
  \A t, u \in DOMAIN q : \A i \in 1..Len(q[t]), j \in 1..Len(q[u]) :
    q[t][i] = q[u][j] => t = u /\ i = j

(* The deques, the histories and the clock: what waits was handed in and   *)
(* has not been handled, nothing waits for a time before the last, and the *)
(* clock is at most a tick ahead.                                          *)
LoopInv ==
  /\ Shape(queue) /\ Once(queue)
  /\ \A t \in DOMAIN queue : queue[t] # << >> /\ last <= t
  /\ now \in Nat /\ last \in Nat /\ last <= now /\ now <= last + 1
  /\ DOMAIN made \subseteq Event /\ \A e \in DOMAIN made : made[e] \in Nat
  /\ handled \subseteq DOMAIN made
  /\ \A t, e : Files(queue, t, e) => e \in DOMAIN made \ handled

-----------------------------------------------------------------------------
(* The three things that are done to the map: the head of a deque is       *)
(* popped, events are filed at an end of a deque, an empty deque is        *)
(* erased.                                                                 *)
Popped(q, t) == [q EXCEPT ![t] = Tail(@)]

LEMMA Pop ==
  ASSUME NEW q, Shape(q), Once(q), NEW t \in DOMAIN q, q[t] # << >>
  PROVE  /\ Shape(Popped(q, t)) /\ Once(Popped(q, t)) /\ DOMAIN Popped(q, t) = DOMAIN q
         /\ \A u \in DOMAIN q \ {t} : Popped(q, t)[u] = q[u]
         /\ \A u, e : Files(Popped(q, t), u, e)
                         <=> Files(q, u, e) /\ ~(u = t /\ e = Head(q[t]))
<1> DEFINE r == Popped(q, t)
<1>0. r = [q EXCEPT ![t] = Tail(@)]
  BY DEF Popped
<1> HIDE DEF r
<1>1. q[t] \in Seq(Event) /\ Len(q[t]) \in Nat \ {0}
  BY DEF Shape
<1>2. /\ DOMAIN r = DOMAIN q
      /\ \A u \in DOMAIN q \ {t} : r[u] = q[u]
      /\ r[t] \in Seq(Event) /\ Len(r[t]) = Len(q[t]) - 1
      /\ \A i \in 1..Len(r[t]) : i + 1 \in 1..Len(q[t]) /\ r[t][i] = q[t][i + 1]
  BY <1>0, <1>1
<1>3. Shape(r)
  BY <1>2 DEF Shape
<1>4. \A u \in DOMAIN q : \A i \in 1..Len(r[u]) :
         \E j \in 1..Len(q[u]) : r[u][i] = q[u][j] /\ j = IF u = t THEN i + 1 ELSE i
  BY <1>1, <1>2
<1>5. Once(r)
  <2> SUFFICES ASSUME NEW u \in DOMAIN r, NEW w \in DOMAIN r,
                      NEW i \in 1..Len(r[u]), NEW j \in 1..Len(r[w]), r[u][i] = r[w][j]
               PROVE  u = w /\ i = j
    BY DEF Once
  <2>1. PICK k \in 1..Len(q[u]) : r[u][i] = q[u][k] /\ k = IF u = t THEN i + 1 ELSE i
    BY <1>2, <1>4
  <2>2. PICK l \in 1..Len(q[w]) : r[w][j] = q[w][l] /\ l = IF w = t THEN j + 1 ELSE j
    BY <1>2, <1>4
  <2>3. u \in DOMAIN q /\ w \in DOMAIN q /\ q[u][k] = q[w][l]
    BY <1>2, <2>1, <2>2
  <2>5. u = w /\ k = l
    BY <2>3 DEF Once
  <2>4. Len(r[u]) \in Nat
    BY <1>2, <1>3 DEF Shape
  <2> QED BY <2>1, <2>2, <2>4, <2>5
<1>6. Head(q[t]) = q[t][1]
  BY <1>1
<1>7. ASSUME NEW u, NEW e
      PROVE  Files(r, u, e) <=> Files(q, u, e) /\ ~(u = t /\ e = Head(q[t]))
  <2>1. CASE u # t
    BY <1>2, <2>1 DEF Files, In
  <2>2. CASE u = t
    <3>1. ASSUME Files(r, t, e) PROVE Files(q, t, e) /\ e # Head(q[t])
      <4>1. PICK i \in 1..Len(r[t]) : r[t][i] = e
        BY <3>1 DEF Files, In
      <4>2. i + 1 \in 1..Len(q[t]) /\ q[t][i + 1] = e /\ i + 1 # 1 /\ 1 \in 1..Len(q[t])
        BY <1>1, <1>2, <4>1
      <4> QED BY <1>6, <4>2 DEF Files, In, Once
    <3>2. ASSUME Files(q, t, e), e # Head(q[t]) PROVE Files(r, t, e)
      <4>1. PICK i \in 1..Len(q[t]) : q[t][i] = e
        BY <3>2 DEF Files, In
      <4>2. i # 1
        BY <1>6, <3>2, <4>1
      <4>3. i - 1 \in 1..Len(r[t]) /\ r[t][i - 1] = e
        BY <1>1, <1>2, <4>1, <4>2
      <4> QED BY <1>2, <4>3 DEF Files, In
    <3> QED BY <2>2, <3>1, <3>2
  <2> QED BY <2>1, <2>2
<1> QED BY <1>2, <1>3, <1>5, <1>7 DEF r

(* What joining two deques gives.                                          *)
LEMMA Joined ==
  ASSUME NEW S, NEW a \in Seq(S), NEW b \in Seq(S)
  PROVE  /\ a \o b \in Seq(S) /\ Len(a \o b) = Len(a) + Len(b)
         /\ \A i \in 1..Len(a) + Len(b) :
              (a \o b)[i] = IF i <= Len(a) THEN a[i] ELSE b[i - Len(a)]
OBVIOUS

LEMMA JoinedDistinct ==
  ASSUME NEW S, NEW a \in Seq(S), NEW b \in Seq(S), Distinct(a), Distinct(b),
         \A f : ~(In(a, f) /\ In(b, f))
  PROVE  /\ a \o b \in Seq(S) /\ Distinct(a \o b)
         /\ \A f : In(a \o b, f) <=> In(a, f) \/ In(b, f)
         /\ a # << >> \/ b # << >> => a \o b # << >>
<1> DEFINE c == a \o b
<1>1. /\ c \in Seq(S) /\ Len(c) = Len(a) + Len(b)
      /\ \A i \in 1..Len(a) + Len(b) : c[i] = IF i <= Len(a) THEN a[i] ELSE b[i - Len(a)]
  BY Joined
<1>2. Len(a) \in Nat /\ Len(b) \in Nat
  OBVIOUS
<1> HIDE DEF c
<1>3. \A i \in 1..Len(c) : \/ i \in 1..Len(a) /\ c[i] = a[i]
                           \/ i - Len(a) \in 1..Len(b) /\ c[i] = b[i - Len(a)]
  <2>1. ASSUME NEW i \in 1..Len(a) + Len(b), i <= Len(a)
        PROVE  i \in 1..Len(a) /\ c[i] = a[i]
    BY <1>1, <1>2, <2>1
  <2>2. ASSUME NEW i \in 1..Len(a) + Len(b), ~(i <= Len(a))
        PROVE  i - Len(a) \in 1..Len(b) /\ c[i] = b[i - Len(a)]
    <3>1. i - Len(a) \in 1..Len(b)
      BY <1>2, <2>2
    <3> QED BY <1>1, <2>2, <3>1
  <2> QED BY <1>1, <2>1, <2>2
<1>4. \A i \in 1..Len(a) : i \in 1..Len(c) /\ c[i] = a[i]
  BY <1>1, <1>2
<1>5. \A i \in 1..Len(b) : i + Len(a) \in 1..Len(c) /\ c[i + Len(a)] = b[i]
  <2> SUFFICES ASSUME NEW i \in 1..Len(b)
               PROVE  i + Len(a) \in 1..Len(c) /\ c[i + Len(a)] = b[i]
    OBVIOUS
  <2>1. i + Len(a) \in 1..Len(a) + Len(b) /\ ~(i + Len(a) <= Len(a))
        /\ (i + Len(a)) - Len(a) = i
    BY <1>2
  <2> QED BY <1>1, <2>1
<1>6. \A f : In(c, f) <=> In(a, f) \/ In(b, f)
  BY <1>3, <1>4, <1>5 DEF In
<1>7. ASSUME NEW i \in 1..Len(c), NEW j \in 1..Len(c), c[i] = c[j] PROVE i = j
  <2>1. i \in Int /\ j \in Int
    BY <1>1, <1>2
  <2>2. CASE i \in 1..Len(a) /\ c[i] = a[i] /\ j \in 1..Len(a) /\ c[j] = a[j]
    BY <1>7, <2>2 DEF Distinct
  <2>3. CASE /\ i - Len(a) \in 1..Len(b) /\ c[i] = b[i - Len(a)]
             /\ j - Len(a) \in 1..Len(b) /\ c[j] = b[j - Len(a)]
    <3>1. i - Len(a) = j - Len(a)
      BY <1>7, <2>3 DEF Distinct
    <3> QED BY <1>2, <2>1, <3>1
  <2>4. CASE i \in 1..Len(a) /\ c[i] = a[i] /\ j - Len(a) \in 1..Len(b) /\ c[j] = b[j - Len(a)]
    BY <1>7, <2>4 DEF In
  <2>5. CASE j \in 1..Len(a) /\ c[j] = a[j] /\ i - Len(a) \in 1..Len(b) /\ c[i] = b[i - Len(a)]
    BY <1>7, <2>5 DEF In
  <2> QED BY <1>3, <2>2, <2>3, <2>4, <2>5
<1>8. a # << >> \/ b # << >> => c # << >>
  BY <1>1, <1>2
<1> QED BY <1>1, <1>6, <1>7, <1>8 DEF c, Distinct

(* The map r is q with the events of E added to the deque of time at. *)
GainsEntries(q, at, E, r) ==
  /\ Shape(r) /\ Once(r) /\ DOMAIN r = DOMAIN q \cup {at}
  /\ r[at] # << >>
  /\ \A u \in DOMAIN q \ {at} : r[u] = q[u]
  /\ \A u, f : Files(r, u, f) <=> Files(q, u, f) \/ (u = at /\ f \in E)

LEMMA File ==
  ASSUME NEW q, Shape(q), Once(q), NEW at \in Nat,
         NEW es \in Seq(Event), es # << >>, Distinct(es),
         NEW E, \A f : f \in E <=> In(es, f),
         \A f \in E : \A u : ~Files(q, u, f)
  PROVE  /\ GainsEntries(q, at, E, Put(q, at, es \o At(q, at)))
         /\ GainsEntries(q, at, E, Put(q, at, At(q, at) \o es))
<1> DEFINE d == At(q, at)
<1>1. d \in Seq(Event) /\ Distinct(d) /\ \A f : In(d, f) <=> Files(q, at, f)
  <2>1. CASE at \in DOMAIN q
    BY <2>1 DEF At, Shape, Once, Distinct, Files
  <2>2. CASE at \notin DOMAIN q
    <3>1. d = << >> /\ Len(d) = 0
      BY <2>2 DEF At
    <3> QED BY <2>2, <3>1 DEF Distinct, In, Files
  <2> QED BY <2>1, <2>2
<1> HIDE DEF d
<1>2. ASSUME NEW c \in Seq(Event), c # << >>, Distinct(c),
             \A f : In(c, f) <=> In(d, f) \/ f \in E
      PROVE  GainsEntries(q, at, E, Put(q, at, c))
  <2> DEFINE r == Put(q, at, c)
  <2>1. /\ DOMAIN r = DOMAIN q \cup {at} /\ r[at] = c
        /\ \A u \in DOMAIN q \ {at} : r[u] = q[u]
    BY DEF Put
  <2> HIDE DEF r
  <2>2. Shape(r)
    BY <2>1 DEF Shape
  <2>3. \A u, f : Files(r, u, f) <=> Files(q, u, f) \/ (u = at /\ f \in E)
    BY <1>1, <1>2, <2>1 DEF Files
  <2>4. ASSUME NEW w \in DOMAIN q \ {at}, NEW j \in 1..Len(q[w]),
               NEW i \in 1..Len(c), c[i] = q[w][j]
        PROVE  FALSE
    <3>1. In(c, c[i]) /\ Files(q, w, c[i])
      BY <2>4 DEF Files, In
    <3>2. Files(q, at, c[i])
      BY <1>1, <1>2, <3>1
    <3> QED BY <3>1, <3>2 DEF Once, Files, In
  <2>5. Once(r)
    <3> SUFFICES ASSUME NEW u \in DOMAIN r, NEW w \in DOMAIN r,
                        NEW i \in 1..Len(r[u]), NEW j \in 1..Len(r[w]), r[u][i] = r[w][j]
                 PROVE  u = w /\ i = j
      BY DEF Once
    <3>1. CASE u = at /\ w = at
      BY <1>2, <2>1, <3>1 DEF Distinct
    <3>2. CASE u = at /\ w # at
      BY <2>1, <2>4, <3>2
    <3>3. CASE u # at /\ w = at
      BY <2>1, <2>4, <3>3
    <3>4. CASE u # at /\ w # at
      BY <2>1, <3>4 DEF Once
    <3> QED BY <3>1, <3>2, <3>3, <3>4
  <2> QED BY <1>2, <2>1, <2>2, <2>3, <2>5 DEF r, GainsEntries
<1>3. \A f : ~(In(es, f) /\ In(d, f))
  BY <1>1
<1>4. /\ es \o d \in Seq(Event) /\ es \o d # << >> /\ Distinct(es \o d)
      /\ \A f : In(es \o d, f) <=> In(d, f) \/ f \in E
  BY <1>1, <1>3, JoinedDistinct
<1>5. /\ d \o es \in Seq(Event) /\ d \o es # << >> /\ Distinct(d \o es)
      /\ \A f : In(d \o es, f) <=> In(d, f) \/ f \in E
  BY <1>1, <1>3, JoinedDistinct
<1> QED BY <1>2, <1>4, <1>5 DEF d

LEMMA Drop ==
  ASSUME NEW q, Shape(q), Once(q), NEW t \in DOMAIN q, q[t] = << >>
  PROVE  LET r == Erase(q, t)
         IN  /\ Shape(r) /\ Once(r) /\ DOMAIN r = DOMAIN q \ {t}
             /\ \A u \in DOMAIN r : r[u] = q[u]
             /\ \A u, e : Files(r, u, e) <=> Files(q, u, e)
<1> DEFINE r == Erase(q, t)
<1>1. DOMAIN r = DOMAIN q \ {t} /\ \A u \in DOMAIN r : r[u] = q[u]
  BY DEF Erase
<1> HIDE DEF r
<1>2. Shape(r) /\ Once(r)
  BY <1>1 DEF Shape, Once
<1>3. \A u, e : Files(r, u, e) <=> Files(q, u, e)
  BY <1>1 DEF Files, In
<1> QED BY <1>1, <1>2, <1>3 DEF r

-----------------------------------------------------------------------------
(* The pairs of time and event that a map files. *)
EntriesIn(q) == UNION {{<<t, q[t][i]>> : i \in 1..Len(q[t])} : t \in DOMAIN q}

LEMMA EntryIsFiled ==
  ASSUME NEW q
  PROVE  /\ \A t, e : <<t, e>> \in EntriesIn(q) <=> Files(q, t, e)
         /\ \A p \in EntriesIn(q) : p = <<p[1], p[2]>> /\ Files(q, p[1], p[2])
<1>1. \A p : p \in EntriesIn(q)
               <=> \E t \in DOMAIN q : \E i \in 1..Len(q[t]) : p = <<t, q[t][i]>>
  BY DEF EntriesIn
<1>2. ASSUME NEW t, NEW e PROVE <<t, e>> \in EntriesIn(q) <=> Files(q, t, e)
  BY <1>1 DEF Files, In
<1>3. ASSUME NEW p \in EntriesIn(q) PROVE p = <<p[1], p[2]>> /\ Files(q, p[1], p[2])
  <2>1. PICK t \in DOMAIN q : \E i \in 1..Len(q[t]) : p = <<t, q[t][i]>>
    BY <1>1
  <2>2. PICK i \in 1..Len(q[t]) : p = <<t, q[t][i]>>
    BY <2>1
  <2> QED BY <2>2 DEF Files, In
<1> QED BY <1>2, <1>3

LEMMA InitInv == LoopInit => LoopInv
<1> SUFFICES ASSUME LoopInit PROVE LoopInv
  OBVIOUS
<1>1. DOMAIN queue = {} /\ now = 1 /\ last = 0 /\ DOMAIN made = {} /\ handled = {}
  BY DEF LoopInit, EvInit
<1> QED BY <1>1 DEF LoopInv, Shape, Once, Files

(* What a handler or update_world() schedules: events without repetition,  *)
(* none seen before.                                                       *)
LEMMA FreshMeans ==
  ASSUME NEW es \in Fresh
  PROVE  /\ es \in Seq(Event) /\ Distinct(es)
         /\ EventsOf(es) \subseteq Event \ DOMAIN made
         /\ \A f : f \in EventsOf(es) <=> In(es, f)
<1>1. PICK n \in 0..MaxBatch : es \in [1..n -> Event \ DOMAIN made]
  BY DEF Fresh
<1>2. /\ n \in Nat /\ DOMAIN es = 1..n
      /\ \A i \in 1..n : es[i] \in Event \ DOMAIN made
  BY <1>1, LoopAssumption DEF LoopAssumption
<1>3. es \in Seq(Event) /\ Len(es) = n
  <2>1. es \in [1..n -> Event]
    BY <1>1
  <2> QED BY <1>2, <2>1
<1>4. Distinct(es)
  BY <1>2, <1>3 DEF Fresh, Distinct
<1> QED BY <1>2, <1>3, <1>4 DEF EventsOf, In

(* The entries of what is scheduled in a step for time t: the handler's,   *)
(* unless they are for the past, and update_world()'s.                     *)
NewEntries(t, at, out, update) ==
  {p \in {at} \X EventsOf(out) : at >= t} \cup ({t} \X EventsOf(update))

(* What a step does to the map: the event handled is gone, and the new     *)
(* entries have come.                                                      *)
StepEffect(t, N) ==
  /\ Shape(queue') /\ Once(queue')
  /\ \A u \in DOMAIN queue' : queue'[u] # << >> /\ t <= u
  /\ now' \in Nat /\ t <= now' /\ now' <= t + 1
  /\ \A u, e : Files(queue', u, e)
                 <=> \/ Files(queue, u, e) /\ ~(u = t /\ e = Head(queue[t]))
                     \/ <<u, e>> \in N

LEMMA StepOnMap ==
  ASSUME LoopInv, NEW t, IsNext(t), NEW at \in Nat, NEW out \in Fresh, NEW update \in Fresh,
         EventsOf(out) \cap EventsOf(update) = {},
         EndOfStep(t, at, out, {update}), update # << >> => now' = t + 1
  PROVE  StepEffect(t, NewEntries(t, at, out, update))
<1> DEFINE head == Head(queue[t])
           q1 == Popped(queue, t)
           q2 == Insert(q1, t, at, out, FALSE)
           New1(u, e) == u = at /\ at >= t /\ e \in EventsOf(out)
           New2(u, e) == u = t /\ e \in EventsOf(update)
<1>0. \A u, e : <<u, e>> \in NewEntries(t, at, out, update) <=> New1(u, e) \/ New2(u, e)
  BY DEF NewEntries
<1>1. /\ Shape(queue) /\ Once(queue) /\ t \in DOMAIN queue /\ t \in Nat
      /\ \A u \in DOMAIN queue : queue[u] # << >> /\ t <= u
      /\ \A u, e : Files(queue, u, e) => e \in DOMAIN made
  BY DEF LoopInv, IsNext, Shape
<1>2. /\ Shape(q1) /\ Once(q1) /\ DOMAIN q1 = DOMAIN queue
      /\ \A u \in DOMAIN queue \ {t} : q1[u] = queue[u]
      /\ \A u, e : Files(q1, u, e) <=> Files(queue, u, e) /\ ~(u = t /\ e = head)
  BY <1>1, Pop
<1> HIDE DEF q1
<1>3. /\ Shape(q2) /\ Once(q2) /\ t \in DOMAIN q2
      /\ \A u \in DOMAIN q2 : t <= u
      /\ \A u \in DOMAIN q2 \ {t} : q2[u] # << >>
      /\ \A u, e : Files(q2, u, e) <=> Files(q1, u, e) \/ New1(u, e)
  <2>1. CASE at < t \/ out = << >>
    <3>1. q2 = q1
      BY <2>1 DEF Insert
    <3>2. \A u, e : ~New1(u, e)
      <4>1. at < t => ~(at >= t)
        BY <1>1
      <4>2. out = << >> => EventsOf(out) = {}
        BY DEF EventsOf
      <4> QED BY <2>1, <4>1, <4>2
    <3> HIDE DEF q2, New1
    <3> QED BY <1>1, <1>2, <3>1, <3>2
  <2>2. CASE ~(at < t) /\ out # << >>
    <3>1. q2 = Put(q1, at, At(q1, at) \o out)
      BY <2>2 DEF Insert
    <3>2. /\ out \in Seq(Event) /\ Distinct(out) /\ \A f : f \in EventsOf(out) <=> In(out, f)
          /\ EventsOf(out) \subseteq Event \ DOMAIN made
      BY FreshMeans
    <3>3. \A f \in EventsOf(out) : \A u : ~Files(q1, u, f)
      BY <1>1, <1>2, <3>2
    <3>4. GainsEntries(q1, at, EventsOf(out), q2)
      BY <1>2, <2>2, <3>1, <3>2, <3>3, File
    <3>5. t <= at
      BY <1>1, <2>2
    <3> HIDE DEF q2
    <3>6. \A u \in DOMAIN q2 : t <= u
      BY <1>1, <1>2, <3>4, <3>5 DEF GainsEntries
    <3>7. \A u \in DOMAIN q2 \ {t} : q2[u] # << >>
      BY <1>1, <1>2, <3>4 DEF GainsEntries
    <3> QED BY <1>1, <1>2, <3>4, <3>5, <3>6, <3>7 DEF GainsEntries
  <2> QED BY <2>1, <2>2
<1>4. \/ /\ q2[t] # << >> /\ queue' = q2 /\ now' = t
      \/ /\ q2[t] = << >> /\ now' = t + 1
         /\ queue' = IF update = << >> THEN Erase(q2, t) ELSE Put(q2, t, update)
  BY DEF EndOfStep, q1, Popped
<1> HIDE DEF q2, New1
<1>5. update = << >> => \A u, e : ~New2(u, e)
  BY DEF EventsOf
<1> HIDE DEF New2
<1>6. CASE q2[t] # << >> /\ queue' = q2 /\ now' = t
  <2>1. update = << >>
    BY <1>1, <1>6
  <2> QED BY <1>0, <1>1, <1>2, <1>3, <1>5, <1>6, <2>1 DEF StepEffect
<1>7. CASE q2[t] = << >> /\ now' = t + 1 /\ update = << >> /\ queue' = Erase(q2, t)
  <2>1. /\ Shape(queue') /\ Once(queue') /\ DOMAIN queue' = DOMAIN q2 \ {t}
        /\ \A u \in DOMAIN queue' : queue'[u] = q2[u]
        /\ \A u, e : Files(queue', u, e) <=> Files(q2, u, e)
    BY <1>3, <1>7, Drop
  <2> QED BY <1>0, <1>1, <1>2, <1>3, <1>5, <1>7, <2>1 DEF StepEffect
<1>8. CASE q2[t] = << >> /\ now' = t + 1 /\ update # << >> /\ queue' = Put(q2, t, update)
  <2>1. /\ update \in Seq(Event) /\ Distinct(update)
        /\ \A f : f \in EventsOf(update) <=> In(update, f)
        /\ EventsOf(update) \subseteq Event \ DOMAIN made
    BY FreshMeans
  <2>2. \A f \in EventsOf(update) : \A u : ~Files(q2, u, f)
    BY <1>1, <1>2, <1>3, <2>1 DEF New1
  <2>3. At(q2, t) \o update = update
    <3>1. At(q2, t) = << >>
      BY <1>8 DEF At
    <3> QED BY <2>1, <3>1
  <2>4. GainsEntries(q2, t, EventsOf(update), queue')
    BY <1>1, <1>3, <1>8, <2>1, <2>2, <2>3, File
  <2>5. \A u, f : Files(queue', u, f) <=> Files(q2, u, f) \/ New2(u, f)
    BY <2>4 DEF GainsEntries, New2
  <2> QED BY <1>0, <1>1, <1>2, <1>3, <1>8, <2>4, <2>5 DEF StepEffect, GainsEntries
<1> QED BY <1>4, <1>6, <1>7, <1>8

-----------------------------------------------------------------------------
(* A step of the loop keeps the invariant and handles an entry of the      *)
(* Agenda.                                                                 *)
LEMMA StepHandles ==
  ASSUME LoopInv, NEW t, SimulateNextStep(t)
  PROVE  LoopInv' /\ TheAgenda!AgendaNext
<1> DEFINE head == Head(queue[t])
<1>1. /\ IsNext(t) /\ t \in DOMAIN queue /\ t \in Nat
      /\ handled' = handled \cup {head} /\ last' = t
  BY DEF SimulateNextStep, LoopInv, Shape, IsNext, NextEvent
<1>2. PICK out \in Fresh, update \in Fresh, at \in 0..MaxTime :
        /\ EventsOf(out) \cap EventsOf(update) = {}
        /\ made' = [e \in DOMAIN made \cup EventsOf(out) \cup EventsOf(update) |->
                      IF e \in EventsOf(out) THEN at
                      ELSE IF e \in EventsOf(update) THEN t ELSE made[e]]
        /\ EndOfStep(t, at, out, {update})
        /\ update # << >> => now' = t + 1
  BY DEF SimulateNextStep
<1>a. at \in Nat
  BY LoopAssumption DEF LoopAssumption
<1> DEFINE fresh == EventsOf(out) \cup EventsOf(update)
           N == NewEntries(t, at, out, update)
<1>3. fresh \subseteq Event \ DOMAIN made
  BY FreshMeans
<1>4. StepEffect(t, N)
  BY <1>1, <1>2, <1>a, StepOnMap
<1>5. /\ DOMAIN made' = DOMAIN made \cup fresh
      /\ \A e \in DOMAIN made : made'[e] = made[e]
      /\ \A e \in fresh : made'[e] = IF e \in EventsOf(out) THEN at ELSE t
      /\ DOMAIN made' \subseteq Event /\ \A e \in DOMAIN made' : made'[e] \in Nat
  BY <1>1, <1>2, <1>3, <1>a DEF LoopInv
<1>b. \A p \in N : \E e \in fresh : p = <<made'[e], e>> /\ made'[e] >= t
  <2> SUFFICES ASSUME NEW p \in N PROVE \E e \in fresh : p = <<made'[e], e>> /\ made'[e] >= t
    OBVIOUS
  <2>1. CASE p \in {at} \X EventsOf(out) /\ at >= t
    <3>1. PICK e \in EventsOf(out) : p = <<at, e>>
      BY <2>1
    <3> QED BY <1>5, <2>1, <3>1
  <2>2. CASE p \in {t} \X EventsOf(update)
    <3>1. PICK e \in EventsOf(update) : p = <<t, e>>
      BY <2>2
    <3>2. e \notin EventsOf(out) /\ t >= t
      BY <1>1, <1>2
    <3> QED BY <1>5, <3>1, <3>2
  <2> QED BY <2>1, <2>2 DEF NewEntries
<1>c. \A e \in fresh : made'[e] >= t => <<made'[e], e>> \in N
  BY <1>5 DEF NewEntries
<1> HIDE DEF fresh, N
<1>6. Files(queue, t, head) /\ \A u : Files(queue, u, head) => u = t
  <2>1. queue[t] \in Seq(Event) \ {<< >>}
    BY <1>1 DEF LoopInv, Shape
  <2>2. 1 \in 1..Len(queue[t]) /\ queue[t][1] = head
    BY <2>1
  <2>3. ASSUME NEW u, Files(queue, u, head) PROVE u = t
    BY <1>1, <2>2, <2>3 DEF LoopInv, Once, Files, In
  <2> QED BY <1>1, <2>2, <2>3 DEF Files, In
<1>7. head \in DOMAIN made \ handled
  BY <1>6 DEF LoopInv
<1>8. \A u, e : Files(queue', u, e)
                  <=> (Files(queue, u, e) /\ <<u, e>> # <<t, head>>) \/ <<u, e>> \in N
  BY <1>4 DEF StepEffect
<1> HIDE DEF head
<1>9. LoopInv'
  <2>1. /\ Shape(queue') /\ Once(queue')
        /\ \A u \in DOMAIN queue' : queue'[u] # << >> /\ last' <= u
        /\ now' \in Nat /\ last' \in Nat /\ last' <= now' /\ now' <= last' + 1
    BY <1>1, <1>4 DEF StepEffect
  <2>2. handled' \subseteq DOMAIN made'
    BY <1>1, <1>5, <1>7 DEF LoopInv
  <2>3. ASSUME NEW u, NEW e, Files(queue', u, e) PROVE e \in DOMAIN made' \ handled'
    <3>1. CASE Files(queue, u, e) /\ <<u, e>> # <<t, head>>
      <4>1. e \in DOMAIN made \ handled /\ e # head
        BY <1>6, <3>1 DEF LoopInv
      <4> QED BY <1>1, <1>5, <4>1
    <3>2. CASE <<u, e>> \in N
      <4>1. e \in fresh
        BY <1>b, <3>2
      <4>2. e \notin DOMAIN made /\ handled \subseteq DOMAIN made
        BY <1>3, <4>1 DEF LoopInv
      <4> QED BY <1>1, <1>5, <1>7, <4>1, <4>2
    <3> QED BY <1>8, <2>3, <3>1, <3>2
  <2> QED BY <1>5, <2>1, <2>2, <2>3 DEF LoopInv
<1>10. TheAgenda!AgendaNext
  <2> DEFINE p == <<t, head>>
  <2>1. p \in Entries /\ \A q \in Entries : p[1] <= q[1]
    <3>1. p \in Entries
      BY <1>6, EntryIsFiled DEF Entries, EntriesIn
    <3>2. ASSUME NEW q \in Entries PROVE t <= q[1]
      <4>1. Files(queue, q[1], q[2])
        BY EntryIsFiled DEF Entries, EntriesIn
      <4> QED BY <1>1, <4>1 DEF Files, IsNext
    <3> QED BY <3>1, <3>2
  <2>2. Entries' = (Entries \ {p}) \cup N
    <3>2. Entries = EntriesIn(queue) /\ Entries' = EntriesIn(queue')
      BY DEF Entries, EntriesIn
    <3>3. ASSUME NEW q \in Entries' PROVE q \in (Entries \ {p}) \cup N
      <4>1. q = <<q[1], q[2]>> /\ Files(queue', q[1], q[2])
        BY <3>2, EntryIsFiled
      <4>2. CASE Files(queue, q[1], q[2]) /\ <<q[1], q[2]>> # p
        <5>1. <<q[1], q[2]>> \in Entries
          BY <3>2, <4>2, EntryIsFiled
        <5> QED BY <4>1, <4>2, <5>1
      <4>3. CASE <<q[1], q[2]>> \in N
        BY <4>1, <4>3
      <4> QED BY <1>8, <4>1, <4>2, <4>3
    <3>4. ASSUME NEW q \in Entries \ {p} PROVE q \in Entries'
      <4>1. q = <<q[1], q[2]>> /\ Files(queue, q[1], q[2])
        BY <3>2, EntryIsFiled
      <4>2. Files(queue', q[1], q[2])
        BY <1>8, <4>1
      <4>3. <<q[1], q[2]>> \in Entries'
        BY <3>2, <4>2, EntryIsFiled
      <4> QED BY <4>1, <4>3
    <3>5. ASSUME NEW q \in N PROVE q \in Entries'
      <4>1. q = <<q[1], q[2]>>
        BY <1>b
      <4>2. Files(queue', q[1], q[2])
        BY <1>8, <4>1
      <4>3. <<q[1], q[2]>> \in Entries'
        BY <3>2, <4>2, EntryIsFiled
      <4> QED BY <4>1, <4>3
    <3> QED BY <3>3, <3>4, <3>5
  <2>3. DOMAIN made' \ DOMAIN made = fresh
    BY <1>3, <1>5
  <2>5. TheAgenda!Accepts(Entries \ {p}, t, t)
    <3> HIDE DEF p, Entries
    <3>1. (Entries \ {p}) \subseteq Entries' /\ Entries' \ (Entries \ {p}) \subseteq N
      BY <2>2
    <3>2. /\ DOMAIN made \subseteq DOMAIN made' /\ fresh \subseteq Event
          /\ \A e \in DOMAIN made : made'[e] = made[e]
          /\ \A e \in fresh : made'[e] \in Nat
      BY <1>3, <1>5
    <3>3. \A r \in Entries' \ (Entries \ {p}) :
             \E e \in fresh : r = <<made'[e], e>> /\ made'[e] >= t
      BY <1>b, <3>1
    <3>4. \A e \in fresh : made'[e] >= t => <<made'[e], e>> \in Entries'
      BY <1>c, <2>2
    <3> QED BY <2>3, <3>1, <3>2, <3>3, <3>4 DEF TheAgenda!Accepts
  <2>6. TheAgenda!Handle(p)
    <3>1. p[1] = t /\ p[2] = head
      OBVIOUS
    <3> HIDE DEF p
    <3> QED BY <1>1, <1>7, <2>1, <2>5, <3>1 DEF TheAgenda!Handle
  <2> QED BY <2>1, <2>6 DEF TheAgenda!AgendaNext
<1> QED BY <1>9, <1>10

(* Client code that schedules while the loop does not run adds at most one *)
(* entry; an event for the past becomes known without one.                 *)
LEMMA ScheduleIsPlanned ==
  ASSUME LoopInv, NEW e \in Event, NEW t \in 0..MaxTime, NEW immediate \in BOOLEAN,
         Schedule(e, t, immediate)
  PROVE  LoopInv' /\ TheAgenda!Plan
<1>1. /\ e \notin DOMAIN made /\ made' = Make(<<e>>, t) /\ t \in Nat
      /\ queue' = Insert(queue, now, t, <<e>>, immediate)
      /\ now' = now /\ handled' = handled /\ last' = last
  BY LoopAssumption DEF Schedule, LoopAssumption
<1>2. Entries = EntriesIn(queue) /\ Entries' = EntriesIn(queue')
  BY DEF Entries, EntriesIn
<1>5. EventsOf(<<e>>) = {e}
  BY DEF EventsOf
<1>6. /\ DOMAIN made' = DOMAIN made \cup {e} /\ made'[e] = t
      /\ \A f \in DOMAIN made : made'[f] = made[f]
      /\ DOMAIN made' \subseteq Event /\ \A f \in DOMAIN made' : made'[f] \in Nat
      /\ DOMAIN made' \ DOMAIN made = {e}
  BY <1>1, <1>5 DEF Make, LoopInv
<1>7. /\ now' \in Nat /\ last' \in Nat /\ last' <= now' /\ now' <= last' + 1
      /\ handled' \subseteq DOMAIN made'
  BY <1>1, <1>6 DEF LoopInv
<1>3. CASE t < now
  <2>1. queue' = queue
    BY <1>1, <1>3 DEF Insert
  <2>2. LoopInv'
    <3>1. /\ Shape(queue') /\ Once(queue')
          /\ \A u \in DOMAIN queue' : queue'[u] # << >> /\ last' <= u
      BY <1>1, <2>1 DEF LoopInv
    <3>2. \A u, f : Files(queue', u, f) => f \in DOMAIN made' \ handled'
      BY <1>1, <1>6, <2>1 DEF LoopInv
    <3> QED BY <1>6, <1>7, <3>1, <3>2 DEF LoopInv
  <2>3. Entries' = Entries
    BY <1>2, <2>1
  <2>4. TheAgenda!Accepts(Entries, last, last + 1)
    <3>1. ~(made'[e] >= last + 1)
      BY <1>1, <1>3, <1>6 DEF LoopInv
    <3>2. /\ DOMAIN made \subseteq DOMAIN made' /\ {e} \subseteq Event
          /\ \A f \in DOMAIN made : made'[f] = made[f]
          /\ \A f \in {e} : made'[f] \in Nat
      BY <1>6
    <3> HIDE DEF Entries
    <3> QED BY <1>6, <2>3, <3>1, <3>2 DEF TheAgenda!Accepts
  <2> QED BY <1>1, <2>2, <2>4 DEF TheAgenda!Plan
<1>4. CASE ~(t < now)
  <2>1. /\ <<e>> \in Seq(Event) /\ <<e>> # << >> /\ Distinct(<<e>>)
        /\ \A f : f \in {e} <=> In(<<e>>, f)
    BY DEF Distinct, In
  <2>2. GainsEntries(queue, t, {e}, queue')
    <3>1. Shape(queue) /\ Once(queue) /\ \A f \in {e} : \A u : ~Files(queue, u, f)
      BY <1>1 DEF LoopInv
    <3>2. /\ GainsEntries(queue, t, {e}, Put(queue, t, <<e>> \o At(queue, t)))
          /\ GainsEntries(queue, t, {e}, Put(queue, t, At(queue, t) \o <<e>>))
      BY <1>1, <2>1, <3>1, File
    <3>3. \/ queue' = Put(queue, t, <<e>> \o At(queue, t))
          \/ queue' = Put(queue, t, At(queue, t) \o <<e>>)
      BY <1>1, <1>4, <2>1 DEF Insert
    <3> QED BY <3>2, <3>3
  <2>3. last <= t
    BY <1>1, <1>4 DEF LoopInv
  <2>4. LoopInv'
    <3>1. /\ Shape(queue') /\ Once(queue')
          /\ \A u \in DOMAIN queue' : queue'[u] # << >> /\ last' <= u
      BY <1>1, <2>2, <2>3 DEF LoopInv, GainsEntries
    <3>2. \A u, f : Files(queue', u, f) => f \in DOMAIN made' \ handled'
      BY <1>1, <1>6, <2>2 DEF LoopInv, GainsEntries
    <3> QED BY <1>6, <1>7, <3>1, <3>2 DEF LoopInv
  <2>5. Entries' = Entries \cup {<<t, e>>}
    <3>1. \A u, f : Files(queue', u, f) <=> Files(queue, u, f) \/ (u = t /\ f = e)
      BY <2>2 DEF GainsEntries
    <3>2. ASSUME NEW q \in Entries' PROVE q \in Entries \cup {<<t, e>>}
      <4>1. q = <<q[1], q[2]>> /\ Files(queue', q[1], q[2])
        BY <1>2, EntryIsFiled
      <4>2. CASE Files(queue, q[1], q[2])
        <5>1. <<q[1], q[2]>> \in Entries
          BY <1>2, <4>2, EntryIsFiled
        <5> QED BY <4>1, <5>1
      <4>3. CASE q[1] = t /\ q[2] = e
        BY <4>1, <4>3
      <4> QED BY <3>1, <4>1, <4>2, <4>3
    <3>3. ASSUME NEW q \in Entries PROVE q \in Entries'
      <4>1. q = <<q[1], q[2]>> /\ Files(queue, q[1], q[2])
        BY <1>2, EntryIsFiled
      <4>2. <<q[1], q[2]>> \in Entries'
        BY <1>2, <3>1, <4>1, EntryIsFiled
      <4> QED BY <4>1, <4>2
    <3>4. <<t, e>> \in Entries'
      BY <1>2, <3>1, EntryIsFiled
    <3> QED BY <3>2, <3>3, <3>4
  <2>6. TheAgenda!Accepts(Entries, last, last + 1)
    <3> HIDE DEF Entries
    <3>1. /\ DOMAIN made \subseteq DOMAIN made' /\ {e} \subseteq Event
          /\ \A f \in DOMAIN made : made'[f] = made[f]
          /\ \A f \in {e} : made'[f] \in Nat
      BY <1>6
    <3>2. \A p \in Entries' \ Entries : p = <<made'[e], e>> /\ made'[e] >= last
      BY <1>6, <2>3, <2>5, <1>1 DEF LoopInv
    <3>3. Entries \subseteq Entries' /\ <<made'[e], e>> \in Entries'
      BY <1>6, <2>5
    <3> QED BY <1>6, <3>1, <3>2, <3>3 DEF TheAgenda!Accepts
  <2> QED BY <1>1, <2>4, <2>6 DEF TheAgenda!Plan
<1> QED BY <1>3, <1>4

(***************************************************************************)
(* The loop implements the Agenda: for any events and times, whatever is   *)
(* scheduled from where, no event is lost, repeated or handled before one  *)
(* that is due earlier, and simulated time never goes back.                *)
(***************************************************************************)
THEOREM ImplementsAgenda == LoopSafetySpec => AgendaKept
<1>1. LoopInit => LoopInv
  BY InitInv
<1>2. LoopInit => TheAgenda!AgendaInit
  <2> SUFFICES ASSUME LoopInit PROVE TheAgenda!AgendaInit
    OBVIOUS
  <2>1. DOMAIN queue = {} /\ DOMAIN made = {} /\ handled = {} /\ last = 0
    BY DEF LoopInit, EvInit
  <2>2. Entries = {}
    BY <2>1 DEF Entries
  <2> QED BY <2>1, <2>2 DEF TheAgenda!AgendaInit
<1>3. LoopInv /\ [LoopNext]_loopVars
        => LoopInv' /\ [TheAgenda!AgendaNext]_(TheAgenda!agendaVars)
  <2> SUFFICES ASSUME LoopInv, [LoopNext]_loopVars
               PROVE  LoopInv' /\ [TheAgenda!AgendaNext]_(TheAgenda!agendaVars)
    OBVIOUS
  <2>1. CASE \E e \in Event, t \in 0..MaxTime, immediate \in BOOLEAN :
               Schedule(e, t, immediate)
    BY <2>1, ScheduleIsPlanned DEF TheAgenda!AgendaNext
  <2>2. CASE \E t \in DOMAIN queue : SimulateNextStep(t)
    BY <2>2, StepHandles
  <2>3. CASE UNCHANGED <<queue, now, made, handled, last>>
    BY <2>3 DEF LoopInv, TheAgenda!agendaVars, Entries
  <2>4. CASE UNCHANGED loopVars
    BY <2>3, <2>4 DEF loopVars
  <2>5. CASE \/ Call("SimulateAll", 0) \/ Return \/ EmptyStep
             \/ \E until \in 0..MaxTime : Call("SimulateUntil", until)
             \/ \E steps \in 0..MaxSteps : Call("SimulateSteps", steps)
    <3>1. UNCHANGED <<queue, now, made, handled, last>>
      BY <2>5 DEF Call, Return, EmptyStep
    <3> QED BY <2>3, <3>1
  <2> QED BY <2>1, <2>2, <2>4, <2>5 DEF LoopNext
<1> QED BY <1>1, <1>2, <1>3, PTL DEF LoopSafetySpec, AgendaKept, TheAgenda!AgendaSpec

=============================================================================
