---------------------------- MODULE PlacementProofs ----------------------------
(***************************************************************************)
(* Placing VMs, proved for every set of resources, servers and VMs, all    *)
(* delays, any clients and any number of commands between two calls of     *)
(* SimulateAll.                                                            *)
(*                                                                         *)
(* A VM goes through the stages created, scheduled, provisioned (its       *)
(* server, then the VM itself) and hosted.  The messages that carry it     *)
(* from one to the next wait in one deque, in this order, and each agrees  *)
(* with what the storage's books and the VM's state are when its turn      *)
(* comes.  BooksInv says so: it has to be known of every reachable state   *)
(* to see that a VM is placed once, that its status never jumps and that   *)
(* nothing is left halfway.                                                *)
(***************************************************************************)
EXTENDS WorldProofs

(* The events that carry the storage's view of a VM forward, and how far.  *)
Stage(type) ==
  CASE type = "kVMCreated" -> 1
    [] type = "kVMScheduled" -> 2
    [] type \in {"kProvisionVM", "kStart"} -> 3
    [] type = "kVMHosted" -> 4
    [] type = "kVMDeleted" -> 5

(* These events, and the VM each of them is about.                         *)
StagedType == {"kVMCreated", "kVMScheduled", "kProvisionVM", "kStart", "kVMHosted", "kVMDeleted"}

Staged(e) == e.type \in StagedType

Subject(e) == IF e.type = "kStart" THEN e.to ELSE e.vm

(* What the scheduler sends, and what places a VM in the end. *)
ScheduledType == {"kVMScheduled", "kProvisionVM"}
PlacingType == ScheduledType \cup {"kStart"}

(* What clients send.                                                      *)
ClientType == ResourceCommand \cup {"kStop", "kDelete", "kVMProvisionRequested", "kVMCreated"}

(* What is sent in this world: nobody reports a stop, and the storage is   *)
(* sent its own events and commands.                                       *)
Sent ==
  {e \in WorldEvent :
     /\ e.type \notin {"kVMStopped", "kRestart"}
     /\ e.to = Storage => e.type \in VMStorageEventType \cup ResourceCommand \cup {"kStop", "kDelete"}}

(* The state of the books and of the VM that goes with an event e under    *)
(* way.                                                                    *)
Agrees(e) ==
  LET v == Subject(e) IN
  /\ e.type = "kVMCreated" => v \notin DOMAIN vms
  /\ e.type = "kVMScheduled" => v \in DOMAIN vms /\ vms[v] = "kPending"
  /\ e.type \in {"kProvisionVM", "kStart"} =>
       /\ v \in DOMAIN vms /\ vms[v] \in {"kPending", "kProvisioning"}
       /\ vmState[v] \in {"kProvisioning", "kDeleting", "kFailure"}
       /\ vms[v] = "kPending" => Queued(VMStorageEvent("kVMScheduled", v))
  /\ e.type = "kVMHosted" =>
       /\ v \in DOMAIN vms /\ vms[v] = "kProvisioning"
       /\ vmState[v] \notin {"kProvisioning", "kStarting"}
  /\ e.type = "kVMDeleted" => v \in DOMAIN vmState /\ vmState[v] \in {"kDeleting", "kFailure"}

(* The deque that is worked on: what is under way about one VM comes in    *)
(* the order of the stages, and first comes what places VMs.               *)
InOrder(d) ==
  \A i, j \in 1..Len(d) :
    /\ i < j
    /\ Staged(d[i]) /\ Staged(d[j])
    /\ Subject(d[i]) = Subject(d[j])
    => Stage(d[i].type) < Stage(d[j].type) \/ d[j].type = "kVMDeleted"

PlacingFirst(d) ==
  \A i, j \in 1..Len(d) :
    /\ i < j /\ d[j].type \in PlacingType => d[i].type \in PlacingType
    /\ d[j].type \in ScheduledType => d[i].type \in PlacingType
    /\ i < j /\ d[j].type \in ScheduledType => d[i].type \in ScheduledType

(* Events about placing never wait for a later time, and each agrees with  *)
(* the books.                                                              *)
StagedAtOnce ==
  \A t \in DOMAIN queue : \A i \in 1..Len(queue[t]) : Staged(queue[t][i]) => IsNext(t)

AllAgree ==
  \A t \in DOMAIN queue : \A i \in 1..Len(queue[t]) : Staged(queue[t][i]) => Agrees(queue[t][i])

UnderWay == StagedAtOnce /\ AllAgree /\ \A t \in DOMAIN queue : InOrder(queue[t]) /\ PlacingFirst(queue[t])

(* What the storage has written of a VM in each of its states.             *)
Booked(v) ==
  /\ vmState[v] # "kRestarting"
  /\ v \in DOMAIN vms => vms[v] # "kStoppedVM"
  /\ vmState[v] = "kStarting" => v \in DOMAIN vms /\ vms[v] = "kProvisioning"
  /\ vmState[v] \in {"kRunning", "kStopping", "kStopped"} =>
       /\ v \in DOMAIN vms
       /\ \/ vms[v] = "kHostedVM"
          \/ vms[v] = "kProvisioning" /\ Queued(VMStorageEvent("kVMHosted", v))
  /\ vmState[v] = "kDeleting" =>
       \/ Queued(VMEvent(v, "kDeleteCompleted"))
       \/ Queued(VMStorageEvent("kVMDeleted", v))
       \/ v \notin DOMAIN vms /\ ~Queued(VMStorageEvent("kVMCreated", v))

Books == \A v \in DOMAIN vmState : Booked(v)

(* Between two calls of SimulateAll only commands for the present wait.    *)
Idle ==
  ~simulating =>
    \A t \in DOMAIN queue :
      /\ t = now
      /\ \A i \in 1..Len(queue[t]) : queue[t][i].type \in ClientType

(* The queue is not empty while a VM is pending: update_world() refills    *)
(* it.                                                                     *)
PendingKeepsGoing == queue = << >> => Pending = {}

(* The invariant.  A storage that has failed ignores all it is told: then  *)
(* nothing is claimed of its books.                                        *)
BooksInv ==
  /\ PlacedInv /\ QueueTypeOK(Sent)
  /\ CompletionUnderWay
  /\ Idle /\ PendingKeepsGoing
  /\ storageState = "kOk" => UnderWay /\ Books

-----------------------------------------------------------------------------
(* What the scheduler's plan for the pending VMs looks like. *)
PlannedFor(P, d) ==
  /\ \A i \in 1..Len(d) : \E v \in P :
       d[i] \in {VMStorageEvent("kVMScheduled", v), ServerEvent(FirstServer, "kProvisionVM", v)}
  /\ InOrder(d) /\ PlacingFirst(d)
  /\ \A i \in 1..Len(d) : d[i].type = "kProvisionVM" =>
       \E j \in 1..Len(d) : d[j] = VMStorageEvent("kVMScheduled", d[i].vm)

(* What update_world() may leave in the queue.                             *)
IsPlan(d) == PlannedFor(Pending', d) /\ (d = << >> => Pending' = {})

(* The notices of UpdateSchedule(), last VM first, and then its            *)
(* placements.                                                             *)
LEMMA NoticesThenPlacements ==
  ASSUME NEW P, NEW n \in Nat, NEW f \in [1..n -> P], NEW d, Len(d) = n + n,
         \A i, j \in 1..n : i # j => f[i] # f[j],
         \A i \in 1..n : d[i] = VMStorageEvent("kVMScheduled", f[(n - i) + 1]),
         \A i \in (n + 1)..(n + n) : d[i] = ServerEvent(FirstServer, "kProvisionVM", f[i - n])
  PROVE  PlannedFor(P, d)
<1>1. \A i \in 1..n : (n - i) + 1 \in 1..n
  OBVIOUS
<1>2. \A i \in (n + 1)..(n + n) : i - n \in 1..n
  OBVIOUS
<1>3. \A i \in 1..n : d[i].type = "kVMScheduled" /\ d[i].vm = f[(n - i) + 1]
  <2> SUFFICES ASSUME NEW i \in 1..n PROVE d[i].type = "kVMScheduled" /\ d[i].vm = f[(n - i) + 1]
    OBVIOUS
  <2>1. PICK w : w = f[(n - i) + 1]
    OBVIOUS
  <2>2. d[i] = [to |-> Storage, type |-> "kVMScheduled", vm |-> w]
    BY <2>1 DEF VMStorageEvent
  <2> QED BY <2>1, <2>2
<1>4. \A i \in (n + 1)..(n + n) : d[i].type = "kProvisionVM" /\ d[i].vm = f[i - n]
  <2> SUFFICES ASSUME NEW i \in (n + 1)..(n + n) PROVE d[i].type = "kProvisionVM" /\ d[i].vm = f[i - n]
    OBVIOUS
  <2>1. PICK w : w = f[i - n]
    OBVIOUS
  <2>2. d[i] = [to |-> FirstServer, type |-> "kProvisionVM", vm |-> w]
    BY <2>1 DEF ServerEvent
  <2> QED BY <2>1, <2>2
<1>5. \A i \in 1..Len(d) : i \in 1..n \/ i \in (n + 1)..(n + n)
  OBVIOUS
<1>6. ASSUME NEW i \in 1..Len(d)
      PROVE \E v \in P :
              d[i] \in {VMStorageEvent("kVMScheduled", v), ServerEvent(FirstServer, "kProvisionVM", v)}
  <2>1. CASE i \in 1..n
    BY <1>1, <2>1
  <2>2. CASE i \in (n + 1)..(n + n)
    BY <1>2, <2>2
  <2> QED BY <1>5, <2>1, <2>2
<1>7. PlacingFirst(d)
  BY <1>3, <1>4, <1>5 DEF PlacingFirst, PlacingType, ScheduledType
<1>8. InOrder(d)
  <2> SUFFICES ASSUME NEW i \in 1..Len(d), NEW j \in 1..Len(d), i < j, Subject(d[i]) = Subject(d[j])
               PROVE  Stage(d[i].type) < Stage(d[j].type)
    BY DEF InOrder
  <2>0. \A k \in 1..Len(d) : Subject(d[k]) = d[k].vm
    BY <1>3, <1>4, <1>5 DEF Subject
  <2>1. CASE i \in 1..n /\ j \in 1..n
    <3>1. f[(n - i) + 1] = f[(n - j) + 1]
      BY <1>3, <2>0, <2>1
    <3>2. (n - i) + 1 # (n - j) + 1
      BY <2>1
    <3> QED BY <1>1, <2>1, <3>1, <3>2
  <2>2. CASE i \in 1..n /\ j \in (n + 1)..(n + n)
    BY <1>3, <1>4, <2>2 DEF Stage
  <2>3. CASE i \in (n + 1)..(n + n) /\ j \in (n + 1)..(n + n)
    <3>1. f[i - n] = f[j - n] /\ i - n # j - n
      BY <1>4, <2>0, <2>3
    <3> QED BY <1>2, <2>3, <3>1
  <2> QED BY <1>5, <2>1, <2>2, <2>3
<1>9. ASSUME NEW i \in 1..Len(d), d[i].type = "kProvisionVM"
      PROVE  \E j \in 1..Len(d) : d[j] = VMStorageEvent("kVMScheduled", d[i].vm)
  <2>1. i \in (n + 1)..(n + n) /\ d[i].vm = f[i - n]
    BY <1>3, <1>4, <1>5, <1>9
  <2>2. PICK j \in 1..n : j = (n - (i - n)) + 1
    BY <2>1
  <2>3. (n - j) + 1 = i - n
    BY <2>1, <2>2
  <2>4. d[j] = VMStorageEvent("kVMScheduled", f[i - n]) /\ j \in 1..Len(d)
    BY <2>2, <2>3
  <2> QED BY <2>1, <2>4
<1> QED BY <1>6, <1>7, <1>8, <1>9 DEF PlannedFor

(* Every schedule of update_world() is such a plan for the VMs pending     *)
(* then.                                                                   *)
LEMMA PlanOf ==
  ASSUME ActorsInv', NEW ACTION u, u \in UpdateWorld
  PROVE  IsPlan(u)
<1>1. IsFiniteSet(Pending')
  <2>1. IsFiniteSet(DOMAIN vms')
    BY DEF ActorsInv
  <2>2. Pending' \subseteq DOMAIN vms'
    BY DEF Pending
  <2> QED BY <2>1, <2>2, FS_Subset
<1>2. Cardinality(Pending') \in Nat /\ (Cardinality(Pending') = 0 => Pending' = {})
  BY <1>1, FS_CardinalityType, FS_EmptySet
<1>3. PICK order \in SetToSeqs(Pending') : u = UpdateSchedule(order)
  BY DEF UpdateWorld
<1>4. PICK n \in Nat : n = Cardinality(Pending')
  BY <1>2
<1>5. order \in [1..n -> Pending'] /\ \A i, j \in 1..n : i # j => order[i] # order[j]
  BY <1>3, <1>4 DEF SetToSeqs
<1> DEFINE notices == [i \in 1..n |-> VMStorageEvent("kVMScheduled", order[i])]
           placements == [i \in 1..n |-> ServerEvent(FirstServer, "kProvisionVM", order[i])]
           E == {VMStorageEvent("kVMScheduled", order[i]) : i \in 1..n}
                  \cup {ServerEvent(FirstServer, "kProvisionVM", order[i]) : i \in 1..n}
<1>6. notices \in [1..n -> E] /\ placements \in [1..n -> E]
  OBVIOUS
<1>7. u = Reverse(notices) \o placements
  BY <1>3, <1>5 DEF UpdateSchedule
<1>8. \A i \in 1..n : /\ notices[i] = VMStorageEvent("kVMScheduled", order[i])
                      /\ placements[i] = ServerEvent(FirstServer, "kProvisionVM", order[i])
  OBVIOUS
<1> HIDE DEF notices, placements, E
<1>9. notices \in Seq(E) /\ Len(notices) = n /\ placements \in Seq(E) /\ Len(placements) = n
  BY <1>6
<1>10. PICK r : r = [i \in 1..n |-> notices[(n - i) + 1]]
  OBVIOUS
<1>11. Reverse(notices) = r
  BY <1>9, <1>10 DEF Reverse
<1>12. \A i \in 1..n : (n - i) + 1 \in 1..n
  OBVIOUS
<1>13. r \in [1..n -> E]
  BY <1>6, <1>10, <1>12
<1>14. r \in Seq(E) /\ Len(r) = n
  BY <1>13
<1>15. u = r \o placements /\ Len(u) = n + n
  <2>1. u = r \o placements
    BY <1>7, <1>11
  <2>2. PICK q \in Seq(E) : q = placements
    BY <1>9
  <2>3. Len(r \o q) = Len(r) + Len(q)
    BY <1>14
  <2> QED BY <1>9, <1>14, <2>1, <2>2, <2>3
<1>16. \A i \in 1..n : u[i] = r[i]
  BY <1>9, <1>14, <1>15
<1>17. \A i \in (n + 1)..(n + n) : u[i] = placements[i - n]
  BY <1>9, <1>14, <1>15
<1>18. \A i \in 1..n : u[i] = VMStorageEvent("kVMScheduled", order[(n - i) + 1])
  BY <1>8, <1>10, <1>12, <1>16
<1>19. \A i \in (n + 1)..(n + n) : u[i] = ServerEvent(FirstServer, "kProvisionVM", order[i - n])
  <2>1. \A i \in (n + 1)..(n + n) : i - n \in 1..n
    OBVIOUS
  <2> QED BY <1>8, <1>17, <2>1
<1>20. u = << >> => Pending' = {}
  <2>1. u = << >> => n + n = 0
    BY <1>15
  <2> QED BY <1>2, <1>4, <2>1
<1>21. PICK P, d : P = Pending' /\ d = u
  OBVIOUS
<1>22. PlannedFor(P, d)
  <2>1. order \in [1..n -> P] /\ Len(d) = n + n
    BY <1>5, <1>15, <1>21
  <2>2. \A i \in 1..n : d[i] = VMStorageEvent("kVMScheduled", order[(n - i) + 1])
    BY <1>18, <1>21
  <2>3. \A i \in (n + 1)..(n + n) : d[i] = ServerEvent(FirstServer, "kProvisionVM", order[i - n])
    BY <1>19, <1>21
  <2> QED BY <1>5, <2>1, <2>2, <2>3, NoticesThenPlacements, Zenon
<1> QED BY <1>20, <1>21, <1>22 DEF IsPlan

-----------------------------------------------------------------------------
(* The stages, one by one, for the provers.                                *)
LEMMA StageOf ==
  /\ Stage("kVMCreated") = 1 /\ Stage("kVMScheduled") = 2
  /\ Stage("kProvisionVM") = 3 /\ Stage("kStart") = 3
  /\ Stage("kVMHosted") = 4 /\ Stage("kVMDeleted") = 5
BY DEF Stage

(* The deque c is what is left of d when its head has been handled and out *)
(* has been filed at its end.                                              *)
Follows(d, c, out) ==
  \A i \in 1..Len(c) :
    \/ i + 1 \in 1..Len(d) /\ c[i] = d[i + 1]
    \/ \E k \in 1..Len(out) : c[i] = out[k] /\ i = k + (Len(d) - 1)

(* What the handler of d's head files may come after what waits behind it. *)
Fits(d, out) ==
  \A k \in 1..Len(out) :
    /\ out[k].type \notin ScheduledType
    /\ out[k].type = "kStart" => d[1].type = "kProvisionVM"
    /\ out[k].type # "kStart" => d[1].type \notin ScheduledType
    /\ Staged(out[k]) =>
         /\ Len(out) = 1
         /\ \A m \in 2..Len(d) :
              Staged(d[m]) /\ Subject(d[m]) = Subject(out[k]) =>
                Stage(d[m].type) < Stage(out[k].type) \/ out[k].type = "kVMDeleted"

(* What fits keeps the deque in order.                                     *)
LEMMA FitsIn ==
  ASSUME NEW d, Len(d) \in Nat \ {0}, NEW c, Len(c) \in Nat, NEW out, Len(out) \in Nat,
         InOrder(d), PlacingFirst(d), Follows(d, c, out), Fits(d, out)
  PROVE  InOrder(c) /\ PlacingFirst(c)
<1> DEFINE Up(i) == i + 1 \in 2..Len(d) /\ c[i] = d[i + 1]
           Added(i) == \E k \in 1..Len(out) : c[i] = out[k] /\ i = k + (Len(d) - 1)
<1>1. \A i \in 1..Len(c) : Up(i) \/ Added(i)
  BY DEF Follows
<1>2. \A i, j \in 1..Len(c) : i < j /\ Up(j) => Up(i)
  <2> SUFFICES ASSUME NEW i \in 1..Len(c), NEW j \in 1..Len(c), i < j, Up(j), Added(i) PROVE FALSE
    BY <1>1
  <2> QED OBVIOUS
<1>3. ASSUME NEW i \in 1..Len(c), Added(i)
      PROVE  /\ c[i].type \notin ScheduledType
             /\ c[i].type = "kStart" => d[1].type = "kProvisionVM"
             /\ c[i].type # "kStart" => d[1].type \notin ScheduledType
             /\ Staged(c[i]) =>
                  /\ i = Len(d)
                  /\ \A m \in 2..Len(d) :
                       Staged(d[m]) /\ Subject(d[m]) = Subject(c[i]) =>
                         Stage(d[m].type) < Stage(c[i].type) \/ c[i].type = "kVMDeleted"
  BY <1>3 DEF Fits
<1> HIDE DEF Added
<1>4. InOrder(c)
  <2> SUFFICES ASSUME NEW i \in 1..Len(c), NEW j \in 1..Len(c), i < j,
                      Staged(c[i]), Staged(c[j]), Subject(c[i]) = Subject(c[j])
               PROVE  Stage(c[i].type) < Stage(c[j].type) \/ c[j].type = "kVMDeleted"
    BY DEF InOrder
  <2>1. CASE Up(j)
    <3>1. Up(i)
      BY <1>2, <2>1
    <3>2. i + 1 \in 1..Len(d) /\ j + 1 \in 1..Len(d) /\ i + 1 < j + 1
      BY <2>1, <3>1
    <3> QED BY <2>1, <3>1, <3>2 DEF InOrder
  <2>2. CASE Added(j)
    <3>1. j = Len(d)
      BY <1>3, <2>2
    <3>2. Up(i)
      <4>1. CASE Added(i)
        <5>1. i = Len(d)
          BY <1>3, <4>1
        <5> QED BY <3>1, <5>1
      <4> QED BY <1>1, <4>1
    <3> QED BY <1>3, <2>2, <3>2
  <2> QED BY <1>1, <2>1, <2>2
<1>5. \A m, n \in 1..Len(d) : d[n].type \in ScheduledType => d[m].type \in PlacingType
  BY DEF PlacingFirst
<1>6. \A n \in 1..Len(d) : d[n].type \in ScheduledType => d[1].type \in ScheduledType
  <2> SUFFICES ASSUME NEW n \in 1..Len(d), d[n].type \in ScheduledType, n # 1
               PROVE  d[1].type \in ScheduledType
    OBVIOUS
  <2>1. 1 \in 1..Len(d) /\ 1 < n
    OBVIOUS
  <2> QED BY <2>1 DEF PlacingFirst
<1>7. \A j \in 1..Len(c) : c[j].type \in ScheduledType => Up(j)
  BY <1>1, <1>3
<1>8. ASSUME NEW i \in 1..Len(c), NEW j \in 1..Len(c), i < j, c[j].type \in PlacingType
      PROVE  c[i].type \in PlacingType
  <2>1. CASE Up(j)
    <3>1. Up(i)
      BY <1>2, <1>8, <2>1
    <3>2. i + 1 \in 1..Len(d) /\ j + 1 \in 1..Len(d) /\ i + 1 < j + 1
      BY <1>8, <2>1, <3>1
    <3> QED BY <1>8, <2>1, <3>1, <3>2 DEF PlacingFirst
  <2>2. CASE Added(j)
    <3>1. c[j].type = "kStart" /\ d[1].type = "kProvisionVM"
      BY <1>3, <1>8, <2>2 DEF PlacingType
    <3>2. CASE Up(i)
      <4>1. i + 1 \in 1..Len(d) /\ 1 \in 1..Len(d)
        BY <3>2
      <4> QED BY <1>5, <3>1, <3>2, <4>1 DEF ScheduledType
    <3>3. CASE Added(i)
      <4>1. d[1].type \in ScheduledType
        BY <3>1 DEF ScheduledType
      <4> QED BY <1>3, <3>3, <4>1 DEF PlacingType
    <3> QED BY <1>1, <3>2, <3>3
  <2> QED BY <1>1, <2>1, <2>2
<1>9. ASSUME NEW i \in 1..Len(c), NEW j \in 1..Len(c), c[j].type \in ScheduledType
      PROVE  c[i].type \in PlacingType
  <2>1. j + 1 \in 1..Len(d) /\ d[j + 1].type \in ScheduledType
    BY <1>7, <1>9
  <2>2. CASE Up(i)
    <3>1. i + 1 \in 1..Len(d)
      BY <2>2
    <3> QED BY <1>5, <2>1, <2>2, <3>1
  <2>3. CASE Added(i)
    BY <1>3, <1>6, <2>1, <2>3 DEF PlacingType
  <2> QED BY <1>1, <2>2, <2>3
<1>10. ASSUME NEW i \in 1..Len(c), NEW j \in 1..Len(c), i < j, c[j].type \in ScheduledType
       PROVE  c[i].type \in ScheduledType
  <2>1. Up(j) /\ Up(i)
    BY <1>2, <1>7, <1>10
  <2>2. i + 1 \in 1..Len(d) /\ j + 1 \in 1..Len(d) /\ i + 1 < j + 1
    BY <1>10, <2>1
  <2> QED BY <1>10, <2>1, <2>2 DEF PlacingFirst
<1> QED BY <1>4, <1>8, <1>9, <1>10 DEF PlacingFirst

(* The events that wait behind the one a step for time t handles. *)
Behind(t) == {queue[t][m] : m \in 2..Len(queue[t])}

(* What the handler that runs at time t and schedules out for time at has  *)
(* to see to for the storage's view to stay right: what it files fits in   *)
(* and agrees with the books, and what waits still does.                   *)
Advances(t, at, out) ==
  /\ (\E k \in 1..Len(out) : Staged(out[k])) => at = t
  /\ Fits(queue[t], out)
  /\ \A k \in 1..Len(out) : \A e : e = out[k] /\ Staged(e) => Agrees(e)'
  /\ \A e \in Behind(t) : Staged(e) => Agrees(e)'
  /\ Books'

(* The plan agrees with the books it was made from.                        *)
LEMMA PlanAgrees ==
  ASSUME ActorsInv', Books', NEW ACTION u, IsPlan(u),
         NEW t, t \in DOMAIN queue', queue'[t] = u,
         NEW i \in 1..Len(u), NEW e, e = u[i]
  PROVE  Agrees(e)'
<1>1. PICK w \in Pending' :
        e \in {VMStorageEvent("kVMScheduled", w), ServerEvent(FirstServer, "kProvisionVM", w)}
  BY DEF IsPlan, PlannedFor
<1>2. w \in DOMAIN vms' /\ vms'[w] = "kPending" /\ w \in DOMAIN vmState' /\ vmState'[w] \in VMState
  BY DEF Pending, ActorsInv, Complete, VMTypeOK
<1>3. CASE e = VMStorageEvent("kVMScheduled", w)
  <2>1. e.type = "kVMScheduled" /\ e.vm = w
    BY <1>3 DEF VMStorageEvent
  <2> QED BY <1>2, <2>1 DEF Agrees, Subject
<1>4. CASE e = ServerEvent(FirstServer, "kProvisionVM", w)
  <2>1. e.type = "kProvisionVM" /\ e.vm = w
    BY <1>4 DEF ServerEvent
  <2>2. PICK f : f = VMStorageEvent("kVMScheduled", w)
    OBVIOUS
  <2>3. \E j \in 1..Len(u) : u[j] = f
    BY <2>1, <2>2 DEF IsPlan, PlannedFor
  <2>4. Queued(f)'
    BY <2>3 DEF Queued, QueuedAt
  <2>5. Queued(VMStorageEvent("kVMScheduled", w))'
    BY <2>2, <2>4
  <2>6. vmState'[w] \in {"kProvisioning", "kDeleting", "kFailure"}
    BY <1>2 DEF Books, Booked, VMState
  <2> QED BY <1>2, <2>1, <2>5, <2>6 DEF Agrees, Subject
<1> QED BY <1>1, <1>3, <1>4

(* Only the deque of t, and what joins it, has to be looked at.            *)
LEMMA StagedSource ==
  ASSUME QueueTypeOK(Sent), UnderWay, NEW t \in DOMAIN queue, IsNext(t),
         NEW at \in Nat, at >= t, NEW out \in Seq(Sent), EndOfStep(t, at, out, UpdateWorld),
         Advances(t, at, out),
         NEW u \in DOMAIN queue', NEW i \in 1..Len(queue'[u]), Staged(queue'[u][i])
  PROVE  u = t
<1>1. \/ WasFiled(t, u, i) \/ HasMovedUp(t, u, i)
      \/ IsNew(t, at, out, u, i) \/ IsUpdate(t, UpdateWorld, u)
  BY StepSources
<1>2. CASE WasFiled(t, u, i)
  <2>1. IsNext(u)
    BY <1>2 DEF WasFiled, UnderWay, StagedAtOnce, Staged
  <2>2. t \in Nat /\ u \in Nat /\ t <= u /\ u <= t
    BY <2>1 DEF IsNext, QueueTypeOK
  <2> QED BY <2>2
<1>3. CASE IsNew(t, at, out, u, i)
  BY <1>3 DEF IsNew, Advances
<1> QED BY <1>1, <1>2, <1>3 DEF HasMovedUp, IsUpdate

(* A handler that sees to it keeps what is under way in order.             *)
LEMMA StepAdvances ==
  ASSUME QueueTypeOK(Sent), UnderWay, NEW t \in DOMAIN queue, IsNext(t), WorldInv',
         NEW at \in Nat, at >= t, NEW out \in Seq(Sent), EndOfStep(t, at, out, UpdateWorld),
         Advances(t, at, out)
  PROVE  UnderWay'
<1>1. StagedAtOnce'
  <2>1. \A u \in DOMAIN queue' : t <= u
    BY StaysNext
  <2> QED BY <2>1, StagedSource DEF StagedAtOnce, IsNext
<1>2. PICK d : d = queue[t]
  OBVIOUS
<1>3. /\ d \in Seq(Sent) /\ Len(d) \in Nat \ {0} /\ Len(out) \in Nat
      /\ InOrder(d) /\ PlacingFirst(d) /\ Fits(d, out)
  BY <1>2 DEF QueueTypeOK, UnderWay, Advances
<1>4. ASSUME t \in DOMAIN queue'
      PROVE  /\ InOrder(queue'[t]) /\ PlacingFirst(queue'[t])
             /\ \A i \in 1..Len(queue'[t]) : \A e : e = queue'[t][i] /\ Staged(e) => Agrees(e)'
  <2>1. PICK c : c = queue'[t]
    OBVIOUS
  <2>2. Len(c) \in Nat
    BY <1>4, <2>1 DEF WorldInv, QueueTypeOK
  <2>3. CASE c \in UpdateWorld
    <3>1. ActorsInv' /\ Books'
      BY DEF WorldInv, Advances
    <3>2. IsPlan(c)
      BY <2>3, <3>1, PlanOf
    <3>3. \A i \in 1..Len(c) : \A e : e = c[i] => Agrees(e)'
      BY <1>4, <2>1, <3>1, <3>2, PlanAgrees
    <3> QED BY <2>1, <3>2, <3>3 DEF IsPlan, PlannedFor
  <2>4. CASE c \notin UpdateWorld
    <3>1. ASSUME NEW i \in 1..Len(c)
          PROVE  \/ i + 1 \in 1..Len(d) /\ c[i] = d[i + 1]
                 \/ \E k \in 1..Len(out) : c[i] = out[k] /\ i = k + (Len(d) - 1)
      <4>1. \/ WasFiled(t, t, i) \/ HasMovedUp(t, t, i)
            \/ IsNew(t, at, out, t, i) \/ IsUpdate(t, UpdateWorld, t)
        BY <1>4, <2>1, StepSources
      <4> QED BY <1>2, <2>1, <2>4, <4>1 DEF WasFiled, HasMovedUp, IsNew, IsUpdate
    <3>2. InOrder(c) /\ PlacingFirst(c)
      BY <1>3, <2>2, <3>1, FitsIn DEF Follows
    <3>3. ASSUME NEW i \in 1..Len(c), NEW e, e = c[i], Staged(e) PROVE Agrees(e)'
      <4>1. CASE i + 1 \in 1..Len(d) /\ c[i] = d[i + 1]
        <5>1. i + 1 \in 2..Len(queue[t])
          BY <1>2, <2>2, <4>1
        <5>2. e \in Behind(t)
          BY <1>2, <3>3, <4>1, <5>1 DEF Behind
        <5> QED BY <3>3, <5>2 DEF Advances
      <4>2. CASE \E k \in 1..Len(out) : c[i] = out[k]
        BY <3>3, <4>2 DEF Advances
      <4> QED BY <3>1, <4>1, <4>2
    <3> QED BY <2>1, <3>2, <3>3
  <2> QED BY <2>3, <2>4
<1>5. ASSUME NEW u \in DOMAIN queue', u # t PROVE InOrder(queue'[u]) /\ PlacingFirst(queue'[u])
  <2>1. \A i \in 1..Len(queue'[u]) : ~Staged(queue'[u][i])
    BY <1>5, StagedSource
  <2> QED BY <2>1 DEF InOrder, PlacingFirst, Staged, StagedType, PlacingType, ScheduledType
<1>6. AllAgree'
  <2> SUFFICES ASSUME NEW u \in DOMAIN queue', NEW i \in 1..Len(queue'[u]), Staged(queue'[u][i])
               PROVE  Agrees(queue[u][i])'
    BY DEF AllAgree, Staged
  <2>1. u = t
    BY StagedSource
  <2>2. PICK e : e = queue'[t][i]
    OBVIOUS
  <2>3. Agrees(e)'
    BY <1>4, <2>1, <2>2
  <2> QED BY <2>1, <2>2, <2>3
<1>7. (\A u \in DOMAIN queue : InOrder(queue[u]) /\ PlacingFirst(queue[u]))'
  BY <1>4, <1>5
<1> QED BY <1>1, <1>6, <1>7 DEF UnderWay

-----------------------------------------------------------------------------
(* A step keeps what waits, except the event it handles, and files no      *)
(* report of a new VM.                                                     *)
KeepsQueued(t) == \A e : Queued(e) /\ e # NextEvent(t) => Queued(e)'

CreatesNone(t) == \A e : e.type = "kVMCreated" /\ Queued(e)' => e \in Behind(t)

(* The storage has written nothing about v.                                *)
SameBooks(v) ==
  /\ v \in DOMAIN vms' <=> v \in DOMAIN vms
  /\ v \in DOMAIN vms => vms'[v] = vms[v]

(* The events that the books of v speak of.                                *)
BookEvents(v) ==
  {VMStorageEvent("kVMHosted", v), VMStorageEvent("kVMDeleted", v), VMEvent(v, "kDeleteCompleted")}

(* What is known of an event behind the head.                              *)
LEMMA BehindHead ==
  ASSUME QueueTypeOK(Sent), UnderWay, NEW t \in DOMAIN queue, NEW e \in Behind(t)
  PROVE  /\ Queued(e) /\ e \in Sent
         /\ Staged(e) => Agrees(e)
         /\ Staged(e) /\ Staged(NextEvent(t)) /\ Subject(e) = Subject(NextEvent(t)) =>
              Stage(NextEvent(t).type) < Stage(e.type) \/ e.type = "kVMDeleted"
         /\ NextEvent(t).type \in ScheduledType => e.type \in PlacingType
<1>1. queue[t] \in Seq(Sent) /\ queue[t] # << >> /\ Len(queue[t]) \in Nat \ {0}
  BY DEF QueueTypeOK
<1>2. PICK m \in 2..Len(queue[t]) : e = queue[t][m]
  BY DEF Behind
<1>3. 1 \in 1..Len(queue[t]) /\ m \in 1..Len(queue[t]) /\ 1 < m /\ NextEvent(t) = queue[t][1]
  BY <1>1 DEF NextEvent
<1>4. Queued(e) /\ e \in Sent
  BY <1>1, <1>2, <1>3 DEF Queued, QueuedAt
<1>5. Staged(e) => Agrees(e)
  BY <1>2, <1>3 DEF UnderWay, AllAgree
<1> QED BY <1>2, <1>3, <1>4, <1>5 DEF UnderWay, InOrder, PlacingFirst

(* Every step keeps what waits.                                            *)
LEMMA QueuedKept ==
  ASSUME QueueTypeOK(Sent), NEW t \in DOMAIN queue,
         NEW at \in Nat, at >= t, NEW out \in Seq(Sent), EndOfStep(t, at, out, UpdateWorld)
  PROVE  KeepsQueued(t)
BY StepKeeps DEF KeepsQueued

(* A report that waits for time t, and there is none for any other time.   *)
LEMMA StagedIsNextOrBehind ==
  ASSUME QueueTypeOK(Sent), UnderWay, NEW t \in DOMAIN queue, IsNext(t), NEW e, Queued(e), Staged(e)
  PROVE  e = NextEvent(t) \/ e \in Behind(t)
<1>1. PICK u \in DOMAIN queue : \E i \in 1..Len(queue[u]) : queue[u][i] = e
  BY DEF Queued, QueuedAt
<1>2. PICK i \in 1..Len(queue[u]) : queue[u][i] = e
  BY <1>1
<1>3. u = t
  <2>1. IsNext(u)
    BY <1>2 DEF UnderWay, StagedAtOnce
  <2>2. t \in Nat /\ u \in Nat /\ t <= u /\ u <= t
    BY <2>1 DEF IsNext, QueueTypeOK
  <2> QED BY <2>2
<1>4. queue[t] \in Seq(Sent) /\ queue[t] # << >> /\ Len(queue[t]) \in Nat
  BY DEF QueueTypeOK
<1>5. i = 1 \/ i \in 2..Len(queue[t])
  BY <1>2, <1>3, <1>4
<1> QED BY <1>2, <1>3, <1>4, <1>5 DEF NextEvent, Behind

(* A step that files no report of a new VM leaves those that waited.       *)
LEMMA NoneCreated ==
  ASSUME QueueTypeOK(Sent), UnderWay, NEW t \in DOMAIN queue, IsNext(t), WorldInv',
         NEW at \in Nat, at >= t, NEW out \in Seq(Sent), EndOfStep(t, at, out, UpdateWorld),
         \A k \in 1..Len(out) : out[k].type # "kVMCreated"
  PROVE  CreatesNone(t)
<1> SUFFICES ASSUME NEW e, e.type = "kVMCreated", Queued(e)' PROVE e \in Behind(t)
  BY DEF CreatesNone
<1>1. PICK u \in DOMAIN queue' : \E i \in 1..Len(queue'[u]) : queue'[u][i] = e
  BY DEF Queued, QueuedAt
<1>2. PICK i \in 1..Len(queue'[u]) : queue'[u][i] = e
  BY <1>1
<1>3. \/ WasFiled(t, u, i) \/ HasMovedUp(t, u, i)
      \/ IsNew(t, at, out, u, i) \/ IsUpdate(t, UpdateWorld, u)
  BY StepSources
<1>4. ~WasFiled(t, u, i)
  <2> SUFFICES ASSUME WasFiled(t, u, i) PROVE FALSE
    OBVIOUS
  <2>1. u \in DOMAIN queue /\ u # t /\ i \in 1..Len(queue[u]) /\ queue[u][i] = e
    BY <1>2 DEF WasFiled
  <2>2. IsNext(u)
    BY <2>1 DEF UnderWay, StagedAtOnce, Staged, StagedType
  <2>3. t \in Nat /\ u \in Nat /\ t <= u /\ u <= t
    BY <2>1, <2>2 DEF IsNext, QueueTypeOK
  <2> QED BY <2>1, <2>3
<1>5. ~IsNew(t, at, out, u, i)
  BY <1>2 DEF IsNew
<1>6. ~IsUpdate(t, UpdateWorld, u)
  <2> SUFFICES ASSUME IsUpdate(t, UpdateWorld, u) PROVE FALSE
    OBVIOUS
  <2>1. PICK c : c = queue'[t]
    OBVIOUS
  <2>2. c \in UpdateWorld /\ u = t
    BY <2>1 DEF IsUpdate
  <2>3. IsPlan(c)
    BY <2>2, PlanOf DEF WorldInv
  <2>4. \E v \in Pending' :
          e \in {VMStorageEvent("kVMScheduled", v), ServerEvent(FirstServer, "kProvisionVM", v)}
    BY <1>2, <2>1, <2>2, <2>3 DEF IsPlan, PlannedFor
  <2> QED BY <2>4 DEF VMStorageEvent, ServerEvent
<1>7. HasMovedUp(t, u, i)
  BY <1>3, <1>4, <1>5, <1>6
<1>8. i + 1 \in 2..Len(queue[t]) /\ queue[t][i + 1] = e
  <2>1. Len(queue'[u]) \in Nat /\ Len(queue[t]) \in Nat
    BY DEF WorldInv, QueueTypeOK
  <2> QED BY <1>2, <1>7, <2>1 DEF HasMovedUp
<1> QED BY <1>8 DEF Behind

(* The books of a VM that a step leaves alone.                             *)
LEMMA BookedKept ==
  ASSUME QueueTypeOK(Sent), UnderWay, NEW t \in DOMAIN queue, KeepsQueued(t), CreatesNone(t),
         NEW v, Booked(v), SameBooks(v), vmState'[v] = vmState[v], NextEvent(t) \notin BookEvents(v)
  PROVE  Booked(v)'
<1> DEFINE H == VMStorageEvent("kVMHosted", v)
           D == VMStorageEvent("kVMDeleted", v)
           F == VMEvent(v, "kDeleteCompleted")
           C == VMStorageEvent("kVMCreated", v)
<1>1. /\ Queued(H) => Queued(H)'
      /\ Queued(D) => Queued(D)'
      /\ Queued(F) => Queued(F)'
  BY DEF KeepsQueued, BookEvents
<1>2. Queued(C)' => Queued(C)
  <2>1. C.type = "kVMCreated"
    BY DEF VMStorageEvent
  <2> QED BY <2>1, BehindHead DEF CreatesNone
<1> QED BY <1>1, <1>2 DEF Booked, SameBooks

(* The moves of a VM that nothing under way about it minds.                *)
Tolerated(v) ==
  \/ vmState'[v] = vmState[v]
  \/ vmState'[v] \in {"kDeleting", "kFailure"}
  \/ vmState[v] \in {"kRunning", "kStopping"} /\ vmState'[v] \in {"kStopping", "kStopped"}

(* An event goes on to agree with books that stay the same.                *)
LEMMA AgreesKept ==
  ASSUME NEW t \in DOMAIN queue, KeepsQueued(t), NEW e, Staged(e), Agrees(e),
         NEW v, v = Subject(e), SameBooks(v), Tolerated(v), DOMAIN vmState' = DOMAIN vmState,
         NextEvent(t) # VMStorageEvent("kVMScheduled", v)
  PROVE  Agrees(e)'
<1>1. Queued(VMStorageEvent("kVMScheduled", v)) => Queued(VMStorageEvent("kVMScheduled", v))'
  BY DEF KeepsQueued
<1>2. CASE e.type \in {"kVMCreated", "kVMScheduled"}
  BY <1>2 DEF Agrees, SameBooks
<1>3. CASE e.type \in {"kProvisionVM", "kStart"}
  BY <1>1, <1>3 DEF Agrees, SameBooks, Tolerated
<1>4. CASE e.type = "kVMHosted"
  BY <1>4 DEF Agrees, SameBooks, Tolerated
<1>5. CASE e.type = "kVMDeleted"
  BY <1>5 DEF Agrees, SameBooks, Tolerated
<1> QED BY <1>2, <1>3, <1>4, <1>5 DEF Staged, StagedType

-----------------------------------------------------------------------------
(* What a step of the loop for time t has to show. *)
HandledWell(t) ==
  \E at \in Nat : \E out \in Seq(Sent) :
    /\ at >= t
    /\ EndOfStep(t, at, out, UpdateWorld)
    /\ storageState' = "kOk" => Advances(t, at, out)

(* Where it starts. *)
Begins(t) == BooksInv /\ WorldInv' /\ Complete' = Complete /\ t \in DOMAIN queue /\ IsNext(t)

(* Anything for another actor than the storage may be sent.                *)
LEMMA SentToOthers ==
  ASSUME NEW e \in WorldEvent, e.to # Storage, e.type \notin {"kVMStopped", "kRestart"}
  PROVE  e \in Sent
BY DEF Sent

(* What is known at the start of a step.                                   *)
LEMMA BeginsMeans ==
  ASSUME NEW t, Begins(t)
  PROVE  /\ PlacedInv /\ WorldInv /\ ActorsInv /\ QueueTypeOK(Sent)
         /\ t \in Nat /\ t >= t /\ << >> \in Seq(Sent)
         /\ NextEvent(t) \in Sent /\ NextEvent(t) \in Filed /\ NextEvent(t) \in PlaceableIn(Placed)
         /\ DOMAIN vmState \subseteq VM /\ DOMAIN vms \subseteq DOMAIN vmState
         /\ \A v \in DOMAIN vms : v \in Complete
         /\ storageState = "kOk" => UnderWay /\ Books
BY NextIsPlaceable DEF Begins, BooksInv, PlacedInv, WorldInv, QueueTypeOK, NextEvent, ActorsInv, VMTypeOK, Complete

(* Everything under way is about a VM that was made.                       *)
LEMMA SubjectIsMade ==
  ASSUME NEW e, Staged(e), Agrees(e), e.type # "kVMCreated"
  PROVE  Subject(e) \in DOMAIN vms \/ Subject(e) \in DOMAIN vmState
BY DEF Staged, StagedType, Agrees

(* A handler that touches neither the storage's books nor a VM.            *)
LEMMA UntouchedBooks ==
  ASSUME NEW t, Begins(t), storageState = "kOk",
         NEW at \in Nat, at >= t, NEW out \in Seq(Sent), EndOfStep(t, at, out, UpdateWorld),
         UNCHANGED <<vms, vmState>>,
         \A k \in 1..Len(out) : out[k].type # "kVMCreated",
         \A v \in DOMAIN vmState : NextEvent(t) \notin BookEvents(v)
                                   /\ NextEvent(t) # VMStorageEvent("kVMScheduled", v)
  PROVE  /\ KeepsQueued(t)
         /\ \A e \in Behind(t) : Staged(e) => Agrees(e)'
         /\ Books'
<1>1. /\ QueueTypeOK(Sent) /\ t \in DOMAIN queue /\ IsNext(t) /\ UnderWay /\ Books /\ WorldInv'
      /\ DOMAIN vms \subseteq DOMAIN vmState
  BY BeginsMeans DEF Begins
<1>2. KeepsQueued(t) /\ CreatesNone(t)
  BY <1>1, QueuedKept, NoneCreated
<1>3. ASSUME NEW e \in Behind(t), Staged(e) PROVE Agrees(e)'
  <2>1. Agrees(e)
    BY <1>1, <1>3, BehindHead
  <2>2. CASE e.type = "kVMCreated"
    BY <2>1, <2>2 DEF Agrees
  <2>3. CASE e.type # "kVMCreated"
    <3>1. PICK v : v = Subject(e)
      OBVIOUS
    <3>2. v \in DOMAIN vmState
      BY <1>1, <1>3, <2>1, <2>3, <3>1, SubjectIsMade
    <3>3. SameBooks(v) /\ Tolerated(v) /\ DOMAIN vmState' = DOMAIN vmState
      BY DEF SameBooks, Tolerated
    <3> QED BY <1>1, <1>2, <1>3, <2>1, <3>1, <3>2, <3>3, AgreesKept
  <2> QED BY <2>2, <2>3
<1>4. Books'
  <2> SUFFICES ASSUME NEW v \in DOMAIN vmState PROVE Booked(v)'
    BY DEF Books
  <2>1. Booked(v) /\ SameBooks(v)
    BY <1>1 DEF Books, SameBooks
  <2> QED BY <1>1, <1>2, <2>1, BookedKept
<1> QED BY <1>2, <1>3, <1>4

(* A handler that files nothing about a VM either.                         *)
LEMMA QuietAdvances ==
  ASSUME NEW t, Begins(t), storageState = "kOk",
         NEW at \in Nat, at >= t, NEW out \in Seq(Sent), EndOfStep(t, at, out, UpdateWorld),
         UNCHANGED <<vms, vmState>>,
         \A k \in 1..Len(out) : ~Staged(out[k]) /\ NextEvent(t).type \notin ScheduledType,
         \A v \in DOMAIN vmState : NextEvent(t) \notin BookEvents(v)
                                   /\ NextEvent(t) # VMStorageEvent("kVMScheduled", v)
  PROVE  Advances(t, at, out)
<1>1. \A k \in 1..Len(out) : out[k].type \notin {"kVMCreated", "kStart"} \cup ScheduledType
  BY DEF Staged, StagedType, ScheduledType
<1>2. /\ \A e \in Behind(t) : Staged(e) => Agrees(e)'
      /\ Books'
  BY <1>1, UntouchedBooks
<1>3. NextEvent(t) = queue[t][1]
  BY DEF NextEvent
<1> QED BY <1>1, <1>2, <1>3 DEF Advances, Fits

(* A handler that does nothing at all.                                     *)
LEMMA NothingAdvances ==
  ASSUME NEW t, Begins(t), EndOfStep(t, t, << >>, UpdateWorld), UNCHANGED <<vms, vmState>>,
         UNCHANGED storageState,
         \A v \in DOMAIN vmState : NextEvent(t) \notin BookEvents(v)
                                   /\ NextEvent(t) # VMStorageEvent("kVMScheduled", v)
  PROVE  HandledWell(t)
<1>1. PICK out \in Seq(Sent) : out = << >>
  BY BeginsMeans
<1>2. t \in Nat /\ t >= t /\ EndOfStep(t, t, out, UpdateWorld)
  BY <1>1, BeginsMeans
<1>3. \A k \in 1..Len(out) : ~Staged(out[k]) /\ NextEvent(t).type \notin ScheduledType
  BY <1>1
<1>4. storageState' = "kOk" => Advances(t, t, out)
  BY <1>2, <1>3, QuietAdvances
<1> QED BY <1>2, <1>4 DEF HandledWell

(* An event for a resource, or for nobody, is not one the books speak of.  *)
LEMMA OthersHead ==
  ASSUME NEW t, Begins(t), NextEvent(t).to \in Resource \cup {NoActor}
  PROVE  \A v \in DOMAIN vmState : NextEvent(t) \notin BookEvents(v)
                                   /\ NextEvent(t) # VMStorageEvent("kVMScheduled", v)
<1>1. DOMAIN vmState \subseteq VM
  BY BeginsMeans
<1>2. \A v \in DOMAIN vmState : v \notin Resource \cup {NoActor} /\ Storage \notin Resource \cup {NoActor}
  BY <1>1, WorldAssumption
<1> QED BY <1>2 DEF BookEvents, VMStorageEvent, VMEvent

(* Resources cascade commands among themselves.                            *)
LEMMA ResourceHandledWell ==
  ASSUME NEW t, Begins(t), ResourceStep(t, UpdateWorld)
  PROVE  HandledWell(t)
<1>1. PICK r \in Resource : HandleResourceEvent(r, t, UpdateWorld) \/ ResourceInvalidEvent(r, t, UpdateWorld)
  BY DEF ResourceStep
<1>2. UNCHANGED <<vms, vmState, storageState>>
  BY DEF ResourceStep, storageVars, vmVars
<1>3. WorldInv /\ t \in Nat /\ t >= t /\ << >> \in Seq(Sent)
  BY BeginsMeans
<1>4. PICK S : S = {e \in Sent : e.type \in ResourceEventType}
  OBVIOUS
<1>5. \A n \in Resource, type \in ResourceEventType : ResourceEvent(n, type) \in S
  <2> SUFFICES ASSUME NEW n \in Resource, NEW type \in ResourceEventType
               PROVE  ResourceEvent(n, type) \in S
    OBVIOUS
  <2>1. PICK e : e = ResourceEvent(n, type)
    OBVIOUS
  <2>2. e \in Filed
    BY <1>3, <2>1, CommandFiled DEF ResourceEvent, Registered
  <2>3. e.type = type /\ e.to = n
    BY <2>1 DEF ResourceEvent
  <2>4. n # Storage /\ type \notin {"kVMStopped", "kRestart"}
    BY WorldAssumption DEF ResourceEventType, ResourceCommand
  <2>5. e \in Sent
    BY <2>2, <2>3, <2>4, SentToOthers DEF Filed
  <2> QED BY <1>4, <2>1, <2>3, <2>5
<1>6. \A command, finished \in ResourceEventType : Cascade(r, command, finished) \in Seq(S)
  BY <1>5, CascadeOf
<1>7. NextEvent(t).to = r
  BY <1>1 DEF HandleResourceEvent, ResourceInvalidEvent, StartBoot, BootIgnored, StartShutdown,
              ShutdownIgnored, StartReboot, CompleteBoot, CompleteShutdown, Receives, ResourceEvent
<1>8. \A v \in DOMAIN vmState : NextEvent(t) \notin BookEvents(v)
                                /\ NextEvent(t) # VMStorageEvent("kVMScheduled", v)
  BY <1>7, OthersHead
<1>9. ASSUME NEW at \in Nat, at >= t, NEW out \in Seq(S), EndOfStep(t, at, out, UpdateWorld),
             NextEvent(t).type \in ResourceEventType
      PROVE  HandledWell(t)
  <2>1. out \in Seq(Sent)
    BY <1>4
  <2>2. \A k \in 1..Len(out) : out[k].type \in ResourceEventType
    BY <1>4
  <2>3. \A k \in 1..Len(out) : ~Staged(out[k]) /\ NextEvent(t).type \notin ScheduledType
    BY <1>9, <2>2 DEF Staged, StagedType, ScheduledType, ResourceEventType, ResourceCommand
  <2>4. storageState' = "kOk" => Advances(t, at, out)
    BY <1>2, <1>8, <1>9, <2>1, <2>3, QuietAdvances
  <2> QED BY <1>9, <2>1, <2>4 DEF HandledWell
<1>10. CASE StartBoot(r, t, UpdateWorld)
  <2>1. t + StartupDelay[r] \in Nat /\ t + StartupDelay[r] >= t
    BY <1>3, ResourceAssumption
  <2>2. Cascade(r, "kBoot", "kBootFinished") \in Seq(S)
    BY <1>6 DEF ResourceEventType, ResourceCommand
  <2>3. EndOfStep(t, t + StartupDelay[r], Cascade(r, "kBoot", "kBootFinished"), UpdateWorld)
    BY <1>10 DEF StartBoot
  <2>4. NextEvent(t).type \in ResourceEventType
    BY <1>10 DEF StartBoot, Receives, ResourceEvent, ResourceEventType, ResourceCommand
  <2>5. PICK at, out : at = t + StartupDelay[r] /\ out = Cascade(r, "kBoot", "kBootFinished")
    OBVIOUS
  <2>6. EndOfStep(t, at, out, UpdateWorld) /\ at \in Nat /\ at >= t /\ out \in Seq(S)
    BY <2>1, <2>2, <2>3, <2>5
  <2> QED BY <1>9, <2>4, <2>6
<1>11. CASE StartShutdown(r, t, UpdateWorld)
  <2>1. t + ShutdownDelay[r] \in Nat /\ t + ShutdownDelay[r] >= t
    BY <1>3, ResourceAssumption
  <2>2. Cascade(r, "kShutdown", "kShutdownFinished") \in Seq(S)
    BY <1>6 DEF ResourceEventType, ResourceCommand
  <2>3. EndOfStep(t, t + ShutdownDelay[r], Cascade(r, "kShutdown", "kShutdownFinished"), UpdateWorld)
    BY <1>11 DEF StartShutdown
  <2>4. NextEvent(t).type \in ResourceEventType
    BY <1>11 DEF StartShutdown, Receives, ResourceEvent, ResourceEventType, ResourceCommand
  <2>5. PICK at, out : at = t + ShutdownDelay[r] /\ out = Cascade(r, "kShutdown", "kShutdownFinished")
    OBVIOUS
  <2>6. EndOfStep(t, at, out, UpdateWorld) /\ at \in Nat /\ at >= t /\ out \in Seq(S)
    BY <2>1, <2>2, <2>3, <2>5
  <2> QED BY <1>9, <2>4, <2>6
<1>12. CASE EndOfStep(t, t, << >>, UpdateWorld)
  BY <1>2, <1>8, <1>12, NothingAdvances
<1>13. CASE \/ BootIgnored(r, t, UpdateWorld) \/ ShutdownIgnored(r, t, UpdateWorld)
            \/ StartReboot(r, t, UpdateWorld) \/ CompleteBoot(r, t, UpdateWorld)
            \/ CompleteShutdown(r, t, UpdateWorld) \/ ResourceInvalidEvent(r, t, UpdateWorld)
  BY <1>12, <1>13 DEF BootIgnored, ShutdownIgnored, StartReboot, CompleteBoot, CompleteShutdown,
                      ResourceInvalidEvent, NothingScheduled
<1> QED BY <1>1, <1>10, <1>11, <1>13 DEF HandleResourceEvent

(* An event for nobody is dropped.                                         *)
LEMMA NobodyHandledWell ==
  ASSUME NEW t, Begins(t), NobodyStep(t, UpdateWorld)
  PROVE  HandledWell(t)
<1>1. UNCHANGED <<vms, vmState, storageState>> /\ EndOfStep(t, t, << >>, UpdateWorld)
  BY DEF NobodyStep, actorVars, storageVars, vmVars
<1>2. NextEvent(t).to \in Resource \cup {NoActor}
  BY DEF NobodyStep
<1> QED BY <1>1, <1>2, OthersHead, NothingAdvances

-----------------------------------------------------------------------------
(* The event that is handled agrees with the books.                        *)
LEMMA HeadAgrees ==
  ASSUME QueueTypeOK(Sent), UnderWay, NEW t \in DOMAIN queue, NEW e, e = NextEvent(t), Staged(e)
  PROVE  Agrees(e)
<1>1. 1 \in 1..Len(queue[t]) /\ e = queue[t][1]
  BY DEF QueueTypeOK, NextEvent
<1> QED BY <1>1 DEF UnderWay, AllAgree

(* What a step that reports no new VM does to the queue.                   *)
LEMMA StepQueues ==
  ASSUME NEW t, Begins(t), storageState = "kOk",
         NEW at \in Nat, at >= t, NEW out \in Seq(Sent), EndOfStep(t, at, out, UpdateWorld),
         \A k \in 1..Len(out) : out[k].type # "kVMCreated"
  PROVE  KeepsQueued(t) /\ CreatesNone(t)
<1>1. QueueTypeOK(Sent) /\ t \in DOMAIN queue /\ IsNext(t) /\ UnderWay /\ WorldInv'
  BY BeginsMeans DEF Begins
<1> QED BY <1>1, QueuedKept, NoneCreated

(* The start filed for a VM being placed finds nothing else about it.      *)
LEMMA ServerHandledWell ==
  ASSUME NEW t, Begins(t), ServerStep(t, UpdateWorld)
  PROVE  HandledWell(t)
<1>1. PICK s \in Servers, v \in VM : ProvisionVM(s, v, t, UpdateWorld) \/ UnprovisionVM(s, v, t, UpdateWorld)
  BY DEF ServerStep
<1>2. /\ t \in Nat /\ t >= t /\ WorldInv
      /\ NextEvent(t) \in PlaceableIn(Placed) /\ NextEvent(t) \in Filed
      /\ storageState = "kOk" => UnderWay /\ Books
      /\ QueueTypeOK(Sent) /\ t \in DOMAIN queue /\ IsNext(t)
  BY BeginsMeans DEF Begins
<1>3. ~UnprovisionVM(s, v, t, UpdateWorld)
  BY <1>2, ServerAssumption, WorldAssumption DEF UnprovisionVM, PlaceableIn
<1>4. ProvisionVM(s, v, t, UpdateWorld)
  BY <1>1, <1>3
<1>5. NextEvent(t) = ServerEvent(s, "kProvisionVM", v)
  BY <1>4 DEF ProvisionVM
<1>6. NextEvent(t).type = "kProvisionVM" /\ NextEvent(t).to = s /\ NextEvent(t).vm = v
  BY <1>5 DEF ServerEvent
<1>7. v \in Complete /\ s \in Resource
  BY <1>2, <1>6, ServerAssumption DEF Filed
<1>8. UNCHANGED <<vms, vmState, storageState>>
  BY DEF ServerStep, storageVars, vmVars
<1>9. \A w \in DOMAIN vmState : NextEvent(t) \notin BookEvents(w)
                                /\ NextEvent(t) # VMStorageEvent("kVMScheduled", w)
  BY <1>6, <1>7, OthersHead
<1>10. CASE EndOfStep(t, t, << >>, UpdateWorld)
  BY <1>8, <1>9, <1>10, NothingAdvances
<1>11. CASE EndOfStep(t, t, <<StartEvent(v, s)>>, UpdateWorld)
  <2>1. PICK f : f = StartEvent(v, s)
    OBVIOUS
  <2>2. f \in Filed /\ f.type = "kStart" /\ f.to = v
    BY <1>2, <1>7, <2>1, PlacementFiled DEF StartEvent
  <2>3. f \in Sent
    BY <2>2, SentToOthers, WorldAssumption DEF Filed
  <2>4. PICK out \in Seq(Sent) : out = <<f>>
    <3>1. <<f>> \in Seq(Sent)
      BY <2>3
    <3> QED BY <3>1
  <2>5. Len(out) = 1 /\ out[1] = f /\ EndOfStep(t, t, out, UpdateWorld)
    BY <1>11, <2>1, <2>4
  <2>6. ASSUME storageState = "kOk" PROVE Advances(t, t, out)
    <3>1. \A k \in 1..Len(out) : out[k].type # "kVMCreated"
      BY <2>2, <2>5
    <3>2. /\ KeepsQueued(t)
          /\ \A e \in Behind(t) : Staged(e) => Agrees(e)'
          /\ Books'
      BY <1>2, <1>8, <1>9, <2>5, <2>6, <3>1, UntouchedBooks
    <3>3. Staged(NextEvent(t)) /\ Subject(NextEvent(t)) = v
      BY <1>6 DEF Staged, StagedType, Subject
    <3>4. \A e \in Behind(t) : Staged(e) => Subject(e) # v
      <4> SUFFICES ASSUME NEW e \in Behind(t), Staged(e), Subject(e) = v PROVE FALSE
        OBVIOUS
      <4>1. Stage(NextEvent(t).type) < Stage(e.type) \/ e.type = "kVMDeleted"
        BY <1>2, <2>6, <3>3, BehindHead
      <4>2. e.type \in PlacingType
        BY <1>2, <1>6, <2>6, BehindHead DEF ScheduledType
      <4> QED BY <1>6, <4>1, <4>2, StageOf DEF PlacingType, ScheduledType
    <3>5. Fits(queue[t], out)
      <4>1. \A m \in 2..Len(queue[t]) : Staged(queue[t][m]) => Subject(queue[t][m]) # v
        BY <3>4 DEF Behind
      <4>2. queue[t][1].type = "kProvisionVM"
        BY <1>6 DEF NextEvent
      <4>3. Subject(f) = v /\ f.type \notin ScheduledType
        BY <2>2 DEF Subject, ScheduledType
      <4> QED BY <2>2, <2>5, <4>1, <4>2, <4>3 DEF Fits
    <3>6. Agrees(f)'
      <4>1. Agrees(NextEvent(t))
        BY <1>2, <2>6, <3>3, HeadAgrees
      <4>2. Queued(VMStorageEvent("kVMScheduled", v)) => Queued(VMStorageEvent("kVMScheduled", v))'
        BY <1>7, <1>9, <3>2 DEF KeepsQueued, Complete
      <4> QED BY <1>6, <1>8, <2>2, <4>1, <4>2 DEF Agrees, Subject
    <3> QED BY <2>5, <3>2, <3>5, <3>6 DEF Advances
  <2> QED BY <1>2, <1>8, <2>5, <2>6 DEF HandledWell
<1> QED BY <1>4, <1>10, <1>11 DEF ProvisionVM

-----------------------------------------------------------------------------
(* What a handler of the VM v has to show for v alone.                     *)
LEMMA VMMoved ==
  ASSUME NEW t, Begins(t), storageState = "kOk", NEW v \in DOMAIN vmState,
         NextEvent(t).to = v, NextEvent(t).type \notin ScheduledType,
         UNCHANGED vms, NEW next, vmState' = [vmState EXCEPT ![v] = next],
         NEW at \in Nat, at >= t, NEW out \in Seq(Sent), EndOfStep(t, at, out, UpdateWorld),
         \A k \in 1..Len(out) : out[k].type \notin {"kVMCreated", "kStart"} \cup ScheduledType,
         \A k \in 1..Len(out) : \A e : e = out[k] /\ Staged(e) =>
           /\ at = t /\ Len(out) = 1 /\ Agrees(e)'
           /\ e.type = "kVMDeleted" \/ \A f \in Behind(t) : Staged(f) => Subject(f) # Subject(e),
         Tolerated(v) \/ \A f \in Behind(t) : Staged(f) => Subject(f) # v,
         Booked(v)'
  PROVE  Advances(t, at, out)
<1>1. /\ QueueTypeOK(Sent) /\ t \in DOMAIN queue /\ IsNext(t) /\ UnderWay /\ Books /\ WorldInv'
      /\ DOMAIN vms \subseteq DOMAIN vmState /\ DOMAIN vmState \subseteq VM
  BY BeginsMeans DEF Begins
<1>2. KeepsQueued(t) /\ CreatesNone(t)
  BY StepQueues
<1>3. /\ DOMAIN vmState' = DOMAIN vmState
      /\ \A w \in DOMAIN vmState : w # v => vmState'[w] = vmState[w]
      /\ \A w : SameBooks(w)
  BY DEF SameBooks
<1>4. v # Storage
  BY <1>1, WorldAssumption
<1>5. \A w : NextEvent(t) # VMStorageEvent("kVMScheduled", w)
  BY <1>4 DEF VMStorageEvent
<1>6. \A w : w # v => NextEvent(t) \notin BookEvents(w)
  BY <1>4 DEF BookEvents, VMStorageEvent, VMEvent
<1>7. ASSUME NEW e \in Behind(t), Staged(e) PROVE Agrees(e)'
  <2>1. Agrees(e)
    BY <1>1, <1>7, BehindHead
  <2>2. CASE e.type = "kVMCreated"
    BY <2>1, <2>2 DEF Agrees
  <2>3. CASE e.type # "kVMCreated"
    <3>1. PICK w : w = Subject(e)
      OBVIOUS
    <3>2. w \in DOMAIN vmState
      BY <1>1, <1>7, <2>1, <2>3, <3>1, SubjectIsMade
    <3>3. Tolerated(w)
      BY <1>3, <1>7, <3>1, <3>2 DEF Tolerated
    <3> QED BY <1>1, <1>2, <1>3, <1>5, <1>7, <2>1, <3>1, <3>3, AgreesKept
  <2> QED BY <2>2, <2>3
<1>8. Books'
  <2> SUFFICES ASSUME NEW w \in DOMAIN vmState, w # v PROVE Booked(w)'
    BY <1>3 DEF Books
  <2>1. Booked(w)
    BY <1>1 DEF Books
  <2> QED BY <1>1, <1>2, <1>3, <1>6, <2>1, BookedKept
<1>9. Fits(queue[t], out)
  <2>1. queue[t][1].type \notin ScheduledType
    BY DEF NextEvent
  <2>2. \A m \in 2..Len(queue[t]) : queue[t][m] \in Behind(t)
    BY DEF Behind
  <2> QED BY <2>1, <2>2 DEF Fits
<1> QED BY <1>7, <1>8, <1>9 DEF Advances

-----------------------------------------------------------------------------
(* Where the handlers of the VM v start.                                   *)
VMBegins(t, v) ==
  Begins(t) /\ v \in DOMAIN vmState /\ VMReceives(v, t) /\ UNCHANGED <<vms, storageState>>

(* What is known there.                                                    *)
LEMMA VMBeginsMeans ==
  ASSUME NEW t, NEW v, VMBegins(t, v)
  PROVE  /\ Begins(t) /\ WorldInv /\ v \in DOMAIN vmState /\ v \in VM /\ v # Storage
         /\ NextEvent(t).to = v /\ NextEvent(t).type \notin ScheduledType
         /\ NextEvent(t).type # "kRestart"
         /\ t \in Nat /\ t >= t /\ QueueTypeOK(Sent) /\ t \in DOMAIN queue /\ IsNext(t)
         /\ storageState = "kOk" => UnderWay /\ Books
         /\ vmState[v] \in VMState /\ storageHandle[v] \in {Storage, NoActor}
         /\ owner[v] = NoActor /\ NoActor # Storage
         /\ v \in DOMAIN vms => storageHandle[v] = Storage
<1>1. /\ Begins(t) /\ v \in DOMAIN vmState /\ NextEvent(t).to = v /\ UNCHANGED <<vms, storageState>>
  BY DEF VMBegins, VMReceives
<1>2. /\ PlacedInv /\ WorldInv /\ QueueTypeOK(Sent) /\ t \in Nat /\ t >= t
      /\ NextEvent(t) \in Sent /\ v \in VM
      /\ \A w \in DOMAIN vms : w \in Complete
      /\ storageState = "kOk" => UnderWay /\ Books
  BY <1>1, BeginsMeans
<1>3. v \notin Resource \cup {NoActor, Storage} /\ NoActor # Storage
  BY <1>2, WorldAssumption
<1>4. NextEvent(t).type \notin ScheduledType
  BY <1>1, <1>2, <1>3, ServerAssumption
     DEF Sent, WorldEvent, ScheduledType, ResourceEventType, ResourceCommand, VMEventType
<1>5. /\ vmState[v] \in VMState /\ storageHandle[v] \in {Storage, NoActor} /\ owner[v] = NoActor
  BY <1>1, <1>2 DEF PlacedInv, ActorsPlaced, WorldInv, ActorsInv, VMTypeOK
<1>6. NextEvent(t).type # "kRestart"
  BY <1>2 DEF Sent
<1> QED BY <1>1, <1>2, <1>3, <1>4, <1>5, <1>6 DEF Complete, Begins

(* A VM may fail at any time: nothing under way minds.                     *)
LEMMA VMFailsWell ==
  ASSUME NEW t, NEW v, VMBegins(t, v), vmState' = [vmState EXCEPT ![v] = "kFailure"],
         EndOfStep(t, t, << >>, UpdateWorld)
  PROVE  HandledWell(t)
<1>1. /\ Begins(t) /\ v \in DOMAIN vmState /\ t \in Nat /\ t >= t
      /\ NextEvent(t).to = v /\ NextEvent(t).type \notin ScheduledType
      /\ storageState = "kOk" => UnderWay /\ Books
      /\ UNCHANGED <<vms, storageState>>
  BY VMBeginsMeans DEF VMBegins
<1>2. PICK out \in Seq(Sent) : out = << >>
  BY <1>1, BeginsMeans
<1>3. EndOfStep(t, t, out, UpdateWorld) /\ Len(out) = 0
  BY <1>2
<1>4. ASSUME storageState = "kOk" PROVE Advances(t, t, out)
  <2>1. vmState'[v] = "kFailure"
    BY <1>1
  <2>2. Tolerated(v)
    BY <2>1 DEF Tolerated
  <2>3. Booked(v)
    BY <1>1, <1>4 DEF Books
  <2>4. Booked(v)'
    BY <1>1, <2>1, <2>3 DEF Booked
  <2>5. PICK next : next = "kFailure"
    OBVIOUS
  <2>6. vmState' = [vmState EXCEPT ![v] = next]
    BY <2>5
  <2>7. \A k \in 1..Len(out) : FALSE
    BY <1>3
  <2> QED BY <1>1, <1>3, <1>4, <2>2, <2>4, <2>6, <2>7, VMMoved
<1> QED BY <1>1, <1>3, <1>4 DEF HandledWell

(* The transitions that report to nobody: the VM sends itself what comes   *)
(* next, or tells the owner it has not got.                                *)
LEMMA VMGoesOn ==
  ASSUME NEW t, NEW v, VMBegins(t, v), NEW next, vmState' = [vmState EXCEPT ![v] = next],
         NEW at \in Nat, at >= t, NEW e \in WorldEvent, e.to # Storage,
         e.type \in {"kStartCompleted", "kRestartCompleted", "kStopCompleted", "kDeleteCompleted", "kUnprovisionVM"},
         EndOfStep(t, at, <<e>>, UpdateWorld),
         storageState = "kOk" /\ KeepsQueued(t) /\ Queued(e)' =>
           /\ Tolerated(v) \/ \A f \in Behind(t) : Staged(f) => Subject(f) # v
           /\ Booked(v)'
  PROVE  HandledWell(t)
<1>1. /\ Begins(t) /\ v \in DOMAIN vmState /\ t \in DOMAIN queue /\ QueueTypeOK(Sent)
      /\ NextEvent(t).to = v /\ NextEvent(t).type \notin ScheduledType
      /\ UNCHANGED <<vms, storageState>>
  BY VMBeginsMeans DEF VMBegins
<1>2. PICK out \in Seq(Sent) : out = <<e>>
  <2>1. e \in Sent
    BY SentToOthers
  <2>2. <<e>> \in Seq(Sent)
    BY <2>1
  <2> QED BY <2>2
<1>3. EndOfStep(t, at, out, UpdateWorld) /\ Len(out) = 1 /\ out[1] = e
  BY <1>2
<1>4. \A k \in 1..Len(out) :
        /\ out[k].type \notin {"kVMCreated", "kStart"} \cup ScheduledType
        /\ ~Staged(out[k])
  BY <1>3 DEF ScheduledType, Staged, StagedType
<1>5. ASSUME storageState = "kOk" PROVE Advances(t, at, out)
  <2>1. KeepsQueued(t)
    BY <1>1, <1>3, <1>4, <1>5, StepQueues
  <2>2. Queued(e)'
    <3>1. 1 \in 1..Len(out)
      BY <1>3
    <3> QED BY <1>1, <1>3, <3>1, StepFiles
  <2> QED BY <1>1, <1>3, <1>4, <1>5, <2>1, <2>2, VMMoved
<1> QED BY <1>1, <1>3, <1>5 DEF HandledWell

(* The transitions that report to the storage. *)
LEMMA VMReports ==
  ASSUME NEW t, NEW v, VMBegins(t, v), NEW next, vmState' = [vmState EXCEPT ![v] = next],
         NEW type \in {"kVMHosted", "kVMDeleted"}, NEW e, e = ReportToStorage(type, v),
         EndOfStep(t, t, <<e>>, UpdateWorld),
         storageState = "kOk" /\ KeepsQueued(t) /\ CreatesNone(t) /\ Queued(e)' =>
           /\ Tolerated(v) \/ \A f \in Behind(t) : Staged(f) => Subject(f) # v
           /\ type = "kVMDeleted" \/ \A f \in Behind(t) : Staged(f) => Subject(f) # v
           /\ Agrees(e)'
           /\ Booked(v)'
  PROVE  HandledWell(t)
<1>1. /\ Begins(t) /\ v \in DOMAIN vmState /\ t \in Nat /\ t >= t
      /\ t \in DOMAIN queue /\ QueueTypeOK(Sent) /\ WorldInv
      /\ NextEvent(t).to = v /\ NextEvent(t).type \notin ScheduledType
      /\ UNCHANGED <<vms, storageState>>
  BY VMBeginsMeans DEF VMBegins
<1>2. e.type = type /\ e.vm = v
  BY DEF ReportToStorage, VMStorageEvent
<1>3. PICK out \in Seq(Sent) : out = <<e>>
  <2>1. e \in WorldEvent
    BY <1>1, ReportFiled DEF Filed
  <2>2. e \in Sent
    BY <1>2, <2>1 DEF Sent, VMStorageEventType
  <2>3. <<e>> \in Seq(Sent)
    BY <2>2
  <2> QED BY <2>3
<1>4. EndOfStep(t, t, out, UpdateWorld) /\ Len(out) = 1 /\ out[1] = e
  BY <1>3
<1>5. \A k \in 1..Len(out) : out[k].type \notin {"kVMCreated", "kStart"} \cup ScheduledType
  BY <1>2, <1>4 DEF ScheduledType
<1>6. ASSUME storageState = "kOk" PROVE Advances(t, t, out)
  <2>1. KeepsQueued(t) /\ CreatesNone(t)
    BY <1>1, <1>4, <1>5, <1>6, StepQueues
  <2>2. Queued(e)'
    <3>1. 1 \in 1..Len(out)
      BY <1>4
    <3> QED BY <1>1, <1>4, <3>1, StepFiles
  <2>3. Subject(e) = v
    BY <1>2 DEF Subject
  <2>4. \A k \in 1..Len(out) : \A x : x = out[k] /\ Staged(x) =>
          /\ t = t /\ Len(out) = 1 /\ Agrees(x)'
          /\ x.type = "kVMDeleted" \/ \A f \in Behind(t) : Staged(f) => Subject(f) # Subject(x)
    BY <1>2, <1>4, <1>6, <2>1, <2>2, <2>3
  <2>5. (Tolerated(v) \/ \A f \in Behind(t) : Staged(f) => Subject(f) # v) /\ Booked(v)'
    BY <1>6, <2>1, <2>2
  <2> QED BY <1>1, <1>4, <1>5, <1>6, <2>4, <2>5, VMMoved
<1> QED BY <1>1, <1>4, <1>6 DEF HandledWell

(* A transition the VM's state allows, and one it does not. *)
LEMMA TransitionHandledWell ==
  ASSUME NEW t, NEW v, VMBegins(t, v), NEW type, NEW expected, NEW next,
         NEW at, NEW out, Transition(v, type, expected, next, at, out, t, UpdateWorld),
         /\ vmState[v] \in expected
         /\ NextEvent(t).type = type
         /\ vmState' = [vmState EXCEPT ![v] = next]
         /\ EndOfStep(t, at, out, UpdateWorld)
         => HandledWell(t)
  PROVE  HandledWell(t)
BY VMFailsWell DEF Transition

(* Nothing is under way about a VM when it is started or has started.      *)
LEMMA NothingElse ==
  ASSUME NEW t, NEW v, VMBegins(t, v), storageState = "kOk",
         \/ vmState[v] = "kProvisioning" /\ NextEvent(t).type = "kStart"
         \/ vmState[v] = "kStarting"
  PROVE  /\ \A f \in Behind(t) : Staged(f) => Subject(f) # v
         /\ v \in DOMAIN vms /\ vms[v] = "kProvisioning"
<1>1. /\ QueueTypeOK(Sent) /\ t \in DOMAIN queue /\ IsNext(t) /\ UnderWay /\ Books /\ NextEvent(t).to = v
      /\ v \in DOMAIN vmState
  BY VMBeginsMeans
<1>2. CASE vmState[v] = "kStarting"
  <2>1. v \in DOMAIN vms /\ vms[v] = "kProvisioning"
    BY <1>1, <1>2 DEF Books, Booked
  <2> SUFFICES ASSUME NEW f \in Behind(t), Staged(f), Subject(f) = v PROVE FALSE
    BY <2>1
  <2>2. Agrees(f)
    BY <1>1, BehindHead
  <2> QED BY <1>2, <2>1, <2>2 DEF Agrees, Staged, StagedType
<1>3. CASE vmState[v] = "kProvisioning" /\ NextEvent(t).type = "kStart"
  <2>1. Staged(NextEvent(t)) /\ Subject(NextEvent(t)) = v
    BY <1>1, <1>3 DEF Staged, StagedType, Subject
  <2>2. Agrees(NextEvent(t))
    BY <1>1, <2>1, HeadAgrees
  <2>3. \A f \in Behind(t) : Staged(f) => Subject(f) # v
    <3> SUFFICES ASSUME NEW f \in Behind(t), Staged(f), Subject(f) = v PROVE FALSE
      OBVIOUS
    <3>1. /\ Agrees(f)
          /\ Stage(NextEvent(t).type) < Stage(f.type) \/ f.type = "kVMDeleted"
      BY <1>1, <2>1, BehindHead
    <3>2. f.type \in {"kVMHosted", "kVMDeleted"}
      BY <1>3, <3>1, StageOf DEF Staged, StagedType
    <3> QED BY <1>3, <3>1, <3>2 DEF Agrees
  <2>4. ~Queued(VMStorageEvent("kVMScheduled", v))
    <3>1. PICK f : f = VMStorageEvent("kVMScheduled", v)
      OBVIOUS
    <3>2. f.type = "kVMScheduled" /\ Staged(f) /\ Subject(f) = v /\ f # NextEvent(t)
      BY <1>3, <3>1 DEF VMStorageEvent, Staged, StagedType, Subject
    <3>3. ~Queued(f)
      BY <1>1, <2>3, <3>2, StagedIsNextOrBehind
    <3> QED BY <3>1, <3>3
  <2> QED BY <1>3, <2>1, <2>2, <2>3, <2>4 DEF Agrees
<1> QED BY <1>2, <1>3

(* A VM starts when it is on the books as provisioning, and reports when   *)
(* it runs.                                                                *)
LEMMA StartHandledWell ==
  ASSUME NEW t, NEW v, VMBegins(t, v), Start(v, t, UpdateWorld)
  PROVE  HandledWell(t)
<1>1. /\ WorldInv /\ v \in DOMAIN vmState /\ v \in VM /\ v # Storage /\ t \in Nat
      /\ storageState = "kOk" => Books
  BY VMBeginsMeans
<1>2. PICK e : e = VMEvent(v, "kStartCompleted")
  OBVIOUS
<1>3. e \in WorldEvent /\ e.to = v /\ e.type = "kStartCompleted"
  BY <1>1, <1>2, CommandFiled DEF VMEvent, VMEventType, Registered, Filed
<1>4. ASSUME vmState[v] \in {"kProvisioning"}, NextEvent(t).type = "kStart",
             vmState' = [vmState EXCEPT ![v] = "kStarting"],
             EndOfStep(t, t + StartDelay, <<VMEvent(v, "kStartCompleted")>>, UpdateWorld)
      PROVE  HandledWell(t)
  <2>1. PICK next, at : next = "kStarting" /\ at = t + StartDelay
    OBVIOUS
  <2>2. /\ at \in Nat /\ at >= t /\ EndOfStep(t, at, <<e>>, UpdateWorld)
        /\ vmState' = [vmState EXCEPT ![v] = next]
    BY <1>1, <1>2, <1>4, <2>1, VMAssumption
  <2>3. ASSUME storageState = "kOk"
        PROVE  (\A f \in Behind(t) : Staged(f) => Subject(f) # v) /\ Booked(v)'
    <3>1. /\ \A f \in Behind(t) : Staged(f) => Subject(f) # v
          /\ v \in DOMAIN vms' /\ vms'[v] = "kProvisioning"
      BY <1>4, <2>3, NothingElse DEF VMBegins
    <3>2. vmState'[v] = "kStarting"
      BY <1>1, <1>4
    <3> QED BY <3>1, <3>2 DEF Booked
  <2> QED BY <1>1, <1>3, <2>2, <2>3, VMGoesOn
<1> QED BY <1>4, TransitionHandledWell DEF Start

LEMMA CompleteStartHandledWell ==
  ASSUME NEW t, NEW v, VMBegins(t, v), CompleteStart(v, t, UpdateWorld)
  PROVE  HandledWell(t)
<1>1. /\ v \in DOMAIN vmState
      /\ v \in DOMAIN vms => storageHandle[v] = Storage
  BY VMBeginsMeans
<1>2. PICK e : e = ReportToStorage("kVMHosted", v)
  OBVIOUS
<1>3. ASSUME vmState[v] \in {"kStarting"}, NextEvent(t).type = "kStartCompleted",
             vmState' = [vmState EXCEPT ![v] = "kRunning"],
             EndOfStep(t, t, <<ReportToStorage("kVMHosted", v)>>, UpdateWorld)
      PROVE  HandledWell(t)
  <2>1. PICK next, type : next = "kRunning" /\ type = "kVMHosted"
    OBVIOUS
  <2>2. /\ EndOfStep(t, t, <<e>>, UpdateWorld) /\ e = ReportToStorage(type, v)
        /\ vmState' = [vmState EXCEPT ![v] = next] /\ type \in {"kVMHosted", "kVMDeleted"}
    BY <1>2, <1>3, <2>1
  <2>3. ASSUME storageState = "kOk", Queued(e)'
        PROVE  (\A f \in Behind(t) : Staged(f) => Subject(f) # v) /\ Agrees(e)' /\ Booked(v)'
    <3>1. /\ \A f \in Behind(t) : Staged(f) => Subject(f) # v
          /\ v \in DOMAIN vms' /\ vms'[v] = "kProvisioning" /\ v \in DOMAIN vms
      BY <1>3, <2>3, NothingElse DEF VMBegins
    <3>2. vmState'[v] = "kRunning"
      BY <1>1, <1>3
    <3>3. e = VMStorageEvent("kVMHosted", v) /\ e.type = "kVMHosted" /\ e.vm = v
      BY <1>1, <1>2, <3>1 DEF ReportToStorage, VMStorageEvent
    <3>4. Queued(VMStorageEvent("kVMHosted", v))'
      BY <2>3, <3>3
    <3>5. Agrees(e)'
      BY <3>1, <3>2, <3>3 DEF Agrees, Subject
    <3> QED BY <3>1, <3>2, <3>4, <3>5 DEF Booked
  <2> QED BY <2>2, <2>3, VMReports
<1> QED BY <1>3, TransitionHandledWell DEF CompleteStart

(* No VM restarts. *)
LEMMA CompleteRestartHandledWell ==
  ASSUME NEW t, NEW v, VMBegins(t, v), CompleteRestart(v, t, UpdateWorld)
  PROVE  HandledWell(t)
<1>1. /\ Begins(t) /\ t \in Nat /\ t >= t /\ v \in DOMAIN vmState
      /\ storageState = "kOk" => UnderWay /\ Books
      /\ UNCHANGED storageState
  BY VMBeginsMeans DEF VMBegins
<1>2. ASSUME vmState[v] \in {"kRestarting"}, EndOfStep(t, t, << >>, UpdateWorld)
      PROVE  HandledWell(t)
  <2>1. storageState # "kOk"
    BY <1>1, <1>2 DEF Books, Booked
  <2>2. << >> \in Seq(Sent)
    BY <1>1, BeginsMeans
  <2> QED BY <1>1, <1>2, <2>1, <2>2 DEF HandledWell
<1> QED BY <1>2, TransitionHandledWell DEF CompleteRestart

(* What the books say of a VM that has run, and still say when it stops.   *)
LEMMA StopsOnTheBooks ==
  ASSUME NEW t, NEW v, VMBegins(t, v), storageState = "kOk", KeepsQueued(t),
         vmState[v] \in {"kRunning", "kStopping"}, vmState'[v] \in {"kStopping", "kStopped"}
  PROVE  Tolerated(v) /\ Booked(v)'
<1>1. Booked(v) /\ v # Storage /\ NextEvent(t).to = v /\ UNCHANGED vms
  BY VMBeginsMeans DEF VMBegins, Books
<1>2. Queued(VMStorageEvent("kVMHosted", v)) => Queued(VMStorageEvent("kVMHosted", v))'
  BY <1>1 DEF KeepsQueued, VMStorageEvent
<1>3. Booked(v)'
  BY <1>1, <1>2 DEF Booked
<1> QED BY <1>3 DEF Tolerated

(* A VM that stops stays on the books.                                     *)
LEMMA StopHandledWell ==
  ASSUME NEW t, NEW v, VMBegins(t, v), Stop(v, t, UpdateWorld)
  PROVE  HandledWell(t)
<1>1. /\ WorldInv /\ v \in DOMAIN vmState /\ v # Storage /\ t \in Nat
  BY VMBeginsMeans
<1>2. PICK e : e = VMEvent(v, "kStopCompleted")
  OBVIOUS
<1>3. e \in WorldEvent /\ e.to = v /\ e.type = "kStopCompleted"
  BY <1>1, <1>2, CommandFiled DEF VMEvent, VMEventType, Registered, Filed
<1>4. ASSUME vmState[v] \in {"kRunning"}, vmState' = [vmState EXCEPT ![v] = "kStopping"],
             EndOfStep(t, t + StopDelay, <<VMEvent(v, "kStopCompleted")>>, UpdateWorld)
      PROVE  HandledWell(t)
  <2>1. PICK next, at : next = "kStopping" /\ at = t + StopDelay
    OBVIOUS
  <2>2. /\ at \in Nat /\ at >= t /\ EndOfStep(t, at, <<e>>, UpdateWorld)
        /\ vmState' = [vmState EXCEPT ![v] = next]
    BY <1>1, <1>2, <1>4, <2>1, VMAssumption
  <2>3. vmState'[v] = "kStopping"
    BY <1>1, <1>4
  <2>4. storageState = "kOk" /\ KeepsQueued(t) => Tolerated(v) /\ Booked(v)'
    BY <1>4, <2>3, StopsOnTheBooks
  <2> QED BY <1>1, <1>3, <2>2, <2>4, VMGoesOn
<1> QED BY <1>4, TransitionHandledWell DEF Stop

LEMMA CompleteStopHandledWell ==
  ASSUME NEW t, NEW v, VMBegins(t, v), CompleteStop(v, t, UpdateWorld)
  PROVE  HandledWell(t)
<1>1. /\ WorldInv /\ v \in DOMAIN vmState /\ v \in VM /\ t \in Nat /\ t >= t
      /\ owner[v] = NoActor /\ NoActor # Storage
  BY VMBeginsMeans
<1>2. PICK e : e = UnprovisionEvent(owner[v], v, << >>)
  OBVIOUS
<1>3. e \in WorldEvent /\ e.to # Storage /\ e.type = "kUnprovisionVM"
  <2>1. e \in Filed
    BY <1>1, <1>2, UnprovisionFiled
  <2> QED BY <1>1, <1>2, <2>1 DEF Filed, UnprovisionEvent
<1>4. ASSUME vmState[v] \in {"kStopping"}, vmState' = [vmState EXCEPT ![v] = "kStopped"],
             EndOfStep(t, t, <<UnprovisionEvent(owner[v], v, << >>)>>, UpdateWorld)
      PROVE  HandledWell(t)
  <2>1. PICK next : next = "kStopped"
    OBVIOUS
  <2>2. /\ EndOfStep(t, t, <<e>>, UpdateWorld)
        /\ vmState' = [vmState EXCEPT ![v] = next]
    BY <1>2, <1>4, <2>1
  <2>3. vmState'[v] = "kStopped"
    BY <1>1, <1>4
  <2>4. storageState = "kOk" /\ KeepsQueued(t) => Tolerated(v) /\ Booked(v)'
    BY <1>4, <2>3, StopsOnTheBooks
  <2> QED BY <1>1, <1>3, <2>2, <2>4, VMGoesOn
<1>5. Transition(v, "kStopCompleted", {"kStopping"}, "kStopped",
                 t, <<UnprovisionEvent(owner[v], v, << >>)>>, t, UpdateWorld)
  BY DEF CompleteStop
<1>6. CASE vmState[v] \in {"kStopping"}
  BY <1>4, <1>5, <1>6 DEF Transition
<1>7. CASE vmState[v] \notin {"kStopping"}
  BY <1>5, <1>7, VMFailsWell DEF Transition
<1> QED BY <1>6, <1>7

(* A VM that is deleted has its completion under way, and then its         *)
(* report.                                                                 *)
LEMMA DeleteHandledWell ==
  ASSUME NEW t, NEW v, VMBegins(t, v), Delete(v, t, UpdateWorld)
  PROVE  HandledWell(t)
<1>1. /\ WorldInv /\ v \in DOMAIN vmState /\ v # Storage /\ t \in Nat /\ UNCHANGED vms
      /\ storageState = "kOk" => Books
  BY VMBeginsMeans DEF VMBegins
<1>2. PICK e : e = VMEvent(v, "kDeleteCompleted")
  OBVIOUS
<1>3. e \in WorldEvent /\ e.to = v /\ e.type = "kDeleteCompleted"
  BY <1>1, <1>2, CommandFiled DEF VMEvent, VMEventType, Registered, Filed
<1>4. ASSUME vmState' = [vmState EXCEPT ![v] = "kDeleting"],
             EndOfStep(t, t + DeleteDelay, <<VMEvent(v, "kDeleteCompleted")>>, UpdateWorld)
      PROVE  HandledWell(t)
  <2>1. PICK next, at : next = "kDeleting" /\ at = t + DeleteDelay
    OBVIOUS
  <2>2. /\ at \in Nat /\ at >= t /\ EndOfStep(t, at, <<e>>, UpdateWorld)
        /\ vmState' = [vmState EXCEPT ![v] = next]
    BY <1>1, <1>2, <1>4, <2>1, VMAssumption
  <2>3. vmState'[v] = "kDeleting"
    BY <1>1, <1>4
  <2>4. ASSUME storageState = "kOk", Queued(e)' PROVE Tolerated(v) /\ Booked(v)'
    <3>1. Queued(VMEvent(v, "kDeleteCompleted"))'
      BY <1>2, <2>4
    <3>2. Booked(v)
      BY <1>1, <2>4 DEF Books
    <3> QED BY <1>1, <2>3, <3>1, <3>2 DEF Booked, Tolerated
  <2> QED BY <1>1, <1>3, <2>2, <2>4, VMGoesOn
<1> QED BY <1>4, TransitionHandledWell DEF Delete

(* A VM without a storage is not on its books, and was never announced.    *)
LEMMA CompleteDeleteHandledWell ==
  ASSUME NEW t, NEW v, VMBegins(t, v), CompleteDelete(v, t, UpdateWorld)
  PROVE  HandledWell(t)
<1>1. /\ WorldInv /\ v \in DOMAIN vmState /\ UNCHANGED vms /\ t \in DOMAIN queue
      /\ storageState = "kOk" => UnderWay /\ Books
      /\ owner[v] = NoActor /\ storageHandle[v] \in {Storage, NoActor} /\ NoActor # Storage
      /\ v \in DOMAIN vms => storageHandle[v] = Storage
  BY VMBeginsMeans DEF VMBegins
<1>2. PICK e : e = ReportToStorage("kVMDeleted", v)
  OBVIOUS
<1>3. e.type = "kVMDeleted" /\ e.vm = v
  BY <1>2 DEF ReportToStorage, VMStorageEvent
<1>4. ASSUME vmState' = [vmState EXCEPT ![v] = "kDeleting"],
             EndOfStep(t, t, <<IF owner[v] # NoActor THEN UnprovisionEvent(owner[v], v, << >>)
                               ELSE ReportToStorage("kVMDeleted", v)>>, UpdateWorld)
      PROVE  HandledWell(t)
  <2>1. PICK next, type : next = "kDeleting" /\ type = "kVMDeleted"
    OBVIOUS
  <2>2. /\ EndOfStep(t, t, <<e>>, UpdateWorld) /\ e = ReportToStorage(type, v)
        /\ vmState' = [vmState EXCEPT ![v] = next] /\ type \in {"kVMHosted", "kVMDeleted"}
    BY <1>1, <1>2, <1>4, <2>1
  <2>3. vmState'[v] = "kDeleting" /\ v \in DOMAIN vmState'
    BY <1>1, <1>4
  <2>4. ASSUME storageState = "kOk", CreatesNone(t), Queued(e)'
        PROVE  Tolerated(v) /\ Agrees(e)' /\ Booked(v)'
    <3>1. Booked(v)
      BY <1>1, <2>4 DEF Books
    <3>2. Agrees(e)'
      BY <1>3, <2>3 DEF Agrees, Subject
    <3>3. \/ Queued(VMStorageEvent("kVMDeleted", v))'
          \/ v \notin DOMAIN vms' /\ ~Queued(VMStorageEvent("kVMCreated", v))'
      <4>1. CASE storageHandle[v] = Storage
        <5>1. [VMStorageEvent("kVMDeleted", v) EXCEPT !.to = Storage] = VMStorageEvent("kVMDeleted", v)
          BY DEF VMStorageEvent
        <5>2. e = VMStorageEvent("kVMDeleted", v)
          BY <1>2, <4>1, <5>1 DEF ReportToStorage
        <5> QED BY <2>4, <5>2
      <4>2. CASE storageHandle[v] # Storage
        <5>1. PICK f : f = VMStorageEvent("kVMCreated", v)
          OBVIOUS
        <5>2. f.type = "kVMCreated" /\ f.vm = v
          BY <5>1 DEF VMStorageEvent
        <5>3. ~Queued(f)'
          <6> SUFFICES ASSUME Queued(f)' PROVE FALSE
            OBVIOUS
          <6>1. f \in Behind(t)
            BY <2>4, <5>2 DEF CreatesNone
          <6>2. f \in Filed
            BY <1>1, <6>1 DEF Behind, WorldInv, QueueTypeOK
          <6> QED BY <4>2, <5>2, <6>2 DEF Filed, Complete
        <5> QED BY <1>1, <4>2, <5>1, <5>3
      <4> QED BY <4>1, <4>2
    <3> QED BY <1>1, <2>3, <3>1, <3>2, <3>3 DEF Booked, Tolerated
  <2> QED BY <2>1, <2>2, <2>4, VMReports
<1>5. Transition(v, "kDeleteCompleted", {"kDeleting"}, "kDeleting",
                 t, <<IF owner[v] # NoActor THEN UnprovisionEvent(owner[v], v, << >>)
                      ELSE ReportToStorage("kVMDeleted", v)>>, t, UpdateWorld)
  BY DEF CompleteDelete
<1>6. CASE vmState[v] \in {"kDeleting"}
  BY <1>4, <1>5, <1>6 DEF Transition
<1>7. CASE vmState[v] \notin {"kDeleting"}
  BY <1>5, <1>7, VMFailsWell DEF Transition
<1> QED BY <1>6, <1>7

(* All handlers of a VM.                                                   *)
LEMMA VMHandledWell ==
  ASSUME NEW t, Begins(t), VMStep(t, UpdateWorld)
  PROVE  HandledWell(t)
<1>1. PICK v \in DOMAIN vmState : HandleVMEvent(v, t, UpdateWorld)
  BY DEF VMStep
<1>2. VMReceives(v, t)
  BY <1>1 DEF HandleVMEvent, Start, CompleteStart, Restart, CompleteRestart, Stop, CompleteStop,
              Delete, CompleteDelete, VMInvalidEvent, Transition
<1>3. VMBegins(t, v)
  BY <1>2 DEF VMBegins, VMStep, storageVars
<1>4. ~Restart(v, t, UpdateWorld)
  BY <1>3, VMBeginsMeans DEF Restart, Transition
<1>5. CASE VMInvalidEvent(v, t, UpdateWorld)
  BY <1>3, <1>5, VMFailsWell DEF VMInvalidEvent
<1> QED BY <1>1, <1>3, <1>4, <1>5, StartHandledWell, CompleteStartHandledWell, CompleteRestartHandledWell,
           StopHandledWell, CompleteStopHandledWell, DeleteHandledWell, CompleteDeleteHandledWell
        DEF HandleVMEvent

-----------------------------------------------------------------------------
(* What a handler of the storage has to show for the VM n it is about.     *)
LEMMA StorageMoved ==
  ASSUME NEW t, Begins(t), EndOfStep(t, t, << >>, UpdateWorld), UNCHANGED vmState,
         NEW type, NEW n, NextEvent(t) = VMStorageEvent(type, n),
         storageState' = "kOk" => storageState = "kOk",
         storageState = "kOk" /\ storageState' = "kOk" =>
           /\ \A w : w # n => SameBooks(w)
           /\ \A e \in Behind(t) : Staged(e) /\ Subject(e) = n => Agrees(e)'
           /\ KeepsQueued(t) /\ CreatesNone(t) /\ n \in DOMAIN vmState => Booked(n)'
  PROVE  HandledWell(t)
<1>1. /\ t \in Nat /\ t >= t /\ << >> \in Seq(Sent)
      /\ QueueTypeOK(Sent) /\ t \in DOMAIN queue /\ IsNext(t)
      /\ DOMAIN vmState \subseteq VM /\ DOMAIN vms \subseteq DOMAIN vmState
      /\ storageState = "kOk" => UnderWay /\ Books
  BY BeginsMeans DEF Begins
<1>2. PICK out \in Seq(Sent) : out = << >>
  BY <1>1
<1>3. EndOfStep(t, t, out, UpdateWorld) /\ Len(out) = 0
  BY <1>2
<1>4. \A k \in 1..Len(out) : FALSE
  BY <1>3
<1>5. ASSUME storageState' = "kOk" PROVE Advances(t, t, out)
  <2>1. storageState = "kOk" /\ UnderWay /\ Books
    BY <1>1, <1>5
  <2>2. KeepsQueued(t) /\ CreatesNone(t)
    BY <1>1, <1>3, <1>4, <2>1, StepQueues
  <2>3. \A w : w # n => SameBooks(w)
    BY <1>5, <2>1
  <2>4. \A w : w # n => NextEvent(t) # VMStorageEvent("kVMScheduled", w)
    BY DEF VMStorageEvent
  <2>5. \A w \in DOMAIN vmState : w # n => NextEvent(t) \notin BookEvents(w)
    <3>1. \A w \in DOMAIN vmState : w # Storage
      BY <1>1, WorldAssumption
    <3> QED BY <3>1 DEF BookEvents, VMStorageEvent, VMEvent
  <2>6. ASSUME NEW e \in Behind(t), Staged(e) PROVE Agrees(e)'
    <3>1. Agrees(e)
      BY <1>1, <2>1, <2>6, BehindHead
    <3>2. PICK w : w = Subject(e)
      OBVIOUS
    <3>3. CASE w = n
      BY <1>5, <2>1, <2>6, <3>2, <3>3
    <3>4. CASE w # n
      <4>1. SameBooks(w) /\ Tolerated(w) /\ DOMAIN vmState' = DOMAIN vmState
        BY <2>3, <3>4 DEF Tolerated
      <4>2. NextEvent(t) # VMStorageEvent("kVMScheduled", w)
        BY <2>4, <3>4
      <4> QED BY <1>1, <2>2, <2>6, <3>1, <3>2, <4>1, <4>2, AgreesKept
    <3> QED BY <3>3, <3>4
  <2>7. Books'
    <3> SUFFICES ASSUME NEW w \in DOMAIN vmState PROVE Booked(w)'
      BY DEF Books
    <3>1. CASE w = n
      BY <1>5, <2>1, <2>2, <3>1
    <3>2. CASE w # n
      BY <1>1, <2>1, <2>2, <2>3, <2>5, <3>2, BookedKept DEF Books
    <3> QED BY <3>1, <3>2
  <2>8. Fits(queue[t], out)
    BY <1>4 DEF Fits
  <2> QED BY <1>4, <2>6, <2>7, <2>8 DEF Advances
<1> QED BY <1>1, <1>3, <1>5 DEF HandledWell

(* Where the handlers of the storage start. *)
StorageBegins(t, type, n) ==
  /\ Begins(t)
  /\ storageState = "kOk"
  /\ NextEvent(t) = VMStorageEvent(type, n)
  /\ EndOfStep(t, t, << >>, UpdateWorld)
  /\ UNCHANGED vmState

(* What is known of what is about n.                                       *)
LEMMA StorageBeginsMeans ==
  ASSUME NEW t, NEW type \in VMStorageEventType, NEW n, StorageBegins(t, type, n)
  PROVE  /\ type # "kVMStopped"
         /\ UnderWay /\ Books
         /\ n \in DOMAIN vmState => Booked(n)
         /\ DOMAIN vms \subseteq DOMAIN vmState
         /\ \A e \in Behind(t) : Staged(e) => Agrees(e)
         /\ type \in StagedType =>
              \A e \in Behind(t) : Staged(e) /\ Subject(e) = n =>
                Stage(type) < Stage(e.type) \/ e.type = "kVMDeleted"
         /\ type \in StagedType => \A e : e = NextEvent(t) => Agrees(e)
         /\ NextEvent(t).type = type /\ NextEvent(t).vm = n
<1>1. NextEvent(t).type = type /\ NextEvent(t).vm = n
  BY DEF StorageBegins, VMStorageEvent
<1>2. /\ QueueTypeOK(Sent) /\ t \in DOMAIN queue /\ IsNext(t) /\ UnderWay /\ Books
      /\ DOMAIN vms \subseteq DOMAIN vmState /\ NextEvent(t) \in Sent
  BY BeginsMeans DEF StorageBegins, Begins
<1>3. type \in StagedType => Staged(NextEvent(t)) /\ Subject(NextEvent(t)) = n
  BY <1>1 DEF Staged, Subject, VMStorageEventType
<1> QED BY <1>1, <1>2, <1>3, BehindHead, HeadAgrees DEF Books, Sent

(* A new VM is on the books as created: nothing else about it was under    *)
(* way.                                                                    *)
LEMMA AddHandledWell ==
  ASSUME NEW t, NEW n, StorageBegins(t, "kVMCreated", n),
         UpdateOrFail(n \notin DOMAIN vms, WithStatus(n, "kCreated"))
  PROVE  HandledWell(t)
<1>1. "kVMCreated" \in VMStorageEventType /\ "kVMCreated" \in StagedType
  BY DEF VMStorageEventType, StagedType
<1>2. /\ Books /\ DOMAIN vms \subseteq DOMAIN vmState
      /\ \A e \in Behind(t) : Staged(e) => Agrees(e)
      /\ \A e \in Behind(t) : Staged(e) /\ Subject(e) = n => e.type # "kVMCreated"
      /\ n \in DOMAIN vmState => Booked(n)
      /\ Begins(t) /\ EndOfStep(t, t, << >>, UpdateWorld) /\ UNCHANGED vmState
      /\ NextEvent(t) = VMStorageEvent("kVMCreated", n) /\ storageState = "kOk"
      /\ t \in DOMAIN queue
  BY <1>1, StorageBeginsMeans, StageOf DEF StorageBegins, Begins
<1>3. ASSUME storageState' = "kOk"
      PROVE  /\ \A w : w # n => SameBooks(w)
             /\ \A e \in Behind(t) : Staged(e) /\ Subject(e) = n => Agrees(e)'
             /\ KeepsQueued(t) /\ CreatesNone(t) /\ n \in DOMAIN vmState => Booked(n)'
  <2>1. n \notin DOMAIN vms /\ DOMAIN vms' = DOMAIN vms \cup {n} /\ vms'[n] = "kCreated"
        /\ \A w \in DOMAIN vms : w # n => vms'[w] = vms[w]
    BY <1>2, <1>3 DEF UpdateOrFail, WithStatus
  <2>2. \A w : w # n => SameBooks(w)
    BY <2>1 DEF SameBooks
  <2>3. ASSUME NEW e \in Behind(t), Staged(e), Subject(e) = n PROVE Agrees(e)'
    <3>1. Agrees(e) /\ e.type # "kVMCreated"
      BY <1>2, <2>3
    <3>2. e.type = "kVMDeleted"
      BY <2>1, <2>3, <3>1 DEF Agrees, Staged, StagedType
    <3> QED BY <1>2, <3>1, <3>2 DEF Agrees
  <2>4. ASSUME KeepsQueued(t), n \in DOMAIN vmState PROVE Booked(n)'
    <3>1. Booked(n)
      BY <1>2, <2>4
    <3>2. \A f : f = VMStorageEvent("kVMDeleted", n) \/ f = VMEvent(n, "kDeleteCompleted")
                 => f # NextEvent(t)
      BY <1>2 DEF VMStorageEvent, VMEvent
    <3>3. /\ Queued(VMStorageEvent("kVMDeleted", n)) => Queued(VMStorageEvent("kVMDeleted", n))'
          /\ Queued(VMEvent(n, "kDeleteCompleted")) => Queued(VMEvent(n, "kDeleteCompleted"))'
      BY <2>4, <3>2 DEF KeepsQueued
    <3>4. Queued(VMStorageEvent("kVMCreated", n))
      <4>1. PICK f : f = VMStorageEvent("kVMCreated", n)
        OBVIOUS
      <4>2. queue[t] \in Seq(Sent) /\ queue[t] # << >>
        BY <1>2, BeginsMeans DEF QueueTypeOK
      <4>3. 1 \in 1..Len(queue[t]) /\ queue[t][1] = f
        BY <1>2, <4>1, <4>2 DEF NextEvent
      <4> QED BY <1>2, <4>1, <4>3 DEF Queued, QueuedAt
    <3> QED BY <1>2, <2>1, <3>1, <3>3, <3>4 DEF Booked
  <2> QED BY <2>2, <2>3, <2>4
<1> QED BY <1>2, <1>3, StorageMoved

(* A request changes the books of a created VM only.                       *)
LEMMA PendingHandledWell ==
  ASSUME NEW t, NEW n, StorageBegins(t, "kVMProvisionRequested", n),
         UpdateOrFail(n \in DOMAIN vms,
                      IF vms[n] \in {"kCreated", "kStoppedVM"} THEN WithStatus(n, "kPending") ELSE vms)
  PROVE  HandledWell(t)
<1>1. "kVMProvisionRequested" \in VMStorageEventType
  BY DEF VMStorageEventType
<1>2. /\ DOMAIN vms \subseteq DOMAIN vmState
      /\ \A e \in Behind(t) : Staged(e) => Agrees(e)
      /\ n \in DOMAIN vmState => Booked(n)
      /\ Begins(t) /\ EndOfStep(t, t, << >>, UpdateWorld) /\ UNCHANGED vmState
      /\ NextEvent(t) = VMStorageEvent("kVMProvisionRequested", n) /\ storageState = "kOk"
  BY <1>1, StorageBeginsMeans DEF StorageBegins
<1>3. \A f : f \in {VMStorageEvent("kVMDeleted", n), VMStorageEvent("kVMHosted", n),
                    VMStorageEvent("kVMScheduled", n), VMEvent(n, "kDeleteCompleted")}
             => f # NextEvent(t)
  BY <1>2 DEF VMStorageEvent, VMEvent
<1>4. ASSUME storageState' = "kOk"
      PROVE  /\ \A w : w # n => SameBooks(w)
             /\ \A e \in Behind(t) : Staged(e) /\ Subject(e) = n => Agrees(e)'
             /\ KeepsQueued(t) /\ CreatesNone(t) /\ n \in DOMAIN vmState => Booked(n)'
  <2>1. /\ n \in DOMAIN vms /\ DOMAIN vms' = DOMAIN vms
        /\ \A w \in DOMAIN vms : w # n => vms'[w] = vms[w]
        /\ (vms[n] = "kCreated" /\ vms'[n] = "kPending") \/ vms'[n] = vms[n]
    <3>1. n \in DOMAIN vms /\ vms[n] # "kStoppedVM"
      BY <1>2, <1>4 DEF UpdateOrFail, Booked
    <3> QED BY <1>4, <3>1 DEF UpdateOrFail, WithStatus
  <2>2. \A w : w # n => SameBooks(w)
    BY <2>1 DEF SameBooks
  <2>3. ASSUME KeepsQueued(t), NEW f, f \in {VMStorageEvent("kVMDeleted", n),
               VMStorageEvent("kVMHosted", n), VMStorageEvent("kVMScheduled", n), VMEvent(n, "kDeleteCompleted")}
        PROVE  Queued(f) => Queued(f)'
    BY <1>3, <2>3 DEF KeepsQueued
  <2>4. KeepsQueued(t)
    BY <1>2, BeginsMeans, QueuedKept DEF Begins
  <2>5. ASSUME NEW e \in Behind(t), Staged(e), Subject(e) = n PROVE Agrees(e)'
    <3>1. Agrees(e)
      BY <1>2, <2>5
    <3>2. Queued(VMStorageEvent("kVMScheduled", n)) => Queued(VMStorageEvent("kVMScheduled", n))'
      BY <2>3, <2>4
    <3> QED BY <1>2, <2>1, <2>5, <3>1, <3>2 DEF Agrees
  <2>6. ASSUME n \in DOMAIN vmState PROVE Booked(n)'
    <3>1. Booked(n)
      BY <1>2, <2>6
    <3>2. /\ Queued(VMStorageEvent("kVMDeleted", n)) => Queued(VMStorageEvent("kVMDeleted", n))'
          /\ Queued(VMStorageEvent("kVMHosted", n)) => Queued(VMStorageEvent("kVMHosted", n))'
          /\ Queued(VMEvent(n, "kDeleteCompleted")) => Queued(VMEvent(n, "kDeleteCompleted"))'
      BY <2>3, <2>4
    <3> QED BY <1>2, <2>1, <3>1, <3>2 DEF Booked
  <2> QED BY <2>2, <2>5, <2>6
<1>5. storageState' = "kOk" => storageState = "kOk"
  BY <1>2
<1> QED BY <1>2, <1>4, <1>5, StorageMoved

(* What the two handlers that write a status unchecked have to show.       *)
LEMMA WrittenHandledWell ==
  ASSUME NEW t, NEW n, NEW type \in {"kVMScheduled", "kVMHosted"}, NEW status,
         status = IF type = "kVMScheduled" THEN "kProvisioning" ELSE "kHostedVM",
         StorageBegins(t, type, n), UpdateOrFail(n \in DOMAIN vms, WithStatus(n, status))
  PROVE  HandledWell(t)
<1>1. type \in VMStorageEventType /\ type \in StagedType
  BY DEF VMStorageEventType, StagedType
<1>2. /\ DOMAIN vms \subseteq DOMAIN vmState
      /\ \A e \in Behind(t) : Staged(e) => Agrees(e)
      /\ \A e \in Behind(t) : Staged(e) /\ Subject(e) = n =>
           Stage(type) < Stage(e.type) \/ e.type = "kVMDeleted"
      /\ n \in DOMAIN vmState => Booked(n)
      /\ Begins(t) /\ EndOfStep(t, t, << >>, UpdateWorld) /\ UNCHANGED vmState
      /\ NextEvent(t) = VMStorageEvent(type, n) /\ storageState = "kOk"
      /\ NextEvent(t).type = type /\ NextEvent(t).vm = n
  BY <1>1, StorageBeginsMeans DEF StorageBegins
<1>3. /\ type = "kVMScheduled" => n \in DOMAIN vms /\ vms[n] = "kPending"
      /\ type = "kVMHosted" => /\ n \in DOMAIN vms /\ vms[n] = "kProvisioning"
                               /\ vmState[n] \notin {"kProvisioning", "kStarting"}
  <2>1. PICK e : e = NextEvent(t)
    OBVIOUS
  <2>2. Agrees(e)
    BY <1>1, <2>1, StorageBeginsMeans
  <2>3. e.type = type /\ Subject(e) = n
    BY <1>2, <2>1 DEF Subject
  <2> QED BY <2>2, <2>3 DEF Agrees
<1>4. /\ n \in DOMAIN vms /\ DOMAIN vms' = DOMAIN vms /\ vms'[n] = status
      /\ \A w \in DOMAIN vms : w # n => vms'[w] = vms[w]
  BY <1>3 DEF UpdateOrFail, WithStatus
<1>5. \A w : w # n => SameBooks(w)
  BY <1>4 DEF SameBooks
<1>6. \A f : f \in {VMStorageEvent("kVMDeleted", n), VMEvent(n, "kDeleteCompleted")}
             => f # NextEvent(t)
  BY <1>2 DEF VMStorageEvent, VMEvent
<1>7. KeepsQueued(t)
  BY <1>2, BeginsMeans, QueuedKept DEF Begins
<1>8. ASSUME NEW e \in Behind(t), Staged(e), Subject(e) = n PROVE Agrees(e)'
  <2>1. Agrees(e)
    BY <1>2, <1>8
  <2>2. Stage(type) < Stage(e.type) \/ e.type = "kVMDeleted"
    BY <1>2, <1>8
  <2>3. CASE e.type = "kVMDeleted"
    BY <1>2, <2>1, <2>3 DEF Agrees
  <2>4. CASE e.type # "kVMDeleted"
    <3>1. /\ type = "kVMScheduled"
          /\ e.type \in {"kProvisionVM", "kStart"} \/ e.type = "kVMHosted"
      BY <1>8, <2>2, <2>4, StageOf DEF Staged, StagedType
    <3>2. e.type # "kVMHosted"
      BY <1>3, <1>8, <2>1, <3>1 DEF Agrees
    <3>3. status = "kProvisioning"
      BY <3>1
    <3> QED BY <1>2, <1>4, <1>8, <2>1, <3>1, <3>2, <3>3 DEF Agrees
  <2> QED BY <2>3, <2>4
<1>9. ASSUME n \in DOMAIN vmState PROVE Booked(n)'
  <2>1. Booked(n)
    BY <1>2, <1>9
  <2>2. /\ Queued(VMStorageEvent("kVMDeleted", n)) => Queued(VMStorageEvent("kVMDeleted", n))'
        /\ Queued(VMEvent(n, "kDeleteCompleted")) => Queued(VMEvent(n, "kDeleteCompleted"))'
    BY <1>6, <1>7 DEF KeepsQueued
  <2>3. CASE type = "kVMScheduled"
    BY <1>2, <1>3, <1>4, <2>1, <2>2, <2>3 DEF Booked
  <2>4. CASE type = "kVMHosted"
    BY <1>2, <1>3, <1>4, <2>1, <2>2, <2>4 DEF Booked
  <2> QED BY <2>3, <2>4
<1> QED BY <1>2, <1>5, <1>8, <1>9, StorageMoved

(* A deleted VM leaves the books for good: it is not created again.        *)
LEMMA DeleteVMHandledWell ==
  ASSUME NEW t, NEW n, StorageBegins(t, "kVMDeleted", n),
         UpdateOrFail(n \in DOMAIN vms, [w \in DOMAIN vms \ {n} |-> vms[w]])
  PROVE  HandledWell(t)
<1>1. "kVMDeleted" \in VMStorageEventType /\ "kVMDeleted" \in StagedType
  BY DEF VMStorageEventType, StagedType
<1>2. /\ DOMAIN vms \subseteq DOMAIN vmState
      /\ \A e \in Behind(t) : Staged(e) => Agrees(e)
      /\ \A e \in Behind(t) : Staged(e) /\ Subject(e) = n =>
           Stage("kVMDeleted") < Stage(e.type) \/ e.type = "kVMDeleted"
      /\ n \in DOMAIN vmState => Booked(n)
      /\ Begins(t) /\ EndOfStep(t, t, << >>, UpdateWorld) /\ UNCHANGED vmState
      /\ NextEvent(t) = VMStorageEvent("kVMDeleted", n) /\ storageState = "kOk"
      /\ NextEvent(t).type = "kVMDeleted" /\ NextEvent(t).vm = n
  BY <1>1, StorageBeginsMeans DEF StorageBegins
<1>3. vmState[n] \in {"kDeleting", "kFailure"}
  <2>1. PICK e : e = NextEvent(t)
    OBVIOUS
  <2>2. Agrees(e)
    BY <1>1, <2>1, StorageBeginsMeans
  <2>3. e.type = "kVMDeleted" /\ Subject(e) = n
    BY <1>2, <2>1 DEF Subject
  <2> QED BY <2>2, <2>3 DEF Agrees
<1>4. ASSUME storageState' = "kOk"
      PROVE  /\ \A w : w # n => SameBooks(w)
             /\ \A e \in Behind(t) : Staged(e) /\ Subject(e) = n => Agrees(e)'
             /\ KeepsQueued(t) /\ CreatesNone(t) /\ n \in DOMAIN vmState => Booked(n)'
  <2>1. /\ n \in DOMAIN vms /\ DOMAIN vms' = DOMAIN vms \ {n}
        /\ \A w \in DOMAIN vms : w # n => vms'[w] = vms[w]
    BY <1>2, <1>4 DEF UpdateOrFail
  <2>2. \A w : w # n => SameBooks(w)
    BY <2>1 DEF SameBooks
  <2>3. ASSUME NEW e \in Behind(t), Staged(e), Subject(e) = n PROVE Agrees(e)'
    <3>1. Agrees(e)
      BY <1>2, <2>3
    <3>2. e.type = "kVMDeleted"
      BY <1>2, <2>3, StageOf DEF Staged, StagedType
    <3> QED BY <1>2, <3>1, <3>2 DEF Agrees
  <2>4. ASSUME CreatesNone(t), n \in DOMAIN vmState PROVE Booked(n)'
    <3>1. PICK f : f = VMStorageEvent("kVMCreated", n)
      OBVIOUS
    <3>2. f.type = "kVMCreated" /\ Staged(f) /\ Subject(f) = n
      BY <3>1 DEF VMStorageEvent, Staged, StagedType, Subject
    <3>3. f \notin Behind(t)
      BY <1>2, <2>1, <3>2 DEF Agrees
    <3>4. ~Queued(f)'
      BY <2>4, <3>2, <3>3 DEF CreatesNone
    <3>5. n \notin DOMAIN vms' /\ ~Queued(VMStorageEvent("kVMCreated", n))'
      BY <2>1, <3>1, <3>4
    <3> QED BY <1>2, <1>3, <3>5 DEF Booked
  <2> QED BY <2>2, <2>3, <2>4
<1>5. storageState' = "kOk" => storageState = "kOk"
  BY <1>2
<1> QED BY <1>2, <1>4, <1>5, StorageMoved

(* A storage that fails, or has failed, is asked for nothing. *)
LEMMA FailureHandledWell ==
  ASSUME NEW t, Begins(t), EndOfStep(t, t, << >>, UpdateWorld), storageState' # "kOk"
  PROVE  HandledWell(t)
BY BeginsMeans DEF HandledWell

(* All handlers of the storage, which never recovers from a failure.       *)
LEMMA StorageHandledWell ==
  ASSUME NEW t, Begins(t), StorageStep(t, UpdateWorld)
  PROVE  HandledWell(t) /\ (storageState' = "kOk" => storageState = "kOk")
<1> USE DEF StorageStep
<1>1. UNCHANGED vmState
  BY DEF vmVars
<1>2. CASE InFailedState(t, UpdateWorld)
  BY <1>2, FailureHandledWell DEF InFailedState, storageVars
<1>3. CASE StorageInvalidEvent(t, UpdateWorld)
  BY <1>3, FailureHandledWell DEF StorageInvalidEvent, UpdateOrFail
<1>4. CASE \E n \in Registered : HandleVMStorageEvent(n, t, UpdateWorld)
  <2>1. PICK n : HandleVMStorageEvent(n, t, UpdateWorld)
    BY <1>4
  <2>2. storageState = "kOk"
    BY <2>1 DEF HandleVMStorageEvent, AddVM, MoveToPending, MoveToProvisioning, MoveToHosted,
                MoveToStopped, DeleteVM, StorageHandles
  <2>3. CASE AddVM(n, t, UpdateWorld)
    BY <1>1, <2>2, <2>3, AddHandledWell DEF AddVM, StorageHandles, StorageBegins
  <2>4. CASE MoveToPending(n, t, UpdateWorld)
    BY <1>1, <2>2, <2>4, PendingHandledWell DEF MoveToPending, StorageHandles, StorageBegins
  <2>5. CASE MoveToProvisioning(n, t, UpdateWorld)
    <3>1. /\ StorageBegins(t, "kVMScheduled", n)
          /\ UpdateOrFail(n \in DOMAIN vms, WithStatus(n, "kProvisioning"))
      BY <1>1, <2>2, <2>5 DEF MoveToProvisioning, StorageHandles, StorageBegins
    <3> QED BY <2>2, <3>1, WrittenHandledWell
  <2>6. CASE MoveToHosted(n, t, UpdateWorld)
    <3>1. /\ StorageBegins(t, "kVMHosted", n)
          /\ UpdateOrFail(n \in DOMAIN vms, WithStatus(n, "kHostedVM"))
      BY <1>1, <2>2, <2>6 DEF MoveToHosted, StorageHandles, StorageBegins
    <3> QED BY <2>2, <3>1, WrittenHandledWell
  <2>7. CASE MoveToStopped(n, t, UpdateWorld)
    <3>1. StorageBegins(t, "kVMStopped", n) /\ "kVMStopped" \in VMStorageEventType
      BY <1>1, <2>2, <2>7 DEF MoveToStopped, StorageHandles, StorageBegins, VMStorageEventType
    <3> QED BY <3>1, StorageBeginsMeans
  <2>8. CASE DeleteVM(n, t, UpdateWorld)
    BY <1>1, <2>2, <2>8, DeleteVMHandledWell DEF DeleteVM, StorageHandles, StorageBegins
  <2> QED BY <2>1, <2>2, <2>3, <2>4, <2>5, <2>6, <2>7, <2>8 DEF HandleVMStorageEvent
<1> QED BY <1>2, <1>3, <1>4

-----------------------------------------------------------------------------
(* The loop leaves its queue empty only when update_world() has nothing to *)
(* place.                                                                  *)
LEMMA LeftEmpty ==
  ASSUME QueueTypeOK(Sent), NEW t \in DOMAIN queue,
         NEW at \in Nat, at >= t, NEW out \in Seq(Sent), EndOfStep(t, at, out, UpdateWorld),
         ActorsInv'
  PROVE  PendingKeepsGoing'
<1> SUFFICES ASSUME queue' = << >> PROVE Pending' = {}
  BY DEF PendingKeepsGoing
<1>1. DOMAIN queue' = {}
  OBVIOUS
<1>2. PICK r : r = Stepped(t, at, out)
  OBVIOUS
<1>3. t \in DOMAIN r
  BY <1>2, SteppedQueue DEF SteppedAsExpected
<1>4. queue' # r
  BY <1>1, <1>3
<1>5. PICK u \in UpdateWorld : queue' = IF u = << >> THEN Erase(r, t) ELSE Put(r, t, u)
  BY <1>2, <1>4 DEF EndOfStep, Stepped
<1>6. u = << >>
  BY <1>1, <1>5 DEF Put
<1>7. IsPlan(u)
  BY PlanOf
<1> QED BY <1>6, <1>7 DEF IsPlan

(* Whatever the head of the queue is, its handler sees to what goes on.    *)
LEMMA AllHandledWell ==
  ASSUME NEW t, Begins(t),
         \/ ResourceStep(t, UpdateWorld)
         \/ ServerStep(t, UpdateWorld)
         \/ VMStep(t, UpdateWorld)
         \/ StorageStep(t, UpdateWorld)
         \/ NobodyStep(t, UpdateWorld)
  PROVE  HandledWell(t) /\ (storageState' = "kOk" => storageState = "kOk")
<1>1. ASSUME UNCHANGED storageVars PROVE storageState' = "kOk" => storageState = "kOk"
  BY <1>1 DEF storageVars
<1>2. CASE ResourceStep(t, UpdateWorld)
  BY <1>1, <1>2, ResourceHandledWell DEF ResourceStep
<1>3. CASE ServerStep(t, UpdateWorld)
  BY <1>1, <1>3, ServerHandledWell DEF ServerStep
<1>4. CASE VMStep(t, UpdateWorld)
  BY <1>1, <1>4, VMHandledWell DEF VMStep
<1>5. CASE StorageStep(t, UpdateWorld)
  BY <1>5, StorageHandledWell
<1>6. CASE NobodyStep(t, UpdateWorld)
  BY <1>1, <1>6, NobodyHandledWell DEF NobodyStep, actorVars
<1> QED BY <1>2, <1>3, <1>4, <1>5, <1>6

(* A step of the loop keeps the invariant.                                 *)
LEMMA LoopBooks ==
  ASSUME BooksInv, SimulateNextStep(UpdateWorld)
  PROVE  BooksInv'
<1>1. PlacedInv /\ WorldInv /\ QueueTypeOK(Sent) /\ CompletionUnderWay /\ ActorsInv
  BY DEF BooksInv, PlacedInv, WorldInv
<1>2. WorldInv' /\ Complete' = Complete
  BY <1>1, UpdatesFiled, LoopKeeps
<1>3. ActorsInv'
  BY <1>2 DEF WorldInv
<1>4. PICK t \in DOMAIN queue :
        \/ ResourceStep(t, UpdateWorld)
        \/ ServerStep(t, UpdateWorld)
        \/ VMStep(t, UpdateWorld)
        \/ StorageStep(t, UpdateWorld)
        \/ NobodyStep(t, UpdateWorld)
  BY DEF SimulateNextStep
<1>5. IsNext(t)
  <2>1. CASE ResourceStep(t, UpdateWorld)
    BY <1>1, <2>1, ResourceKeeps DEF Framed
  <2>2. CASE ServerStep(t, UpdateWorld)
    BY <2>2 DEF ServerStep, ProvisionVM, UnprovisionVM
  <2>3. CASE VMStep(t, UpdateWorld)
    BY <1>1, <2>3, VMKeeps DEF Framed
  <2>4. CASE StorageStep(t, UpdateWorld)
    BY <1>1, <2>4, StorageKeeps DEF Framed
  <2>5. CASE NobodyStep(t, UpdateWorld)
    BY <1>1, <2>5, NobodyKeeps DEF Framed
  <2> QED BY <1>4, <2>1, <2>2, <2>3, <2>4, <2>5
<1>6. Begins(t)
  BY <1>2, <1>5 DEF Begins
<1>7. HandledWell(t) /\ (storageState' = "kOk" => storageState = "kOk")
  BY <1>4, <1>6, AllHandledWell
<1>8. PICK at \in Nat : \E out \in Seq(Sent) :
        /\ at >= t
        /\ EndOfStep(t, at, out, UpdateWorld)
        /\ storageState' = "kOk" => Advances(t, at, out)
  BY <1>7 DEF HandledWell
<1>9. PICK out \in Seq(Sent) :
        /\ at >= t
        /\ EndOfStep(t, at, out, UpdateWorld)
        /\ storageState' = "kOk" => Advances(t, at, out)
  BY <1>8
<1>10. QueueTypeOK(Sent)'
  <2>1. ASSUME NEW v \in Complete
        PROVE  /\ VMStorageEvent("kVMScheduled", v) \in Sent
               /\ ServerEvent(FirstServer, "kProvisionVM", v) \in Sent
    <3>1. v \in Named /\ FirstServer \in Servers /\ FirstServer # Storage /\ v \in VM
      BY <1>1, FirstServerAssumption, ServerAssumption, WorldAssumption
         DEF Complete, Named, ActorsInv, VMTypeOK
    <3>2. PICK e, f : e = VMStorageEvent("kVMScheduled", v) /\ f = ServerEvent(FirstServer, "kProvisionVM", v)
      OBVIOUS
    <3>3. e \in [to : {Storage}, type : VMStorageEventType, vm : Named] /\ e.type = "kVMScheduled"
      BY <3>1, <3>2 DEF VMStorageEvent, VMStorageEventType
    <3>4. f \in [to : Servers, type : {"kProvisionVM"}, vm : VM] /\ f.type = "kProvisionVM" /\ f.to # Storage
      BY <3>1, <3>2 DEF ServerEvent
    <3>5. e \in WorldEvent /\ f \in WorldEvent
      BY <3>3, <3>4 DEF WorldEvent
    <3>6. e \in Sent
      BY <3>3, <3>5 DEF Sent, VMStorageEventType
    <3>7. f \in Sent
      BY <3>4, <3>5 DEF Sent
    <3> QED BY <3>2, <3>6, <3>7
  <2>2. \A u \in UpdateWorld : u \in Seq(Sent)
    BY <1>2, <1>3, <2>1, UpdatesOf
  <2> QED BY <1>1, <1>9, <2>2, StepQueueType
<1>11. PlacedInv' /\ CompletionUnderWay'
  BY <1>1, LoopPlaces, LoopKeepsCompletions
<1>12. Idle'
  BY DEF SimulateNextStep, Running, sessionVars, Idle
<1>13. PendingKeepsGoing'
  BY <1>1, <1>3, <1>9, LeftEmpty
<1>14. ASSUME storageState' = "kOk" PROVE (UnderWay /\ Books)'
  <2>1. UnderWay /\ Advances(t, at, out)
    BY <1>7, <1>9, <1>14 DEF BooksInv
  <2>2. UnderWay'
    BY <1>1, <1>2, <1>5, <1>9, <2>1, StepAdvances
  <2> QED BY <2>1, <2>2 DEF Advances
<1> QED BY <1>10, <1>11, <1>12, <1>13, <1>14 DEF BooksInv

-----------------------------------------------------------------------------
(* What a call leaves in the queue: commands for the present, and no       *)
(* report of a VM that was there before.                                   *)
CommandsOnly ==
  \A u \in DOMAIN queue :
    /\ u = now
    /\ \A i \in 1..Len(queue[u]) : queue[u][i].type \in ClientType

ReportsOfNew ==
  \A f : f.type = "kVMCreated" /\ Queued(f)' => Queued(f) \/ f.vm \notin DOMAIN vmState

(* A report of a new VM that waits is of a VM that was made and is not on  *)
(* the books.                                                              *)
LEMMA ReportsQueued ==
  ASSUME storageState = "kOk", BooksInv, NEW f, f.type = "kVMCreated", Queued(f)
  PROVE  f.vm \notin DOMAIN vms /\ f.vm \in DOMAIN vmState
<1>1. PICK t \in DOMAIN queue : QueuedAt(f, t)
  BY DEF Queued
<1>2. PICK i \in 1..Len(queue[t]) : queue[t][i] = f
  BY <1>1 DEF QueuedAt
<1>3. Agrees(f)
  <2>1. AllAgree
    BY DEF BooksInv, UnderWay
  <2>2. Staged(queue[t][i])
    BY <1>2 DEF Staged, StagedType
  <2> QED BY <1>2, <2>1, <2>2 DEF AllAgree
<1>4. f.vm \notin DOMAIN vms
  BY <1>3 DEF Agrees, Subject
<1>5. queue[t] \in Seq(Filed)
  BY DEF BooksInv, PlacedInv, WorldInv, QueueTypeOK
<1>6. f \in Filed
  BY <1>2, <1>5
<1>7. f.vm \in Complete
  BY <1>6 DEF Filed
<1> QED BY <1>4, <1>7 DEF Complete

(* Such calls leave what is under way, and the books, in order.            *)
LEMMA CallsUnderWay ==
  ASSUME BooksInv, storageState = "kOk", UNCHANGED vms, VMsAndEventsKept, ReportsOfNew, WorldInv,
         CommandsOnly', \A u \in DOMAIN queue' : InOrder(queue'[u])
  PROVE  (UnderWay /\ Books)'
<1>1. ASSUME NEW u \in DOMAIN queue', NEW i \in 1..Len(queue'[u])
      PROVE  queue'[u][i].type \in ClientType
  BY <1>1 DEF CommandsOnly
<1>2. DOMAIN vms \subseteq DOMAIN vmState
  BY DEF WorldInv, ActorsInv, Complete
<1>3. StagedAtOnce'
  BY DEF StagedAtOnce, IsNext, CommandsOnly
<1>4. AllAgree'
  <2> SUFFICES ASSUME NEW u \in DOMAIN queue', NEW i \in 1..Len(queue'[u]), Staged(queue'[u][i]),
                      NEW e, e = queue'[u][i]
               PROVE  Agrees(e)'
    BY DEF AllAgree
  <2>1. e.type = "kVMCreated" /\ Queued(e)'
    BY <1>1 DEF Staged, StagedType, ClientType, ResourceCommand, Queued, QueuedAt
  <2>2. e.vm \notin DOMAIN vms
    BY <1>2, <2>1, ReportsQueued DEF ReportsOfNew
  <2> QED BY <2>1, <2>2 DEF Agrees, Subject
<1>5. \A u \in DOMAIN queue' : PlacingFirst(queue'[u])
  BY <1>1 DEF PlacingFirst, PlacingType, ScheduledType, ClientType, ResourceCommand
<1>6. Books'
  <2> SUFFICES ASSUME NEW w \in DOMAIN vmState' PROVE Booked(w)'
    BY DEF Books
  <2>1. CASE w \notin DOMAIN vmState
    BY <1>2, <2>1 DEF Booked, VMsAndEventsKept
  <2>2. CASE w \in DOMAIN vmState
    <3>1. Booked(w) /\ vmState'[w] = vmState[w]
      BY <2>2 DEF BooksInv, Books, VMsAndEventsKept
    <3>2. \A f : Queued(f) => Queued(f)'
      BY DEF VMsAndEventsKept
    <3>3. PICK f : f = VMStorageEvent("kVMCreated", w)
      OBVIOUS
    <3>4. f.type = "kVMCreated" /\ f.vm = w
      BY <3>3 DEF VMStorageEvent
    <3>5. Queued(f)' => Queued(f)
      BY <2>2, <3>4 DEF ReportsOfNew
    <3>6. /\ Queued(VMStorageEvent("kVMDeleted", w)) => Queued(VMStorageEvent("kVMDeleted", w))'
          /\ Queued(VMStorageEvent("kVMHosted", w)) => Queued(VMStorageEvent("kVMHosted", w))'
          /\ Queued(VMEvent(w, "kDeleteCompleted")) => Queued(VMEvent(w, "kDeleteCompleted"))'
          /\ Queued(VMStorageEvent("kVMCreated", w))' => Queued(VMStorageEvent("kVMCreated", w))
      BY <3>2, <3>3, <3>5
    <3> QED BY <3>1, <3>6 DEF Booked
  <2> QED BY <2>1, <2>2
<1> QED BY <1>3, <1>4, <1>5, <1>6 DEF UnderWay

(* The command e, filed at either end of the deque of the present, finds   *)
(* only commands there.                                                    *)
Called(e) ==
  /\ QueueTypeOK(Sent)'
  /\ ~simulating /\ UNCHANGED simulating
  /\ CommandsOnly'
  /\ PendingKeepsGoing'
  /\ \A f : Queued(f)' => Queued(f) \/ f = e
  /\ storageState = "kOk" => \A u \in DOMAIN queue' : InOrder(queue'[u])

(* Every command that is filed is such a call.                             *)
LEMMA SubmitCalls ==
  ASSUME BooksInv, NEW e \in Sent, NEW immediate \in BOOLEAN, Submit(e, immediate),
         e.type \in ClientType,
         e.type = "kVMCreated" => ~immediate /\ e.vm \notin DOMAIN vmState
  PROVE  Called(e)
<1>1. /\ ~simulating /\ UNCHANGED simulating
      /\ queue' = Insert(queue, now, now, <<e>>, immediate) /\ now' = now
  BY DEF Submit, Accept
<1>2. QueueTypeOK(Sent) /\ CommandsOnly
  BY <1>1 DEF BooksInv, Idle, CommandsOnly
<1>3. QueueTypeOK(Sent)'
  BY <1>1, <1>2, InsertNow
<1>4. DOMAIN queue' = DOMAIN queue \cup {now} /\ (immediate => InsertedAtHead(e)) /\ (~immediate => InsertedAtEnd(e))
  BY <1>1, <1>2, InsertSources
<1>5. now \in Nat /\ \A u \in DOMAIN queue' : u = now /\ Len(queue'[u]) \in Nat
  <2>1. \A u \in DOMAIN queue' : queue'[u] \in Seq(Sent)
    BY <1>3 DEF QueueTypeOK
  <2> QED BY <1>2, <1>4, <2>1 DEF CommandsOnly, QueueTypeOK
<1>6. PendingKeepsGoing'
  <2>1. DOMAIN queue' # {}
    BY <1>4
  <2>2. queue' # << >>
    BY <2>1
  <2> QED BY <2>2 DEF PendingKeepsGoing
<1>7. ASSUME NEW u \in DOMAIN queue', NEW i \in 1..Len(queue'[u])
      PROVE  \/ WasThere(u, i)
             \/ HasMovedDown(u, i)
             \/ queue'[u][i] = e
  BY <1>4, <1>7 DEF InsertedAtHead, InsertedAtEnd, IsCommand
<1>8. CommandsOnly'
  <2> SUFFICES ASSUME NEW u \in DOMAIN queue', NEW i \in 1..Len(queue'[u])
               PROVE  queue'[u][i].type \in ClientType
    BY <1>1, <1>5 DEF CommandsOnly
  <2> QED BY <1>2, <1>7 DEF CommandsOnly, WasThere, HasMovedDown
<1>9. ASSUME NEW f, Queued(f)' PROVE Queued(f) \/ f = e
  <2>1. PICK u \in DOMAIN queue' : \E i \in 1..Len(queue'[u]) : queue'[u][i] = f
    BY <1>9 DEF Queued, QueuedAt
  <2>2. PICK i \in 1..Len(queue'[u]) : queue'[u][i] = f
    BY <2>1
  <2> QED BY <1>7, <2>2 DEF WasThere, HasMovedDown, Queued, QueuedAt
<1>10. ASSUME storageState = "kOk", NEW u \in DOMAIN queue', NEW i, NEW j,
              i \in 1..Len(queue'[u]), j \in 1..Len(queue'[u]), i < j,
              Staged(queue'[u][i]), Staged(queue'[u][j]),
              Subject(queue'[u][i]) = Subject(queue'[u][j])
       PROVE  FALSE
  <2>1. queue'[u][i].type = "kVMCreated" /\ queue'[u][j].type = "kVMCreated"
    BY <1>8, <1>10 DEF CommandsOnly, Staged, StagedType, ClientType, ResourceCommand
  <2>2. queue'[u][i].vm = queue'[u][j].vm
    BY <1>10, <2>1 DEF Subject
  <2>3. UnderWay /\ (u \in DOMAIN queue => InOrder(queue[u]))
    BY <1>10 DEF BooksInv, UnderWay
  <2>4. CASE immediate
    <3>1. u = now /\ e.type # "kVMCreated"
      BY <1>5, <2>4
    <3>2. HasMovedDown(u, i) /\ HasMovedDown(u, j)
      BY <1>4, <1>10, <2>1, <2>4, <3>1 DEF InsertedAtHead, IsCommand
    <3>3. PICK k \in 1..Len(queue[u]), m \in 1..Len(queue[u]) : k = i - 1 /\ m = j - 1
      BY <3>2 DEF HasMovedDown
    <3>4. /\ u \in DOMAIN queue /\ k < m /\ queue'[u][i] = queue[u][k] /\ queue'[u][j] = queue[u][m]
      BY <1>5, <1>10, <3>2, <3>3 DEF HasMovedDown
    <3>5. Stage(queue[u][k].type) < Stage(queue[u][m].type) \/ queue[u][m].type = "kVMDeleted"
      BY <1>10, <2>3, <3>4 DEF InOrder
    <3> QED BY <2>1, <3>4, <3>5, StageOf
  <2>5. CASE ~immediate
    <3>1. WasThere(u, i)
      <4>1. Len(queue'[u]) \in Nat
        BY <1>5
      <4> QED BY <1>4, <1>10, <2>5, <4>1 DEF InsertedAtEnd
    <3>2. queue'[u][j] = e \/ WasThere(u, j)
      BY <1>4, <1>10, <2>5 DEF InsertedAtEnd, IsCommand
    <3>3. CASE WasThere(u, j)
      <4>1. Stage(queue[u][i].type) < Stage(queue[u][j].type) \/ queue[u][j].type = "kVMDeleted"
        BY <1>10, <2>3, <3>1, <3>3 DEF InOrder, WasThere
      <4> QED BY <2>1, <3>1, <3>3, <4>1, StageOf DEF WasThere
    <3>4. CASE queue'[u][j] = e
      <4>1. PICK f : f = queue[u][i]
        OBVIOUS
      <4>2. f.type = "kVMCreated" /\ f.vm = e.vm /\ Queued(f)
        BY <2>1, <2>2, <3>1, <3>4, <4>1 DEF WasThere, Queued, QueuedAt
      <4>3. f.vm \in DOMAIN vmState
        BY <1>10, <4>2, ReportsQueued
      <4> QED BY <2>1, <3>4, <4>2, <4>3
    <3> QED BY <3>2, <3>3, <3>4
  <2> QED BY <2>4, <2>5
<1>11. storageState = "kOk" => \A u \in DOMAIN queue' : InOrder(queue'[u])
  BY <1>10 DEF InOrder
<1> QED BY <1>1, <1>3, <1>6, <1>8, <1>9, <1>11 DEF Called

(* A call keeps the invariant.                                             *)
LEMMA CalledBooks ==
  ASSUME BooksInv, ClientCall, UNCHANGED storageVars, NEW e, Called(e),
         e.type = "kVMCreated" => e.vm \notin DOMAIN vmState
  PROVE  BooksInv'
<1>1. WorldInv /\ PlacedInv /\ CompletionUnderWay
  BY DEF BooksInv, PlacedInv
<1>2. PlacedInv' /\ VMsAndEventsKept
  BY <1>1, CallPlaces, CallKeeps
<1>3. CompletionUnderWay'
  <2> SUFFICES ASSUME NEW v \in DOMAIN vmState', vmState'[v] \in DOMAIN Completion
               PROVE  Queued(VMEvent(v, Completion[vmState[v]]))'
    BY DEF CompletionUnderWay
  <2>1. v \in DOMAIN vmState /\ vmState'[v] = vmState[v]
    BY <1>2 DEF VMsAndEventsKept, Completion
  <2> QED BY <1>1, <1>2, <2>1 DEF CompletionUnderWay, VMsAndEventsKept, VMEvent
<1>4. Idle'
  BY DEF Called, CommandsOnly, Idle
<1>5. ReportsOfNew
  BY DEF Called, ReportsOfNew
<1>6. ASSUME storageState' = "kOk" PROVE (UnderWay /\ Books)'
  <2>1. storageState = "kOk" /\ UNCHANGED vms
    BY <1>6 DEF storageVars
  <2> QED BY <1>1, <1>2, <1>5, <2>1, CallsUnderWay DEF Called
<1> QED BY <1>2, <1>3, <1>4, <1>6 DEF Called, BooksInv

LEMMA CallBooks ==
  ASSUME BooksInv, ClientCall
  PROVE  BooksInv'
<1>1. WorldInv
  BY DEF BooksInv, PlacedInv
<1>2. ASSUME NEW n \in Named, NEW type \in ResourceCommand, DoResourceAction(type, n)
      PROVE  BooksInv'
  <2>1. PICK e : e = ResourceEvent(n, type)
    OBVIOUS
  <2>2. e \in WorldEvent /\ e.type = type
    BY <1>1, <1>2, <2>1, CommandFiled DEF DoResourceAction, ResourceEvent, ResourceEventType, Filed
  <2>3. e \in Sent /\ e.type \in ClientType /\ e.type # "kVMCreated"
    BY <2>2 DEF Sent, ClientType, ResourceCommand
  <2>4. Called(e)
    BY <1>2, <2>1, <2>3, SubmitCalls DEF DoResourceAction
  <2> QED BY <1>2, <2>3, <2>4, CalledBooks DEF DoResourceAction, actorVars
<1>3. ASSUME NEW n \in Named, DoProvisionVM(n)
      PROVE  BooksInv'
  <2>1. PICK e : e = VMStorageEvent("kVMProvisionRequested", n)
    OBVIOUS
  <2>2. e \in WorldEvent /\ e.type = "kVMProvisionRequested"
    BY <1>1, <2>1, StorageEventFiled DEF VMStorageEventType, VMStorageEvent, Filed
  <2>3. e \in Sent /\ e.type \in ClientType /\ e.type # "kVMCreated"
    BY <2>2 DEF Sent, ClientType, VMStorageEventType
  <2>4. Called(e)
    BY <1>3, <2>1, <2>3, SubmitCalls DEF DoProvisionVM
  <2> QED BY <1>3, <2>3, <2>4, CalledBooks DEF DoProvisionVM, actorVars
<1>4. ASSUME NEW n \in Named, NEW type \in {"kStop", "kDelete"}, DoVMAction(type, n)
      PROVE  BooksInv'
  <2>1. PICK e : e = VMEvent(n, type)
    OBVIOUS
  <2>2. e \in WorldEvent /\ e.type = type
    BY <1>1, <1>4, <2>1, CommandFiled DEF DoVMAction, VMEvent, VMEventType, Filed
  <2>3. e \in Sent /\ e.type \in ClientType /\ e.type # "kVMCreated"
    BY <2>2 DEF Sent, ClientType
  <2>4. Called(e)
    BY <1>4, <2>1, <2>3, SubmitCalls DEF DoVMAction
  <2> QED BY <1>4, <2>3, <2>4, CalledBooks DEF DoVMAction, actorVars
<1>5. ASSUME NEW v \in VM, CreateVM(v)
      PROVE  BooksInv'
  <2>1. PICK e : e = VMStorageEvent("kVMCreated", v)
    OBVIOUS
  <2>2. e \in [to : {Storage}, type : VMStorageEventType, vm : Named] /\ e.type = "kVMCreated" /\ e.vm = v
    BY <2>1 DEF VMStorageEvent, VMStorageEventType, Named
  <2>3. e \in WorldEvent
    BY <2>2 DEF WorldEvent
  <2>4. e \in Sent /\ e.type \in ClientType /\ v \notin DOMAIN vmState
    BY <1>5, <2>2, <2>3 DEF Sent, ClientType, VMStorageEventType, CreateVM, Registered
  <2>5. Called(e)
    BY <1>5, <2>1, <2>2, <2>4, SubmitCalls DEF CreateVM
  <2> QED BY <1>5, <2>2, <2>4, <2>5, CalledBooks DEF CreateVM
<1>6. ASSUME NEW v \in VM, CreateVMFails(v)
      PROVE  BooksInv'
  <2>1. ~simulating /\ UNCHANGED <<queue, now, simulating, storageVars>>
    BY <1>6 DEF CreateVMFails, Refuse
  <2>2. PICK e : e = VMStorageEvent("kVMProvisionRequested", v)
    OBVIOUS
  <2>3. e.type # "kVMCreated"
    BY <2>2 DEF VMStorageEvent
  <2>4. Called(e)
    <3>1. QueueTypeOK(Sent)' /\ CommandsOnly'
      BY <2>1 DEF BooksInv, QueueTypeOK, Idle, CommandsOnly
    <3>2. PendingKeepsGoing'
      BY <2>1 DEF BooksInv, PendingKeepsGoing, Pending, storageVars
    <3>3. \A f : Queued(f)' => Queued(f)
      BY <2>1 DEF Queued, QueuedAt
    <3>4. storageState = "kOk" => \A u \in DOMAIN queue' : InOrder(queue'[u])
      BY <2>1 DEF BooksInv, UnderWay
    <3> QED BY <2>1, <3>1, <3>2, <3>3, <3>4 DEF Called
  <2> QED BY <2>1, <2>3, <2>4, CalledBooks
<1> QED BY <1>2, <1>3, <1>4, <1>5, <1>6 DEF ClientCall, Named

(* The invariant is inductive.                                             *)
LEMMA BooksInit == WorldInit => BooksInv
<1> SUFFICES ASSUME WorldInit PROVE BooksInv
  OBVIOUS
<1>1. PlacedInv
  BY PlacedInit
<1>2. queue = << >> /\ now = 1 /\ vms = << >> /\ vmState = << >>
  BY DEF WorldInit, EvInit, StorageInit, VMInit
<1>3. DOMAIN queue = {} /\ DOMAIN vms = {} /\ DOMAIN vmState = {}
  BY <1>2
<1>4. QueueTypeOK(Sent) /\ CompletionUnderWay /\ Idle
  BY <1>2, <1>3 DEF QueueTypeOK, CompletionUnderWay, Idle
<1>5. PendingKeepsGoing /\ UnderWay /\ Books
  BY <1>3 DEF PendingKeepsGoing, Pending, UnderWay, StagedAtOnce, AllAgree, Books
<1> QED BY <1>1, <1>4, <1>5 DEF BooksInv

(* What the invariant says does not change when nothing it is about does.  *)
LEMMA BooksStutter ==
  ASSUME BooksInv, PlacedInv', UNCHANGED <<queue, now, actorVars>>,
         simulating' = simulating \/ simulating' = TRUE \/ queue = << >>
  PROVE  BooksInv'
<1>1. UNCHANGED <<queue, now, vms, vmState, storageState>>
  BY DEF actorVars, vmVars, storageVars
<1>2. (queue = << >>) => DOMAIN queue = {}
  OBVIOUS
<1>3. \A e : Queued(e)' <=> Queued(e)
  BY <1>1 DEF Queued, QueuedAt
<1>4. \A e : Agrees(e) => Agrees(e)'
  BY <1>1 DEF Agrees, Queued, QueuedAt
<1>5. \A v : Booked(v) => Booked(v)'
  BY <1>1 DEF Booked, Queued, QueuedAt
<1>6. QueueTypeOK(Sent)' /\ CompletionUnderWay' /\ PendingKeepsGoing'
  BY <1>1 DEF BooksInv, QueueTypeOK, CompletionUnderWay, Queued, QueuedAt, PendingKeepsGoing, Pending
<1>7. Idle'
  BY <1>1, <1>2 DEF BooksInv, Idle
<1>8. ASSUME storageState' = "kOk" PROVE (UnderWay /\ Books)'
  <2>1. UnderWay /\ Books
    BY <1>1, <1>8 DEF BooksInv
  <2>2. Books'
    BY <1>1, <1>5, <2>1 DEF Books
  <2>3. AllAgree'
    <3> SUFFICES ASSUME NEW u \in DOMAIN queue', NEW i \in 1..Len(queue'[u]), Staged(queue'[u][i]),
                        NEW e, e = queue'[u][i]
                 PROVE  Agrees(e)'
      BY DEF AllAgree
    <3> QED BY <1>1, <1>4, <2>1 DEF UnderWay, AllAgree
  <2> QED BY <1>1, <2>1, <2>2, <2>3 DEF UnderWay, StagedAtOnce, IsNext
<1> QED BY <1>6, <1>7, <1>8 DEF BooksInv

LEMMA BooksNext == BooksInv /\ [WorldNext]_worldVars => BooksInv'
<1> SUFFICES ASSUME BooksInv, [WorldNext]_worldVars PROVE BooksInv'
  OBVIOUS
<1>1. PlacedInv'
  BY PlacedNext DEF BooksInv
<1>2. CASE ClientCall
  BY <1>2, CallBooks
<1>3. CASE SimulateNextStep(UpdateWorld)
  BY <1>3, LoopBooks
<1>4. CASE SimulateAll /\ UNCHANGED actorVars
  BY <1>1, <1>4, BooksStutter DEF SimulateAll
<1>5. CASE SimulateAllReturns /\ UNCHANGED actorVars
  BY <1>1, <1>5, BooksStutter DEF SimulateAllReturns
<1>6. CASE UNCHANGED worldVars
  BY <1>1, <1>6, BooksStutter DEF worldVars, actorVars, serverVars, vmVars, storageVars
<1> QED BY <1>2, <1>3, <1>4, <1>5, <1>6 DEF WorldNext

-----------------------------------------------------------------------------
(* A placement under way is one of the queue's first deque, and the books  *)
(* are ready for it.                                                       *)
LEMMA PlacementAgrees ==
  ASSUME BooksInv, storageState = "kOk", NEW v, NEW p, p \in Placements(v)
  PROVE  /\ p[1] \in DOMAIN queue /\ p[2] \in 1..Len(queue[p[1]]) /\ p = <<p[1], p[2]>>
         /\ IsNext(p[1])
         /\ Staged(queue[p[1]][p[2]]) /\ Subject(queue[p[1]][p[2]]) = v
         /\ Stage(queue[p[1]][p[2]].type) = 3 /\ queue[p[1]][p[2]].type # "kVMDeleted"
         /\ v \in DOMAIN vms /\ vms[v] \in {"kPending", "kProvisioning"}
<1>1. PICK t \in DOMAIN queue : p \in {t} \X (1..Len(queue[t]))
  BY DEF Placements
<1>2. PICK i \in 1..Len(queue[t]) : p = <<t, i>>
  BY <1>1
<1>3. PICK e : e = queue[t][i]
  OBVIOUS
<1>4. \/ e \in [to : {v}, type : {"kStart"}, server : Servers]
      \/ e \in [to : Servers, type : {"kProvisionVM"}, vm : {v}]
  BY <1>2, <1>3 DEF Placements
<1>5. e.type \in {"kStart", "kProvisionVM"} /\ Staged(e) /\ Subject(e) = v
  BY <1>4 DEF Staged, StagedType, Subject
<1>6. UnderWay
  BY DEF BooksInv
<1>7. IsNext(t) /\ Agrees(e)
  BY <1>3, <1>5, <1>6 DEF UnderWay, StagedAtOnce, AllAgree
<1>8. v \in DOMAIN vms /\ vms[v] \in {"kPending", "kProvisioning"}
  BY <1>5, <1>7 DEF Agrees
<1>9. Stage(e.type) = 3 /\ e.type # "kVMDeleted"
  BY <1>5, StageOf
<1> QED BY <1>2, <1>3, <1>5, <1>7, <1>8, <1>9

(* There are no two: their stages are the same.                            *)
LEMMA PlacedAtMostOnce ==
  ASSUME BooksInv, storageState = "kOk", NEW v, NEW p, p \in Placements(v), NEW q, q \in Placements(v)
  PROVE  p = q
<1>1. PICK t, i :
        /\ t \in DOMAIN queue /\ i \in 1..Len(queue[t])
        /\ p = <<t, i>> /\ IsNext(t)
        /\ Staged(queue[t][i]) /\ Subject(queue[t][i]) = v
        /\ Stage(queue[t][i].type) = 3 /\ queue[t][i].type # "kVMDeleted"
  BY PlacementAgrees
<1>2. PICK u, j :
        /\ u \in DOMAIN queue /\ j \in 1..Len(queue[u])
        /\ q = <<u, j>> /\ IsNext(u)
        /\ Staged(queue[u][j]) /\ Subject(queue[u][j]) = v
        /\ Stage(queue[u][j].type) = 3 /\ queue[u][j].type # "kVMDeleted"
  BY PlacementAgrees
<1>3. DOMAIN queue \subseteq Nat /\ InOrder(queue[t]) /\ Len(queue[t]) \in Nat
  <2>1. queue[t] \in Seq(Sent) /\ DOMAIN queue \subseteq Nat
    BY <1>1 DEF BooksInv, QueueTypeOK
  <2> QED BY <1>1, <2>1 DEF BooksInv, UnderWay
<1>4. t = u
  BY <1>1, <1>2, <1>3 DEF IsNext
<1>5. ~(i < j) /\ ~(j < i)
  BY <1>1, <1>2, <1>3, <1>4 DEF InOrder
<1> QED BY <1>1, <1>2, <1>3, <1>4, <1>5

(* The invariant gives the two properties of states.                       *)
LEMMA BooksMeanPlacedOnce == BooksInv => PlacedOnce
<1> SUFFICES ASSUME BooksInv, storageState = "kOk", NEW v \in VM
             PROVE  /\ Cardinality(Placements(v)) <= 1
                    /\ Placements(v) # {} => v \in DOMAIN vms /\ vms[v] \in {"kPending", "kProvisioning"}
  BY DEF PlacedOnce
<1>1. CASE Placements(v) = {}
  BY <1>1, FS_EmptySet
<1>2. CASE Placements(v) # {}
  <2>1. PICK p : p \in Placements(v)
    BY <1>2
  <2>2. Placements(v) = {p}
    BY <2>1, PlacedAtMostOnce
  <2>3. Cardinality({p}) = 1
    BY FS_Singleton
  <2> QED BY <2>1, <2>2, <2>3, PlacementAgrees
<1> QED BY <1>1, <1>2

LEMMA BooksMeanSettled == BooksInv /\ StartUnderWay => Settled
<1> SUFFICES ASSUME BooksInv, StartUnderWay, ~simulating, queue = << >>, storageState = "kOk"
             PROVE  /\ Pending = {}
                    /\ \A v \in DOMAIN vmState :
                         /\ vmState[v] \notin {"kStarting", "kStopping"}
                         /\ vmState[v] = "kRunning" => v \in DOMAIN vms /\ vms[v] = "kHostedVM"
                         /\ vmState[v] = "kDeleting" => v \notin DOMAIN vms
                         /\ vmState[v] = "kProvisioning" => v \notin hosted[FirstServer]
  BY DEF Settled
<1>1. Pending = {}
  BY DEF BooksInv, PendingKeepsGoing
<1>2. \A e : ~Queued(e)
  <2>1. DOMAIN queue = {}
    OBVIOUS
  <2> QED BY <2>1 DEF Queued
<1>3. ASSUME NEW v \in DOMAIN vmState
      PROVE  /\ vmState[v] \notin {"kStarting", "kStopping"}
             /\ vmState[v] = "kRunning" => v \in DOMAIN vms /\ vms[v] = "kHostedVM"
             /\ vmState[v] = "kDeleting" => v \notin DOMAIN vms
             /\ vmState[v] = "kProvisioning" => v \notin hosted[FirstServer]
  <2>1. Booked(v)
    BY DEF BooksInv, Books
  <2>2. vmState[v] \notin DOMAIN Completion
    BY <1>2 DEF BooksInv, CompletionUnderWay
  <2>3. vmState[v] \notin {"kStarting", "kStopping"}
    BY <2>2 DEF Completion
  <2>4. vmState[v] = "kProvisioning" => v \notin hosted[FirstServer]
    BY <1>2, FirstServerAssumption DEF StartUnderWay
  <2> QED BY <1>2, <2>1, <2>3, <2>4 DEF Booked
<1> QED BY <1>1, <1>3

(* A deletion that is reported to a storage that does not list the VM has  *)
(* been entered before: the report of its creation is not under way, as it *)
(* would have come first.                                                  *)
LEMMA DeletedIsGone ==
  ASSUME BooksInv, storageState = "kOk", NEW t \in DOMAIN queue, IsNext(t), NEW n \in VM,
         NextEvent(t) = VMStorageEvent("kVMDeleted", n), n \notin DOMAIN vms
  PROVE  StageOnBooks(n) = "gone"
<1>1. UnderWay /\ QueueTypeOK(Sent)
  BY DEF BooksInv
<1>2. PICK e : e = NextEvent(t)
  OBVIOUS
<1>3. e.type = "kVMDeleted" /\ e.vm = n /\ Staged(e) /\ Subject(e) = n
  BY <1>2 DEF VMStorageEvent, Staged, StagedType, Subject
<1>4. n \in DOMAIN vmState
  BY <1>1, <1>2, <1>3, HeadAgrees DEF Agrees
<1>5. ASSUME Queued(VMStorageEvent("kVMCreated", n)) PROVE FALSE
  <2>1. PICK c : c = VMStorageEvent("kVMCreated", n)
    OBVIOUS
  <2>2. c.type = "kVMCreated" /\ Staged(c) /\ Subject(c) = n
    BY <2>1 DEF VMStorageEvent, Staged, StagedType, Subject
  <2>3. PICK u \in DOMAIN queue : \E i \in 1..Len(queue[u]) : queue[u][i] = c
    BY <1>5, <2>1 DEF Queued, QueuedAt
  <2>4. PICK i \in 1..Len(queue[u]) : queue[u][i] = c
    BY <2>3
  <2>5. IsNext(u)
    BY <1>1, <2>2, <2>4 DEF UnderWay, StagedAtOnce
  <2>6. u = t
    BY <1>1, <2>5 DEF IsNext, QueueTypeOK
  <2>7. 1 \in 1..Len(queue[t]) /\ queue[t][1] = e /\ queue[t] \in Seq(Sent)
    BY <1>1, <1>2 DEF QueueTypeOK, NextEvent
  <2>8. i # 1
    BY <1>3, <2>2, <2>4, <2>6, <2>7
  <2>9. i \in 1..Len(queue[t]) /\ 1 < i /\ queue[t][i] = c
    BY <2>4, <2>6, <2>7, <2>8
  <2>10. Stage(e.type) < Stage(c.type) \/ c.type = "kVMDeleted"
    BY <1>1, <1>3, <2>2, <2>7, <2>9 DEF UnderWay, InOrder
  <2>11. Stage("kVMDeleted") = 5 /\ Stage("kVMCreated") = 1
    BY DEF Stage
  <2> QED BY <1>3, <2>2, <2>10, <2>11
<1> QED BY <1>4, <1>5 DEF StageOnBooks

(* The head of the queue is one of what may fail the storage, and it does. *)
FailsForCause(t) ==
  /\ storageState' = "kFailure"
  /\ IsNext(t)
  /\ NextEvent(t).to = Storage
  /\ LET e == NextEvent(t)
     IN  \/ e.type = "kVMProvisionRequested" /\ e.vm \notin DOMAIN vms
         \/ e.type = "kVMDeleted" /\ StageOnBooks(e.vm) = "gone"
         \/ e.type \in ResourceCommand \cup {"kStop", "kDelete"}

(* What a step of the storage may do to its books and to itself.           *)
LEMMA StorageStepMeans ==
  ASSUME BooksInv, NEW t \in DOMAIN queue, StorageStep(t, UpdateWorld)
  PROVE  /\ \A v \in DOMAIN vms \cap DOMAIN vms' :
              vms'[v] = vms[v] \/ Rank[vms'[v]] = Rank[vms[v]] + 1
         /\ storageState # storageState' => FailsForCause(t)
<1>1. /\ QueueTypeOK(Sent) /\ NextEvent(t) \in Sent
      /\ storageState = "kOk" => UnderWay /\ Books
      /\ DOMAIN vms \subseteq DOMAIN vmState
  <2>1. queue[t] \in Seq(Sent) \ {<< >>}
    BY DEF BooksInv, QueueTypeOK
  <2>2. NextEvent(t) \in Sent
    BY <2>1 DEF NextEvent
  <2> QED BY <2>2 DEF BooksInv, PlacedInv, WorldInv, ActorsInv, Complete
<1>2. CASE InFailedState(t, UpdateWorld)
  BY <1>2 DEF InFailedState, storageVars
<1>3. CASE StorageInvalidEvent(t, UpdateWorld)
  <2>1. IsNext(t) /\ NextEvent(t).to = Storage /\ NextEvent(t).type \notin VMStorageEventType /\ vms' = vms
    BY <1>3 DEF StorageInvalidEvent, StorageReceives, UpdateOrFail
  <2>2. storageState' = "kFailure"
    BY <1>3 DEF StorageInvalidEvent, UpdateOrFail
  <2> QED BY <1>1, <2>1, <2>2 DEF Sent, FailsForCause
<1>4. CASE \E n \in Registered : HandleVMStorageEvent(n, t, UpdateWorld)
  <2>1. PICK n : HandleVMStorageEvent(n, t, UpdateWorld)
    BY <1>4
  <2>2. PICK type \in VMStorageEventType : StorageHandles(type, n, t)
    BY <2>1 DEF HandleVMStorageEvent, AddVM, MoveToPending, MoveToProvisioning, MoveToHosted,
                MoveToStopped, DeleteVM, VMStorageEventType
  <2>3. /\ IsNext(t) /\ UnderWay /\ Books /\ storageState = "kOk"
        /\ NextEvent(t).type = type /\ NextEvent(t).vm = n /\ type # "kVMStopped"
        /\ NextEvent(t).to = Storage
    BY <1>1, <2>2 DEF StorageHandles, StorageReceives, VMStorageEvent, Sent
  <2>4. PICK e : e = NextEvent(t)
    OBVIOUS
  <2>5. type \in StagedType => Agrees(e)
    BY <1>1, <2>3, <2>4, HeadAgrees DEF Staged
  <2>6. e.type \in VMStorageEventType /\ Subject(e) = n
    BY <2>3, <2>4 DEF Subject, VMStorageEventType
  <2>7. /\ type = "kVMCreated" => n \notin DOMAIN vms
        /\ type = "kVMScheduled" => n \in DOMAIN vms /\ vms[n] = "kPending"
        /\ type = "kVMHosted" => n \in DOMAIN vms /\ vms[n] = "kProvisioning"
    BY <2>3, <2>4, <2>5, <2>6 DEF Agrees, StagedType
  <2>8. CASE AddVM(n, t, UpdateWorld)
    <3>1. type = "kVMCreated"
      BY <2>3, <2>8 DEF AddVM, StorageHandles, VMStorageEvent
    <3> QED BY <2>7, <2>8, <3>1 DEF AddVM, UpdateOrFail, WithStatus
  <2>9. CASE MoveToPending(n, t, UpdateWorld)
    <3>1. type = "kVMProvisionRequested"
      BY <2>3, <2>9 DEF MoveToPending, StorageHandles, VMStorageEvent
    <3>2. n \in DOMAIN vms => vms[n] # "kStoppedVM"
      BY <1>1, <2>3 DEF Books, Booked
    <3>3. \A v \in DOMAIN vms \cap DOMAIN vms' :
              vms'[v] = vms[v] \/ (vms[v] = "kCreated" /\ vms'[v] = "kPending")
      BY <2>9, <3>2 DEF MoveToPending, UpdateOrFail, WithStatus
    <3>4. storageState # storageState' => storageState' = "kFailure" /\ n \notin DOMAIN vms
      BY <2>9 DEF MoveToPending, UpdateOrFail
    <3> QED BY <2>3, <3>1, <3>3, <3>4 DEF Rank, FailsForCause
  <2>10. CASE MoveToProvisioning(n, t, UpdateWorld)
    <3>1. type = "kVMScheduled"
      BY <2>3, <2>10 DEF MoveToProvisioning, StorageHandles, VMStorageEvent
    <3>2. \A v \in DOMAIN vms \cap DOMAIN vms' :
              vms'[v] = vms[v] \/ (vms[v] = "kPending" /\ vms'[v] = "kProvisioning")
      BY <2>7, <2>10, <3>1 DEF MoveToProvisioning, UpdateOrFail, WithStatus
    <3>3. storageState' = storageState
      BY <2>7, <2>10, <3>1 DEF MoveToProvisioning, UpdateOrFail
    <3> QED BY <3>2, <3>3 DEF Rank
  <2>11. CASE MoveToHosted(n, t, UpdateWorld)
    <3>1. type = "kVMHosted"
      BY <2>3, <2>11 DEF MoveToHosted, StorageHandles, VMStorageEvent
    <3>2. \A v \in DOMAIN vms \cap DOMAIN vms' :
              vms'[v] = vms[v] \/ (vms[v] = "kProvisioning" /\ vms'[v] = "kHostedVM")
      BY <2>7, <2>11, <3>1 DEF MoveToHosted, UpdateOrFail, WithStatus
    <3>3. storageState' = storageState
      BY <2>7, <2>11, <3>1 DEF MoveToHosted, UpdateOrFail
    <3> QED BY <3>2, <3>3 DEF Rank
  <2>12. ~MoveToStopped(n, t, UpdateWorld)
    BY <2>3 DEF MoveToStopped, StorageHandles, VMStorageEvent
  <2>13. CASE DeleteVM(n, t, UpdateWorld)
    <3>1. type = "kVMDeleted"
      BY <2>3, <2>13 DEF DeleteVM, StorageHandles, VMStorageEvent
    <3>2. storageState # storageState' => storageState' = "kFailure" /\ n \notin DOMAIN vms
      BY <2>13 DEF DeleteVM, UpdateOrFail
    <3>3. n \in VM
      BY <1>1, <2>3, <2>4, <2>5, <2>6, <3>1 DEF StagedType, Agrees, BooksInv, PlacedInv, WorldInv, ActorsInv, VMTypeOK
    <3>4. NextEvent(t) = VMStorageEvent("kVMDeleted", n)
      BY <2>13 DEF DeleteVM, StorageHandles
    <3>5. n \notin DOMAIN vms => StageOnBooks(n) = "gone"
      BY <2>3, <3>3, <3>4, DeletedIsGone
    <3> QED BY <2>3, <2>13, <3>1, <3>2, <3>5 DEF DeleteVM, UpdateOrFail, FailsForCause
  <2> QED BY <2>1, <2>8, <2>9, <2>10, <2>11, <2>12, <2>13 DEF HandleVMStorageEvent
<1> QED BY <1>2, <1>3, <1>4 DEF StorageStep

(* Only the handlers of the storage touch its books.                       *)
LEMMA StorageMoves ==
  ASSUME BooksInv, [WorldNext]_worldVars
  PROVE  \/ UNCHANGED storageVars
         \/ \E t \in DOMAIN queue : StorageStep(t, UpdateWorld)
BY DEF WorldNext, ClientCall, DoResourceAction, DoProvisionVM, DoVMAction, CreateVM, CreateVMFails,
       SimulateNextStep, ResourceStep, ServerStep, VMStep, NobodyStep, actorVars, worldVars, storageVars

(* Although UpdateSchedule() (place-to-first.h) visits every pending VM    *)
(* each time the deque empties, and whatever else clients send meanwhile:  *)
(* while the storage works, at most one placement of each VM is under      *)
(* way, and the storage knows of it.                                       *)
THEOREM SchedulingIsSerial == WorldSafetySpec => []PlacedOnce
<1> QED BY BooksInit, BooksNext, BooksMeanPlacedOnce, PTL DEF WorldSafetySpec

(* When SimulateAll has returned and the storage works, no VM is pending,  *)
(* starting or stopping, every running VM is on the books as hosted, one   *)
(* being deleted has left them, and one whose placement failed is not in   *)
(* the server's set, with any delays and any number of commands.           *)
THEOREM LoopSettles == WorldSafetySpec => []Settled
<1>1. BooksInv /\ StartUnderWay /\ [WorldNext]_worldVars => StartUnderWay'
  BY StartsNext DEF BooksInv, PlacedInv
<1> QED BY <1>1, StartsInit, BooksInit, BooksNext, BooksMeanSettled, PTL DEF WorldSafetySpec

(* The status of a VM on the books of the storage (vm-storage.cpp) moves   *)
(* forward one status at a time, although two of its handlers write it     *)
(* without a look at the old one.                                          *)
THEOREM StatusesComeInOrder == WorldSafetySpec => StatusMovesForward
<1>1. BooksInv /\ [WorldNext]_worldVars =>
        [\A v \in DOMAIN vms \cap DOMAIN vms' :
           vms'[v] = vms[v] \/ Rank[vms'[v]] = Rank[vms[v]] + 1]_worldVars
  <2> SUFFICES ASSUME BooksInv, [WorldNext]_worldVars
               PROVE  \A v \in DOMAIN vms \cap DOMAIN vms' :
                        vms'[v] = vms[v] \/ Rank[vms'[v]] = Rank[vms[v]] + 1
    OBVIOUS
  <2> QED BY StorageMoves, StorageStepMeans DEF storageVars
<1> QED BY <1>1, BooksInit, BooksNext, PTL DEF WorldSafetySpec, StatusMovesForward

(* The messages of the scheduler and of the VMs about placing never make   *)
(* the storage fail.  What does is a provision request for a name it does  *)
(* not list, a deletion it has entered before, or a command for another    *)
(* kind of actor.                                                          *)
THEOREM StorageFailsForCause == WorldSafetySpec => StorageFailureCause
<1>1. BooksInv /\ [WorldNext]_worldVars =>
        [storageState # storageState' => \E t \in DOMAIN queue : FailsForCause(t)]_worldVars
  <2> SUFFICES ASSUME BooksInv, [WorldNext]_worldVars, storageState # storageState'
               PROVE  \E t \in DOMAIN queue : FailsForCause(t)
    OBVIOUS
  <2> QED BY StorageMoves, StorageStepMeans DEF storageVars
<1>2. [storageState # storageState' => \E t \in DOMAIN queue : FailsForCause(t)]_worldVars =>
        [storageState # storageState' =>
           /\ storageState' = "kFailure"
           /\ \E t \in DOMAIN queue :
                /\ IsNext(t)
                /\ NextEvent(t).to = Storage
                /\ LET e == NextEvent(t)
                   IN  \/ e.type = "kVMProvisionRequested" /\ e.vm \notin DOMAIN vms
                       \/ e.type = "kVMDeleted" /\ StageOnBooks(e.vm) = "gone"
                       \/ e.type \in ResourceCommand \cup {"kStop", "kDelete"}]_worldVars
  BY DEF FailsForCause
<1> QED BY <1>1, <1>2, BooksInit, BooksNext, PTL DEF WorldSafetySpec, StorageFailureCause

-----------------------------------------------------------------------------
(* The states a VM may be in when its start is about to be completed.      *)
StartedState == {"kStarting", "kDeleting", "kFailure"}

(* A start is completed once: its completion waits at one place only.      *)
StartsOnce ==
  \A t \in DOMAIN queue : \A i \in 1..Len(queue[t]) :
    queue[t][i].type = "kStartCompleted" =>
      /\ queue[t][i].to \in DOMAIN vmState
      /\ vmState[queue[t][i].to] \in StartedState
      /\ \A u \in DOMAIN queue : \A j \in 1..Len(queue[u]) :
           queue[u][j] = queue[t][i] => u = t /\ j = i

(* What a step of the loop for time t has to show for it.                  *)
FilesAStart(out) ==
  \A k \in 1..Len(out) : out[k].type = "kStartCompleted" =>
    /\ Len(out) = 1
    /\ out[k].to \in DOMAIN vmState
    /\ vmState[out[k].to] = "kProvisioning" /\ vmState'[out[k].to] \in StartedState

KeepsStarted(t) ==
  \A v \in DOMAIN vmState : vmState[v] \in StartedState =>
    \/ vmState'[v] \in StartedState
    \/ NextEvent(t).to = v /\ NextEvent(t).type = "kStartCompleted"

(* All completions of one VM's start are the same event.                   *)
LEMMA OneCompletion ==
  ASSUME NEW e \in WorldEvent, NEW f \in WorldEvent, e.type = "kStartCompleted",
         f.type = "kStartCompleted", e.to = f.to
  PROVE  e = f
<1>1. ASSUME NEW g \in WorldEvent, g.type = "kStartCompleted"
      PROVE  g \in [to : Named, type : ResourceEventType \cup VMEventType]
  BY <1>1 DEF WorldEvent, VMStorageEventType
<1> QED BY <1>1

(* A completion that was filed before the step still waits where it did,   *)
(* or one place further to the front.                                      *)
WaitedAt(t, u, i) == IF u = t THEN i + 1 ELSE i

Waited(t, u, i) ==
  /\ u \in DOMAIN queue /\ WaitedAt(t, u, i) \in 1..Len(queue[u])
  /\ queue'[u][i] = queue[u][WaitedAt(t, u, i)]

(* A completion in the queue waited there before or is filed by the step.  *)
LEMMA CompletionSources ==
  ASSUME QueueTypeOK(Filed), ActorsInv', NEW t \in DOMAIN queue,
         NEW at \in Nat, at >= t, NEW out \in Seq(Filed), EndOfStep(t, at, out, UpdateWorld),
         NEW u \in DOMAIN queue', NEW i \in 1..Len(queue'[u]),
         queue'[u][i].type = "kStartCompleted"
  PROVE  Waited(t, u, i) \/ IsNew(t, at, out, u, i)
<1>1. \/ WasFiled(t, u, i) \/ HasMovedUp(t, u, i) \/ IsNew(t, at, out, u, i)
      \/ IsUpdate(t, UpdateWorld, u)
  BY StepSources
<1>2. ~IsUpdate(t, UpdateWorld, u)
  <2> SUFFICES ASSUME IsUpdate(t, UpdateWorld, u) PROVE FALSE
    OBVIOUS
  <2>1. u = t /\ queue'[t] \in UpdateWorld
    BY DEF IsUpdate
  <2>2. IsPlan(queue'[t])
    BY <2>1, PlanOf
  <2>3. PICK v : queue'[u][i] \in {VMStorageEvent("kVMScheduled", v), ServerEvent(FirstServer, "kProvisionVM", v)}
    BY <2>1, <2>2 DEF IsPlan, PlannedFor
  <2> QED BY <2>3 DEF VMStorageEvent, ServerEvent
<1>3. WasFiled(t, u, i) => Waited(t, u, i)
  BY DEF WasFiled, Waited, WaitedAt
<1>4. HasMovedUp(t, u, i) => Waited(t, u, i)
  BY DEF HasMovedUp, Waited, WaitedAt
<1> QED BY <1>1, <1>2, <1>3, <1>4

(* A step that shows this keeps completions apart.                         *)
LEMMA OnceKept ==
  ASSUME StartsOnce, WorldInv, ActorsInv', DOMAIN vmState' = DOMAIN vmState,
         NEW t \in DOMAIN queue,
         NEW at \in Nat, at >= t, NEW out \in Seq(Filed), EndOfStep(t, at, out, UpdateWorld),
         FilesAStart(out), KeepsStarted(t)
  PROVE  StartsOnce'
<1>1. QueueTypeOK(Filed)
  BY DEF WorldInv
<1>2. /\ \A u \in DOMAIN queue : Len(queue[u]) \in Nat
      /\ \A u \in DOMAIN queue : \A i \in 1..Len(queue[u]) : queue[u][i] \in WorldEvent
      /\ queue[t] # << >> /\ 1 \in 1..Len(queue[t])
  <2>1. \A u \in DOMAIN queue : queue[u] \in Seq(Filed) \ {<< >>}
    BY <1>1 DEF QueueTypeOK
  <2>2. \A d \in Seq(Filed) : \A i \in 1..Len(d) : d[i] \in WorldEvent
    BY DEF Filed
  <2> QED BY <2>1, <2>2
<1> SUFFICES ASSUME NEW u \in DOMAIN queue', NEW i \in 1..Len(queue'[u]),
                    queue'[u][i].type = "kStartCompleted", NEW e, e = queue'[u][i]
             PROVE  /\ e.to \in DOMAIN vmState
                    /\ vmState'[e.to] \in StartedState
                    /\ \A w \in DOMAIN queue' : \A j \in 1..Len(queue'[w]) :
                         queue'[w][j] = e => w = u /\ j = i
  BY DEF StartsOnce
<1>3. ASSUME NEW w \in DOMAIN queue', NEW j \in 1..Len(queue'[w]), queue'[w][j] = e
      PROVE  Waited(t, w, j) \/ IsNew(t, at, out, w, j)
  BY <1>1, <1>3, CompletionSources
<1>4. ASSUME NEW w, NEW j, Waited(t, w, j), queue'[w][j] = e
      PROVE  e.to \in DOMAIN vmState /\ vmState[e.to] \in StartedState
  <2>1. PICK n : n = WaitedAt(t, w, j)
    OBVIOUS
  <2>2. w \in DOMAIN queue /\ n \in 1..Len(queue[w]) /\ queue[w][n] = e /\ e.type = "kStartCompleted"
    BY <1>4, <2>1 DEF Waited
  <2>3. /\ queue[w][n].to \in DOMAIN vmState
        /\ vmState[queue[w][n].to] \in StartedState
    BY <2>2 DEF StartsOnce
  <2> QED BY <2>2, <2>3
<1>5. ASSUME NEW w, NEW j, IsNew(t, at, out, w, j), queue'[w][j] = e
      PROVE  /\ e.to \in DOMAIN vmState /\ vmState[e.to] = "kProvisioning"
             /\ vmState'[e.to] \in StartedState
             /\ w = at /\ j = 1 + (IF w = t THEN Len(queue[t]) - 1 ELSE Len(At(queue, w)))
  <2>1. PICK k \in 1..Len(out) :
          /\ queue'[w][j] = out[k]
          /\ j = k + (IF w = t THEN Len(queue[t]) - 1 ELSE Len(At(queue, w)))
    BY <1>5 DEF IsNew
  <2>2. /\ Len(out) = 1
        /\ e.to \in DOMAIN vmState
        /\ vmState[e.to] = "kProvisioning" /\ vmState'[e.to] \in StartedState
    BY <1>5, <2>1 DEF FilesAStart
  <2>3. k = 1
    BY <2>1, <2>2
  <2> QED BY <1>5, <2>1, <2>2, <2>3 DEF IsNew
<1>6. CASE Waited(t, u, i)
  <2>1. e.to \in DOMAIN vmState /\ vmState[e.to] \in StartedState
    BY <1>4, <1>6
  <2>2. ASSUME NEW w \in DOMAIN queue', NEW j \in 1..Len(queue'[w]), queue'[w][j] = e
        PROVE  w = u /\ j = i
    <3>1. Waited(t, w, j)
      BY <1>3, <1>5, <2>1, <2>2 DEF StartedState
    <3>2. PICK m, n : m = WaitedAt(t, u, i) /\ n = WaitedAt(t, w, j)
      OBVIOUS
    <3>3. /\ u \in DOMAIN queue /\ m \in 1..Len(queue[u]) /\ queue[u][m] = e
          /\ w \in DOMAIN queue /\ n \in 1..Len(queue[w]) /\ queue[w][n] = e
      BY <1>6, <2>2, <3>1, <3>2 DEF Waited
    <3>4. w = u /\ n = m
      BY <3>3 DEF StartsOnce
    <3> QED BY <3>2, <3>4 DEF WaitedAt
  <2>3. ~(NextEvent(t).to = e.to /\ NextEvent(t).type = "kStartCompleted")
    <3> SUFFICES ASSUME NextEvent(t).to = e.to, NextEvent(t).type = "kStartCompleted" PROVE FALSE
      OBVIOUS
    <3>1. PICK m : m = WaitedAt(t, u, i)
      OBVIOUS
    <3>2. u \in DOMAIN queue /\ m \in 1..Len(queue[u]) /\ queue[u][m] = e
      BY <1>6, <3>1 DEF Waited
    <3>3. NextEvent(t) = queue[t][1] /\ NextEvent(t) \in WorldEvent /\ e \in WorldEvent
      BY <1>2, <3>2 DEF NextEvent
    <3>4. queue[t][1] = queue[u][m]
      BY <3>2, <3>3, OneCompletion
    <3>5. u = t /\ m = 1
      BY <1>2, <3>2, <3>4 DEF StartsOnce
    <3> QED BY <3>1, <3>5 DEF WaitedAt
  <2> QED BY <2>1, <2>2, <2>3 DEF KeepsStarted
<1>7. CASE IsNew(t, at, out, u, i)
  <2>1. /\ e.to \in DOMAIN vmState /\ vmState[e.to] = "kProvisioning"
        /\ vmState'[e.to] \in StartedState
        /\ u = at /\ i = 1 + (IF u = t THEN Len(queue[t]) - 1 ELSE Len(At(queue, u)))
    BY <1>5, <1>7
  <2>2. ASSUME NEW w \in DOMAIN queue', NEW j \in 1..Len(queue'[w]), queue'[w][j] = e
        PROVE  w = u /\ j = i
    <3>1. IsNew(t, at, out, w, j)
      BY <1>3, <1>4, <2>1, <2>2 DEF StartedState
    <3> QED BY <1>5, <2>1, <2>2, <3>1
  <2> QED BY <2>1, <2>2
<1> QED BY <1>3, <1>6, <1>7

(* A step that files nothing.                                              *)
LEMMA QuietOnce ==
  ASSUME StartsOnce, WorldInv, ActorsInv', DOMAIN vmState' = DOMAIN vmState,
         NEW t \in DOMAIN queue, EndOfStep(t, t, << >>, UpdateWorld), KeepsStarted(t)
  PROVE  StartsOnce'
<1>1. t \in Nat /\ t >= t
  BY DEF WorldInv, QueueTypeOK
<1>2. PICK out \in Seq(Filed) : out = << >>
  <2>1. << >> \in Seq(Filed)
    OBVIOUS
  <2> QED BY <2>1
<1>3. FilesAStart(out) /\ EndOfStep(t, t, out, UpdateWorld)
  BY <1>2 DEF FilesAStart
<1> QED BY <1>1, <1>3, OnceKept

(* A step that files the event e, which starts nobody. *)
LEMMA FiledOnce ==
  ASSUME StartsOnce, WorldInv, ActorsInv', DOMAIN vmState' = DOMAIN vmState,
         NEW t \in DOMAIN queue, NEW at \in Nat, at >= t, NEW e \in Filed,
         EndOfStep(t, at, <<e>>, UpdateWorld), KeepsStarted(t),
         e.type = "kStartCompleted" =>
           /\ e.to \in DOMAIN vmState
           /\ vmState[e.to] = "kProvisioning" /\ vmState'[e.to] \in StartedState
  PROVE  StartsOnce'
<1>1. PICK out \in Seq(Filed) : out = <<e>>
  <2>1. <<e>> \in Seq(Filed)
    OBVIOUS
  <2> QED BY <2>1
<1>2. Len(out) = 1 /\ out[1] = e
  BY <1>1
<1>3. FilesAStart(out) /\ EndOfStep(t, at, out, UpdateWorld)
  BY <1>1, <1>2 DEF FilesAStart
<1> QED BY <1>3, OnceKept

(* A transition of a VM that files one event.                              *)
LEMMA TransitionOnce ==
  ASSUME StartsOnce, WorldInv, ActorsInv', NEW t \in DOMAIN queue, NEW v \in DOMAIN vmState,
         NEW type, NEW expected, NEW next, NEW at \in Nat, at >= t, NEW e \in Filed,
         Transition(v, type, expected, next, at, <<e>>, t, UpdateWorld),
         e.type = "kStartCompleted" =>
           e.to = v /\ expected = {"kProvisioning"} /\ next \in StartedState,
         vmState[v] \in expected =>
           vmState[v] \notin StartedState \/ next \in StartedState \/ type = "kStartCompleted"
  PROVE  StartsOnce'
<1>1. NextEvent(t).to = v /\ NextEvent(t).type = type
  BY DEF Transition, VMReceives
<1>2. CASE /\ vmState[v] \in expected
           /\ vmState' = [vmState EXCEPT ![v] = next]
           /\ EndOfStep(t, at, <<e>>, UpdateWorld)
  <2>1. DOMAIN vmState' = DOMAIN vmState /\ KeepsStarted(t)
    BY <1>1, <1>2 DEF KeepsStarted
  <2> QED BY <1>2, <2>1, FiledOnce
<1>3. CASE /\ vmState' = [vmState EXCEPT ![v] = "kFailure"]
           /\ EndOfStep(t, t, << >>, UpdateWorld)
  <2>1. DOMAIN vmState' = DOMAIN vmState /\ KeepsStarted(t)
    BY <1>1, <1>3 DEF KeepsStarted, StartedState
  <2> QED BY <1>3, <2>1, QuietOnce
<1> QED BY <1>2, <1>3 DEF Transition

(* A VM is started from kProvisioning only, which it never returns to.     *)
LEMMA VMOnce ==
  ASSUME StartsOnce, BooksInv, WorldInv, ActorsInv', NEW t \in DOMAIN queue, VMStep(t, UpdateWorld)
  PROVE  StartsOnce'
<1>1. PICK v \in DOMAIN vmState : HandleVMEvent(v, t, UpdateWorld)
  BY DEF VMStep
<1>2. /\ t \in Nat /\ v \in Registered /\ v \in VM /\ t >= t
      /\ owner[v] \in Servers \cup {NoActor}
  BY DEF WorldInv, QueueTypeOK, Registered, ActorsInv, VMTypeOK, ServerTypeOK
<1>3. ASSUME NEW type \in VMEventType, NEW e, e = VMEvent(v, type)
      PROVE  e \in Filed /\ e.type = type /\ e.to = v
  BY <1>2, <1>3, CommandFiled DEF VMEvent
<1>4. ASSUME NEW type \in {"kVMHosted", "kVMDeleted"}, NEW e, e = ReportToStorage(type, v)
      PROVE  e \in Filed /\ e.type = type
  BY <1>4, ReportFiled DEF ReportToStorage, VMStorageEvent
<1>5. ASSUME NEW e, e = UnprovisionEvent(owner[v], v, << >>)
      PROVE  e \in Filed /\ e.type = "kUnprovisionVM"
  BY <1>2, <1>5, UnprovisionFiled DEF UnprovisionEvent
<1>6. CASE Start(v, t, UpdateWorld)
  <2>1. PICK e, at : e = VMEvent(v, "kStartCompleted") /\ at = t + StartDelay
    OBVIOUS
  <2>2. at \in Nat /\ at >= t
    BY <1>2, <2>1, VMAssumption
  <2>3. e \in Filed /\ e.type = "kStartCompleted" /\ e.to = v
    BY <1>3, <2>1 DEF VMEventType
  <2>4. Transition(v, "kStart", {"kProvisioning"}, "kStarting", at, <<e>>, t, UpdateWorld)
    BY <1>6, <2>1 DEF Start
  <2> QED BY <2>2, <2>3, <2>4, TransitionOnce DEF StartedState
<1>7. CASE CompleteStart(v, t, UpdateWorld)
  <2>1. PICK e : e = ReportToStorage("kVMHosted", v)
    OBVIOUS
  <2>2. e \in Filed /\ e.type = "kVMHosted"
    BY <1>4, <2>1
  <2>3. Transition(v, "kStartCompleted", {"kStarting"}, "kRunning", t, <<e>>, t, UpdateWorld)
    BY <1>7, <2>1 DEF CompleteStart
  <2> QED BY <1>2, <2>2, <2>3, TransitionOnce
<1>8. ~Restart(v, t, UpdateWorld)
  <2>1. NextEvent(t).type # "kRestart"
    <3>1. queue[t] \in Seq(Sent) \ {<< >>}
      BY DEF BooksInv, QueueTypeOK
    <3>2. NextEvent(t) \in Sent
      BY <3>1 DEF NextEvent
    <3> QED BY <3>2 DEF Sent
  <2> QED BY <2>1 DEF Restart, Transition
<1>9. CASE CompleteRestart(v, t, UpdateWorld) \/ VMInvalidEvent(v, t, UpdateWorld)
  <2>1. /\ EndOfStep(t, t, << >>, UpdateWorld)
        /\ \/ vmState' = [vmState EXCEPT ![v] = "kFailure"]
           \/ vmState[v] = "kRestarting" /\ \E next : vmState' = [vmState EXCEPT ![v] = next]
    BY <1>9 DEF CompleteRestart, VMInvalidEvent, Transition
  <2>2. DOMAIN vmState' = DOMAIN vmState /\ KeepsStarted(t)
    BY <2>1 DEF KeepsStarted, StartedState
  <2> QED BY <2>1, <2>2, QuietOnce
<1>10. CASE Stop(v, t, UpdateWorld)
  <2>1. PICK e, at : e = VMEvent(v, "kStopCompleted") /\ at = t + StopDelay
    OBVIOUS
  <2>2. at \in Nat /\ at >= t
    BY <1>2, <2>1, VMAssumption
  <2>3. e \in Filed /\ e.type = "kStopCompleted" /\ e.to = v
    BY <1>3, <2>1 DEF VMEventType
  <2>4. Transition(v, "kStop", {"kRunning"}, "kStopping", at, <<e>>, t, UpdateWorld)
    BY <1>10, <2>1 DEF Stop
  <2> QED BY <2>2, <2>3, <2>4, TransitionOnce DEF StartedState
<1>11. CASE CompleteStop(v, t, UpdateWorld)
  <2>1. PICK e : e = UnprovisionEvent(owner[v], v, << >>)
    OBVIOUS
  <2>2. e \in Filed /\ e.type = "kUnprovisionVM"
    BY <1>5, <2>1
  <2>3. Transition(v, "kStopCompleted", {"kStopping"}, "kStopped", t, <<e>>, t, UpdateWorld)
    BY <1>11, <2>1 DEF CompleteStop
  <2> QED BY <1>2, <2>2, <2>3, TransitionOnce DEF StartedState
<1>12. CASE Delete(v, t, UpdateWorld)
  <2>1. PICK e, at : e = VMEvent(v, "kDeleteCompleted") /\ at = t + DeleteDelay
    OBVIOUS
  <2>2. at \in Nat /\ at >= t
    BY <1>2, <2>1, VMAssumption
  <2>3. e \in Filed /\ e.type = "kDeleteCompleted" /\ e.to = v
    BY <1>3, <2>1 DEF VMEventType
  <2>4. Transition(v, "kDelete", {"kRunning", "kStopped", "kFailure"}, "kDeleting", at, <<e>>, t, UpdateWorld)
    BY <1>12, <2>1 DEF Delete
  <2> QED BY <2>2, <2>3, <2>4, TransitionOnce DEF StartedState
<1>13. CASE CompleteDelete(v, t, UpdateWorld)
  <2>1. PICK e : e = IF owner[v] # NoActor THEN UnprovisionEvent(owner[v], v, << >>)
                     ELSE ReportToStorage("kVMDeleted", v)
    OBVIOUS
  <2>2. e \in Filed /\ e.type # "kStartCompleted"
    BY <1>4, <1>5, <2>1
  <2>3. Transition(v, "kDeleteCompleted", {"kDeleting"}, "kDeleting", t, <<e>>, t, UpdateWorld)
    BY <1>13, <2>1 DEF CompleteDelete
  <2> QED BY <1>2, <2>2, <2>3, TransitionOnce DEF StartedState
<1> QED BY <1>1, <1>6, <1>7, <1>8, <1>9, <1>10, <1>11, <1>12, <1>13 DEF HandleVMEvent

(* Nobody else files a completion or touches a VM.                         *)
LEMMA OthersOnce ==
  ASSUME StartsOnce, BooksInv, WorldInv, ActorsInv', NEW t \in DOMAIN queue,
         \/ ResourceStep(t, UpdateWorld)
         \/ ServerStep(t, UpdateWorld)
         \/ StorageStep(t, UpdateWorld)
         \/ NobodyStep(t, UpdateWorld)
  PROVE  StartsOnce'
<1>1. UNCHANGED vmState /\ KeepsStarted(t) /\ t \in Nat /\ t >= t
  BY DEF ResourceStep, ServerStep, StorageStep, NobodyStep, actorVars, vmVars, KeepsStarted,
         WorldInv, QueueTypeOK
<1>2. CASE EndOfStep(t, t, << >>, UpdateWorld)
  BY <1>1, <1>2, QuietOnce
<1>3. CASE ResourceStep(t, UpdateWorld)
  <2>1. PICK r \in Resource : HandleResourceEvent(r, t, UpdateWorld) \/ ResourceInvalidEvent(r, t, UpdateWorld)
    BY <1>3 DEF ResourceStep
  <2>2. PICK S : S = {e \in Filed : e.type \in ResourceEventType}
    OBVIOUS
  <2>3. \A n \in Resource, type \in ResourceEventType : ResourceEvent(n, type) \in S
    BY <2>2, CommandFiled DEF ResourceEvent, Registered
  <2>4. \A command, finished \in ResourceEventType : Cascade(r, command, finished) \in Seq(S)
    BY <2>3, CascadeOf
  <2>5. ASSUME NEW at \in Nat, at >= t, NEW out \in Seq(S), EndOfStep(t, at, out, UpdateWorld)
        PROVE  StartsOnce'
    <3>1. out \in Seq(Filed) /\ \A k \in 1..Len(out) : out[k].type \in ResourceEventType
      BY <2>2
    <3>2. FilesAStart(out)
      BY <3>1 DEF FilesAStart, ResourceEventType, ResourceCommand
    <3> QED BY <1>1, <2>5, <3>1, <3>2, OnceKept
  <2>6. CASE StartBoot(r, t, UpdateWorld)
    <3>1. PICK at, out : at = t + StartupDelay[r] /\ out = Cascade(r, "kBoot", "kBootFinished")
      OBVIOUS
    <3>2. at \in Nat /\ at >= t
      BY <1>1, <3>1, ResourceAssumption
    <3>3. out \in Seq(S)
      BY <2>4, <3>1 DEF ResourceEventType, ResourceCommand
    <3> QED BY <2>5, <2>6, <3>1, <3>2, <3>3 DEF StartBoot
  <2>7. CASE StartShutdown(r, t, UpdateWorld)
    <3>1. PICK at, out : at = t + ShutdownDelay[r] /\ out = Cascade(r, "kShutdown", "kShutdownFinished")
      OBVIOUS
    <3>2. at \in Nat /\ at >= t
      BY <1>1, <3>1, ResourceAssumption
    <3>3. out \in Seq(S)
      BY <2>4, <3>1 DEF ResourceEventType, ResourceCommand
    <3> QED BY <2>5, <2>7, <3>1, <3>2, <3>3 DEF StartShutdown
  <2> QED BY <1>2, <2>1, <2>6, <2>7 DEF HandleResourceEvent, BootIgnored, ShutdownIgnored, StartReboot,
             CompleteBoot, CompleteShutdown, ResourceInvalidEvent, NothingScheduled
<1>4. CASE ServerStep(t, UpdateWorld)
  <2>1. PICK s \in Servers, v \in VM : ProvisionVM(s, v, t, UpdateWorld) \/ UnprovisionVM(s, v, t, UpdateWorld)
    BY <1>4 DEF ServerStep
  <2>2. NextEvent(t) \in PlaceableIn(Placed) /\ NextEvent(t) \in Filed
    BY NextIsPlaceable DEF BooksInv
  <2>3. ~UnprovisionVM(s, v, t, UpdateWorld)
    BY <2>2, ServerAssumption, WorldAssumption DEF UnprovisionVM, PlaceableIn
  <2>4. NextEvent(t) = ServerEvent(s, "kProvisionVM", v)
    BY <2>1, <2>3 DEF ProvisionVM
  <2>5. v \in Complete
    BY <2>2, <2>4 DEF Filed, ServerEvent
  <2>6. PICK e : e = StartEvent(v, s)
    OBVIOUS
  <2>7. e \in Filed /\ e.type = "kStart"
    BY <2>5, <2>6, PlacementFiled DEF StartEvent
  <2>8. CASE EndOfStep(t, t, <<e>>, UpdateWorld)
    BY <1>1, <2>7, <2>8, FiledOnce
  <2> QED BY <1>2, <2>1, <2>3, <2>6, <2>8 DEF ProvisionVM
<1>5. CASE StorageStep(t, UpdateWorld)
  BY <1>2, <1>5 DEF StorageStep, InFailedState, StorageInvalidEvent, HandleVMStorageEvent, AddVM,
     MoveToPending, MoveToProvisioning, MoveToHosted, MoveToStopped, DeleteVM
<1>6. CASE NobodyStep(t, UpdateWorld)
  BY <1>2, <1>6 DEF NobodyStep
<1> QED BY <1>3, <1>4, <1>5, <1>6

(* Both parts of the invariant together. *)
PlacingInv == BooksInv /\ StartsOnce

(* It is inductive.                                                        *)
LEMMA PlacingInit == WorldInit => PlacingInv
<1> SUFFICES ASSUME WorldInit PROVE StartsOnce
  BY BooksInit DEF PlacingInv
<1>1. DOMAIN queue = {}
  BY DEF WorldInit, EvInit
<1> QED BY <1>1 DEF StartsOnce

LEMMA PlacingNext == PlacingInv /\ [WorldNext]_worldVars => PlacingInv'
<1> SUFFICES ASSUME PlacingInv, [WorldNext]_worldVars PROVE StartsOnce'
  BY BooksNext DEF PlacingInv
<1>1. StartsOnce /\ BooksInv /\ WorldInv /\ PlacedInv
  BY DEF PlacingInv, BooksInv, PlacedInv
<1>2. BooksInv' /\ ActorsInv'
  BY BooksNext DEF PlacingInv, BooksInv, PlacedInv, WorldInv
<1>3. CASE ClientCall
  <2>1. ~simulating'
    BY <1>3 DEF ClientCall, DoResourceAction, DoProvisionVM, DoVMAction, CreateVM, CreateVMFails,
                Submit, Accept, Refuse
  <2>2. \A t \in DOMAIN queue' : \A i \in 1..Len(queue'[t]) : queue'[t][i].type \in ClientType
    BY <1>2, <2>1 DEF BooksInv, Idle
  <2> QED BY <2>2 DEF StartsOnce, ClientType, ResourceCommand
<1>4. CASE SimulateNextStep(UpdateWorld)
  BY <1>1, <1>2, <1>4, VMOnce, OthersOnce DEF SimulateNextStep
<1>5. CASE UNCHANGED <<queue, vmState>>
  BY <1>1, <1>5 DEF StartsOnce
<1> QED BY <1>1, <1>3, <1>4, <1>5 DEF WorldNext, worldVars, SimulateAll, SimulateAllReturns, actorVars, vmVars

(* What the first event can do to a VM when it starts one. *)
LEMMA PlacementFailsNobody ==
  ASSUME PlacingInv, [WorldNext]_worldVars, NEW t \in DOMAIN queue, NEW v \in DOMAIN vmState,
         storageState = "kOk", IsNext(t), NextEvent(t).type \in {"kStart", "kStartCompleted"},
         vmState[v] \notin {"kDeleting", "kFailure"}
  PROVE  vmState'[v] # "kFailure"
<1>1. StartsOnce /\ BooksInv /\ WorldInv /\ QueueTypeOK(Sent) /\ UnderWay
  BY DEF PlacingInv, BooksInv, PlacedInv
<1>2. CASE vmState'[v] = vmState[v]
  BY <1>2
<1>3. ASSUME NEW u \in DOMAIN queue, VMStep(u, UpdateWorld) PROVE vmState'[v] # "kFailure"
  <2>1. PICK w \in DOMAIN vmState : HandleVMEvent(w, u, UpdateWorld)
    BY <1>3 DEF VMStep
  <2>2. IsNext(u) /\ NextEvent(u).to = w
    BY <2>1 DEF HandleVMEvent, Start, CompleteStart, Restart, CompleteRestart, Stop, CompleteStop,
                Delete, CompleteDelete, VMInvalidEvent, Transition, VMReceives
  <2>3. u = t
    BY <1>1, <2>2 DEF IsNext, QueueTypeOK
  <2>4. PICK e : e = NextEvent(t)
    OBVIOUS
  <2>5. CASE e.type = "kStart"
    <3>1. Start(w, t, UpdateWorld)
      BY <2>1, <2>3, <2>4, <2>5 DEF HandleVMEvent, CompleteStart, Restart, CompleteRestart, Stop,
         CompleteStop, Delete, CompleteDelete, VMInvalidEvent, Transition, VMEventType
    <3>2. Agrees(e)
      BY <1>1, <2>4, <2>5, HeadAgrees DEF Staged, StagedType
    <3>3. vmState[w] \in {"kProvisioning", "kDeleting", "kFailure"}
      BY <2>2, <2>3, <2>4, <2>5, <3>2 DEF Agrees, Subject
    <3>4. \/ vmState[w] = "kProvisioning" /\ vmState' = [vmState EXCEPT ![w] = "kStarting"]
          \/ vmState[w] # "kProvisioning" /\ vmState' = [vmState EXCEPT ![w] = "kFailure"]
      BY <3>1 DEF Start, Transition
    <3> QED BY <3>3, <3>4
  <2>6. CASE e.type = "kStartCompleted"
    <3>1. CompleteStart(w, t, UpdateWorld)
      BY <2>1, <2>3, <2>4, <2>6 DEF HandleVMEvent, Start, Restart, CompleteRestart, Stop,
         CompleteStop, Delete, CompleteDelete, VMInvalidEvent, Transition, VMEventType
    <3>2. vmState[w] \in StartedState
      <4>1. queue[t] \in Seq(Sent) \ {<< >>}
        BY <1>1 DEF QueueTypeOK
      <4>2. 1 \in 1..Len(queue[t]) /\ queue[t][1] = e
        BY <2>4, <4>1 DEF NextEvent
      <4>3. vmState[queue[t][1].to] \in StartedState
        BY <1>1, <2>6, <4>2 DEF StartsOnce
      <4> QED BY <2>2, <2>3, <2>4, <4>2, <4>3
    <3>3. \/ vmState[w] = "kStarting" /\ vmState' = [vmState EXCEPT ![w] = "kRunning"]
          \/ vmState[w] # "kStarting" /\ vmState' = [vmState EXCEPT ![w] = "kFailure"]
      BY <3>1 DEF CompleteStart, Transition
    <3> QED BY <3>2, <3>3 DEF StartedState
  <2> QED BY <2>4, <2>5, <2>6
<1>4. CASE ClientCall
  <2>1. VMsAndEventsKept
    BY <1>1, <1>4, CallKeeps
  <2> QED BY <1>2, <2>1 DEF VMsAndEventsKept
<1>5. CASE SimulateNextStep(UpdateWorld)
  <2>1. PICK u \in DOMAIN queue : VMStep(u, UpdateWorld) \/ UNCHANGED vmState
    BY <1>5 DEF SimulateNextStep, ResourceStep, ServerStep, StorageStep, NobodyStep, actorVars, vmVars
  <2> QED BY <1>2, <1>3, <2>1
<1>6. CASE UNCHANGED vmState
  BY <1>2, <1>6
<1> QED BY <1>4, <1>5, <1>6 DEF WorldNext, worldVars, actorVars, vmVars

(* While the storage works, the events that start a VM never fail it       *)
(* (vm.cpp FAIL_ON_STATE_MISMATCH), unless it has failed before and may    *)
(* be on its way out.                                                      *)
THEOREM PlacementFailsNoVM == WorldSafetySpec => PlacementNeverFailsVM
<1>1. PlacingInv /\ [WorldNext]_worldVars =>
        [\A t \in DOMAIN queue, v \in DOMAIN vmState :
           /\ storageState = "kOk"
           /\ IsNext(t)
           /\ NextEvent(t).type \in {"kStart", "kStartCompleted"}
           /\ vmState[v] \notin {"kDeleting", "kFailure"}
           => vmState'[v] # "kFailure"]_worldVars
  BY PlacementFailsNobody
<1> QED BY <1>1, PlacingInit, PlacingNext, PTL DEF WorldSafetySpec, PlacementNeverFailsVM

-----------------------------------------------------------------------------
(* The report that v was created waits. *)
Announced(v) == Queued(VMStorageEvent("kVMCreated", v))

(* Only World::CreateVM reports a new VM: the handlers file other events,  *)
(* and the scheduler does.                                                 *)
Others == {e \in Filed : e.type # "kVMCreated"}

FilesOthers(t) ==
  \E at \in Nat : \E out \in Seq(Others) : at >= t /\ EndOfStep(t, at, out, UpdateWorld)

LEMMA FilesOthersOf ==
  ASSUME NEW t, NEW at \in Nat, at >= t, NEW out \in Seq(Others), EndOfStep(t, at, out, UpdateWorld)
  PROVE  FilesOthers(t)
BY DEF FilesOthers

LEMMA FilesNothing ==
  ASSUME WorldInv, NEW t \in DOMAIN queue, EndOfStep(t, t, << >>, UpdateWorld)
  PROVE  FilesOthers(t)
<1>1. t \in Nat /\ t >= t /\ << >> \in Seq(Others)
  BY DEF WorldInv, QueueTypeOK
<1> QED BY <1>1 DEF FilesOthers

LEMMA CommandOther ==
  ASSUME WorldInv, NEW n \in Registered, NEW type \in ResourceEventType \cup VMEventType
  PROVE  [to |-> n, type |-> type] \in Others
<1>1. type # "kVMCreated"
  BY DEF ResourceEventType, ResourceCommand, VMEventType
<1> QED BY <1>1, CommandFiled DEF Others

LEMMA ResourceFiles ==
  ASSUME WorldInv, NEW t \in DOMAIN queue, ResourceStep(t, UpdateWorld)
  PROVE  FilesOthers(t)
<1>1. PICK r \in Resource : HandleResourceEvent(r, t, UpdateWorld) \/ ResourceInvalidEvent(r, t, UpdateWorld)
  BY DEF ResourceStep
<1>2. t \in Nat
  BY DEF WorldInv, QueueTypeOK
<1>3. ASSUME NEW command \in ResourceEventType, NEW finished \in ResourceEventType
      PROVE  Cascade(r, command, finished) \in Seq(Others)
  <2>1. PICK S : S = Others
    OBVIOUS
  <2>2. \A n \in Resource, type \in ResourceEventType : ResourceEvent(n, type) \in S
    BY <2>1, CommandOther DEF ResourceEvent, Registered
  <2> QED BY <2>1, <2>2, CascadeOf
<1>4. CASE StartBoot(r, t, UpdateWorld)
  <2>1. t + StartupDelay[r] \in Nat /\ t + StartupDelay[r] >= t
    BY <1>2, ResourceAssumption
  <2>2. Cascade(r, "kBoot", "kBootFinished") \in Seq(Others)
    BY <1>3 DEF ResourceEventType, ResourceCommand
  <2> QED BY <1>4, <2>1, <2>2, FilesOthersOf DEF StartBoot
<1>5. CASE StartShutdown(r, t, UpdateWorld)
  <2>1. t + ShutdownDelay[r] \in Nat /\ t + ShutdownDelay[r] >= t
    BY <1>2, ResourceAssumption
  <2>2. Cascade(r, "kShutdown", "kShutdownFinished") \in Seq(Others)
    BY <1>3 DEF ResourceEventType, ResourceCommand
  <2> QED BY <1>5, <2>1, <2>2, FilesOthersOf DEF StartShutdown
<1>6. CASE EndOfStep(t, t, << >>, UpdateWorld)
  BY <1>6, FilesNothing
<1> QED BY <1>1, <1>4, <1>5, <1>6 DEF HandleResourceEvent, ResourceInvalidEvent, BootIgnored,
        ShutdownIgnored, StartReboot, CompleteBoot, CompleteShutdown, NothingScheduled

LEMMA ServerFiles ==
  ASSUME PlacedInv, NEW t \in DOMAIN queue, ServerStep(t, UpdateWorld)
  PROVE  /\ FilesOthers(t) /\ IsNext(t)
         /\ NextEvent(t).type = "kProvisionVM"
         /\ \/ UNCHANGED hosted
            \/ hosted' = [hosted EXCEPT ![FirstServer] = @ \cup {NextEvent(t).vm}]
<1>1. PICK s \in Servers, v \in VM : ProvisionVM(s, v, t, UpdateWorld) \/ UnprovisionVM(s, v, t, UpdateWorld)
  BY DEF ServerStep
<1>2. NextEvent(t) \in PlaceableIn(Placed) /\ NextEvent(t) \in Filed /\ WorldInv /\ t \in Nat /\ t >= t
  BY NextIsPlaceable DEF PlacedInv
<1>3. ~UnprovisionVM(s, v, t, UpdateWorld)
  BY <1>2, ServerAssumption, WorldAssumption DEF UnprovisionVM, PlaceableIn
<1>4. ProvisionVM(s, v, t, UpdateWorld)
  BY <1>1, <1>3
<1>5. NextEvent(t).type = "kProvisionVM" /\ NextEvent(t).to = s /\ NextEvent(t).vm = v /\ IsNext(t)
  BY <1>4 DEF ProvisionVM, ServerEvent
<1>6. s = FirstServer /\ v \in Complete
  BY <1>2, <1>5 DEF PlaceableIn, Filed
<1>7. CASE hosted' = [hosted EXCEPT ![s] = @ \cup {v}] /\ EndOfStep(t, t, <<StartEvent(v, s)>>, UpdateWorld)
  <2>1. StartEvent(v, s) \in Others
    BY <1>2, <1>6, PlacementFiled DEF Others, StartEvent
  <2>2. <<StartEvent(v, s)>> \in Seq(Others)
    BY <2>1
  <2>3. FilesOthers(t)
    BY <1>2, <1>7, <2>2, FilesOthersOf
  <2> QED BY <1>5, <1>6, <1>7, <2>3
<1>8. CASE UNCHANGED hosted /\ EndOfStep(t, t, << >>, UpdateWorld)
  BY <1>2, <1>5, <1>8, FilesNothing
<1> QED BY <1>4, <1>7, <1>8 DEF ProvisionVM

LEMMA TransitionFiles ==
  ASSUME WorldInv, NEW t \in DOMAIN queue, NEW v, NEW type, NEW expected, NEW next,
         NEW STATE at, at \in Nat, at >= t, NEW STATE out, out \in Seq(Others),
         Transition(v, type, expected, next, at, out, t, UpdateWorld)
  PROVE  FilesOthers(t)
BY FilesNothing, FilesOthersOf DEF Transition

LEMMA VMFiles ==
  ASSUME WorldInv, NEW t \in DOMAIN queue, VMStep(t, UpdateWorld)
  PROVE  FilesOthers(t)
<1>1. PICK v \in DOMAIN vmState : HandleVMEvent(v, t, UpdateWorld)
  BY DEF VMStep
<1>2. t \in Nat /\ t >= t /\ << >> \in Seq(Others)
  BY DEF WorldInv, QueueTypeOK
<1>3. /\ t + StartDelay \in Nat /\ t + StartDelay >= t
      /\ t + RestartDelay \in Nat /\ t + RestartDelay >= t
      /\ t + StopDelay \in Nat /\ t + StopDelay >= t
      /\ t + DeleteDelay \in Nat /\ t + DeleteDelay >= t
  BY <1>2, VMAssumption
<1>4. \A type \in VMEventType : <<VMEvent(v, type)>> \in Seq(Others)
  <2>1. \A type \in VMEventType : VMEvent(v, type) \in Others
    BY CommandOther DEF VMEvent, Registered
  <2> QED BY <2>1
<1>5. /\ <<ReportToStorage("kVMHosted", v)>> \in Seq(Others)
      /\ <<UnprovisionEvent(owner[v], v, << >>)>> \in Seq(Others)
      /\ <<IF owner[v] # NoActor THEN UnprovisionEvent(owner[v], v, << >>)
           ELSE ReportToStorage("kVMDeleted", v)>> \in Seq(Others)
  <2>1. v \in VM /\ owner[v] \in Servers \cup {NoActor}
    BY DEF WorldInv, ActorsInv, VMTypeOK, ServerTypeOK
  <2>2. UnprovisionEvent(owner[v], v, << >>) \in Others
    BY <2>1, UnprovisionFiled DEF Others, UnprovisionEvent
  <2>3. ASSUME NEW type \in {"kVMHosted", "kVMDeleted"} PROVE ReportToStorage(type, v) \in Others
    BY ReportFiled DEF Others, ReportToStorage, VMStorageEvent
  <2> QED BY <2>2, <2>3
<1>6. CASE Start(v, t, UpdateWorld)
  BY <1>3, <1>4, <1>6, TransitionFiles DEF Start, VMEventType
<1>7. CASE CompleteStart(v, t, UpdateWorld)
  BY <1>2, <1>5, <1>7, TransitionFiles DEF CompleteStart
<1>8. CASE Restart(v, t, UpdateWorld)
  BY <1>3, <1>4, <1>8, TransitionFiles DEF Restart, VMEventType
<1>9. CASE CompleteRestart(v, t, UpdateWorld)
  BY <1>2, <1>9, TransitionFiles DEF CompleteRestart
<1>10. CASE Stop(v, t, UpdateWorld)
  BY <1>3, <1>4, <1>10, TransitionFiles DEF Stop, VMEventType
<1>11. CASE CompleteStop(v, t, UpdateWorld)
  BY <1>2, <1>5, <1>11, TransitionFiles DEF CompleteStop
<1>12. CASE Delete(v, t, UpdateWorld)
  BY <1>3, <1>4, <1>12, TransitionFiles DEF Delete, VMEventType
<1>13. CASE CompleteDelete(v, t, UpdateWorld)
  BY <1>2, <1>5, <1>13, TransitionFiles DEF CompleteDelete
<1>14. CASE VMInvalidEvent(v, t, UpdateWorld)
  BY <1>14, FilesNothing DEF VMInvalidEvent
<1> QED BY <1>1, <1>6, <1>7, <1>8, <1>9, <1>10, <1>11, <1>12, <1>13, <1>14 DEF HandleVMEvent

(* Every step of the loop files no such report.                            *)
LEMMA LoopFiles ==
  ASSUME PlacedInv, NEW t \in DOMAIN queue,
         \/ ResourceStep(t, UpdateWorld)
         \/ ServerStep(t, UpdateWorld)
         \/ VMStep(t, UpdateWorld)
         \/ StorageStep(t, UpdateWorld)
         \/ NobodyStep(t, UpdateWorld)
  PROVE  FilesOthers(t)
<1>1. WorldInv
  BY DEF PlacedInv
<1>2. CASE StorageStep(t, UpdateWorld)
  <2>1. EndOfStep(t, t, << >>, UpdateWorld)
    BY <1>2 DEF StorageStep, InFailedState, StorageInvalidEvent, HandleVMStorageEvent, AddVM,
         MoveToPending, MoveToProvisioning, MoveToHosted, MoveToStopped, DeleteVM
  <2> QED BY <1>1, <2>1, FilesNothing
<1>3. CASE NobodyStep(t, UpdateWorld)
  BY <1>1, <1>3, FilesNothing DEF NobodyStep
<1> QED BY <1>1, <1>2, <1>3, ResourceFiles, ServerFiles, VMFiles

(* So the reports that wait are those that waited, less the one that is    *)
(* handled.                                                                *)
LEMMA ReportsStay ==
  ASSUME WorldInv, WorldInv', NEW t \in DOMAIN queue, FilesOthers(t), NEW v
  PROVE  /\ Announced(v)' => Announced(v)
         /\ Announced(v) /\ NextEvent(t) # VMStorageEvent("kVMCreated", v) => Announced(v)'
<1>1. PICK S : S = Filed
  OBVIOUS
<1>2. QueueTypeOK(S)
  BY <1>1 DEF WorldInv
<1>3. PICK at \in Nat : \E out \in Seq(Others) : at >= t /\ EndOfStep(t, at, out, UpdateWorld)
  BY DEF FilesOthers
<1>4. PICK out \in Seq(Others) : at >= t /\ EndOfStep(t, at, out, UpdateWorld)
  BY <1>3
<1>5. out \in Seq(S) /\ \A k \in 1..Len(out) : out[k].type # "kVMCreated"
  <2>1. Others \subseteq S
    BY <1>1 DEF Others
  <2>2. \A k \in 1..Len(out) : out[k] \in Others
    BY <1>4
  <2> QED BY <1>4, <2>1, <2>2 DEF Others
<1>6. PICK e : e = VMStorageEvent("kVMCreated", v)
  OBVIOUS
<1>7. e.type = "kVMCreated"
  BY <1>6 DEF VMStorageEvent
<1>8. ASSUME Queued(e), NextEvent(t) # e PROVE Queued(e)'
  BY <1>2, <1>4, <1>5, <1>8, StepKeeps
<1>9. ASSUME Queued(e)' PROVE Queued(e)
  <2>1. PICK u \in DOMAIN queue' : \E i \in 1..Len(queue'[u]) : queue'[u][i] = e
    BY <1>9 DEF Queued, QueuedAt
  <2>2. PICK i \in 1..Len(queue'[u]) : queue'[u][i] = e
    BY <2>1
  <2>3. \/ WasFiled(t, u, i) \/ HasMovedUp(t, u, i)
        \/ IsNew(t, at, out, u, i) \/ IsUpdate(t, UpdateWorld, u)
    BY <1>2, <1>4, <1>5, <2>2, StepSources
  <2>4. ~IsNew(t, at, out, u, i)
    BY <1>5, <1>7, <2>2 DEF IsNew
  <2>5. ~IsUpdate(t, UpdateWorld, u)
    <3> SUFFICES ASSUME IsUpdate(t, UpdateWorld, u) PROVE FALSE
      OBVIOUS
    <3>1. PICK c : c = queue'[t]
      OBVIOUS
    <3>2. c \in UpdateWorld /\ u = t
      BY <3>1 DEF IsUpdate
    <3>3. IsPlan(c)
      BY <3>2, PlanOf DEF WorldInv
    <3>4. \E w \in Pending' :
            e \in {VMStorageEvent("kVMScheduled", w), ServerEvent(FirstServer, "kProvisionVM", w)}
      BY <2>2, <3>1, <3>2, <3>3 DEF IsPlan, PlannedFor
    <3> QED BY <1>7, <3>4 DEF VMStorageEvent, ServerEvent
  <2> QED BY <2>2, <2>3, <2>4, <2>5 DEF WasFiled, HasMovedUp, Queued, QueuedAt
<1>10. \A f : f = VMStorageEvent("kVMCreated", v) => (Queued(f)' <=> Announced(v)')
  BY DEF Announced, Queued, QueuedAt
<1> QED BY <1>6, <1>8, <1>9, <1>10 DEF Announced

-----------------------------------------------------------------------------
(* The stages all VMs are at, as the ledger has them.                      *)
StagesOnBooks == [v \in VM |-> StageOnBooks(v)]

LEMMA SameStages ==
  ASSUME UNCHANGED vms, DOMAIN vmState' = DOMAIN vmState,
         \A v \in VM \ DOMAIN vms : Announced(v)' <=> Announced(v)
  PROVE  StagesOnBooks' = StagesOnBooks
<1>1. \A v \in VM : StageOnBooks(v)' = StageOnBooks(v)
  BY DEF StageOnBooks, Announced
<1> QED BY <1>1 DEF StagesOnBooks

LEMMA OneStage ==
  ASSUME NEW v \in VM, NEW s, StageOnBooks(v)' = s,
         \A w \in VM \ {v} : StageOnBooks(w)' = StageOnBooks(w)
  PROVE  StagesOnBooks' = [StagesOnBooks EXCEPT ![v] = s]
BY DEF StagesOnBooks

(* What a step means to the ledger.                                        *)
LedgerStep == [Promise!LedgerNext]_(Promise!ledgerVars)

LEMMA LedgerStutters ==
  ASSUME StagesOnBooks' = StagesOnBooks, hosted' = hosted, storageState' = storageState
  PROVE  LedgerStep
BY DEF LedgerStep, Promise!ledgerVars, StagesOnBooks

(* The handlers of the resources and of the VMs, and a step without an     *)
(* addressee, are nothing to the ledger.                                   *)
LEMMA QuietLedger ==
  ASSUME BooksInv, WorldInv', NEW t \in DOMAIN queue,
         \/ ResourceStep(t, UpdateWorld)
         \/ VMStep(t, UpdateWorld)
         \/ NobodyStep(t, UpdateWorld)
  PROVE  LedgerStep
<1>1. PlacedInv /\ WorldInv
  BY DEF BooksInv, PlacedInv
<1>2. UNCHANGED <<vms, storageState, hosted>> /\ DOMAIN vmState' = DOMAIN vmState
  <2>1. CASE VMStep(t, UpdateWorld)
    BY <1>1, <2>1, VMKeeps DEF VMStep, storageVars, serverVars
  <2> QED BY <2>1 DEF ResourceStep, NobodyStep, actorVars, storageVars, vmVars, serverVars
<1>3. NextEvent(t).to # Storage
  <2>1. CASE ResourceStep(t, UpdateWorld)
    <3>1. NextEvent(t).to \in Resource
      BY <2>1 DEF ResourceStep, HandleResourceEvent, ResourceInvalidEvent, StartBoot, BootIgnored,
           StartShutdown, ShutdownIgnored, StartReboot, CompleteBoot, CompleteShutdown, Receives, ResourceEvent
    <3> QED BY <3>1, WorldAssumption
  <2>2. CASE VMStep(t, UpdateWorld)
    <3>1. NextEvent(t).to \in DOMAIN vmState
      BY <2>2 DEF VMStep, HandleVMEvent, Start, CompleteStart, Restart, CompleteRestart, Stop,
           CompleteStop, Delete, CompleteDelete, VMInvalidEvent, Transition, VMReceives
    <3> QED BY <1>1, <3>1, WorldAssumption DEF WorldInv, ActorsInv, VMTypeOK
  <2>3. CASE NobodyStep(t, UpdateWorld)
    BY <2>3, WorldAssumption DEF NobodyStep
  <2> QED BY <2>1, <2>2, <2>3
<1>4. \A v : NextEvent(t) # VMStorageEvent("kVMCreated", v)
  BY <1>3 DEF VMStorageEvent
<1>5. FilesOthers(t)
  BY <1>1, LoopFiles
<1>6. \A v : Announced(v)' <=> Announced(v)
  BY <1>1, <1>4, <1>5, ReportsStay
<1> QED BY <1>2, <1>6, SameStages, LedgerStutters

(* The server takes in a VM the books are placing, or none.                *)
LEMMA ServerLedger ==
  ASSUME BooksInv, WorldInv', NEW t \in DOMAIN queue, ServerStep(t, UpdateWorld)
  PROVE  LedgerStep
<1>1. PlacedInv /\ WorldInv /\ QueueTypeOK(Sent)
  BY DEF BooksInv, PlacedInv
<1>2. /\ FilesOthers(t) /\ IsNext(t)
      /\ NextEvent(t).type = "kProvisionVM"
      /\ \/ UNCHANGED hosted
         \/ hosted' = [hosted EXCEPT ![FirstServer] = @ \cup {NextEvent(t).vm}]
  BY <1>1, ServerFiles
<1>3. PICK e : e = NextEvent(t)
  OBVIOUS
<1>4. PICK v : v = e.vm
  OBVIOUS
<1>5. v \in VM
  BY <1>1, <1>2, <1>3, <1>4, NextIsPlaceable DEF Filed, Complete, WorldInv, ActorsInv, VMTypeOK
<1>6. UNCHANGED <<vms, storageState, vmState>>
  BY DEF ServerStep, storageVars, vmVars
<1>7. \A w : Announced(w)' <=> Announced(w)
  <2>1. \A w : NextEvent(t) # VMStorageEvent("kVMCreated", w)
    BY <1>2 DEF VMStorageEvent
  <2> QED BY <1>1, <1>2, <2>1, ReportsStay
<1>8. StagesOnBooks' = StagesOnBooks
  BY <1>6, <1>7, SameStages
<1>9. CASE UNCHANGED hosted
  BY <1>6, <1>8, <1>9, LedgerStutters
<1>10. CASE hosted' = [hosted EXCEPT ![FirstServer] = @ \cup {NextEvent(t).vm}]
  <2>1. hosted[FirstServer]' = hosted[FirstServer] \cup {v}
    BY <1>1, <1>3, <1>4, <1>10, FirstServerAssumption DEF WorldInv, ActorsInv, ServerTypeOK
  <2>2. ASSUME storageState = "kOk" PROVE StagesOnBooks[v] = "kProvisioning"
    <3>1. UnderWay /\ Staged(e) /\ Subject(e) = v
      BY <1>2, <1>3, <1>4, <2>2 DEF BooksInv, Staged, StagedType, Subject
    <3>2. Agrees(e)
      BY <1>1, <1>3, <3>1, HeadAgrees
    <3>3. v \in DOMAIN vms /\ vms[v] \in {"kPending", "kProvisioning"} /\ v \in DOMAIN vmState
      BY <1>1, <1>2, <1>3, <3>1, <3>2 DEF Agrees, WorldInv, ActorsInv, Complete
    <3>4. vms[v] # "kPending"
      <4> SUFFICES ASSUME vms[v] = "kPending" PROVE FALSE
        OBVIOUS
      <4>1. PICK f : f = VMStorageEvent("kVMScheduled", v)
        OBVIOUS
      <4>2. Queued(f) /\ Staged(f) /\ Subject(f) = v /\ f.type = "kVMScheduled"
        BY <1>2, <1>3, <3>1, <3>2, <4>1 DEF Agrees, VMStorageEvent, Staged, StagedType, Subject
      <4>3. f \in Behind(t)
        BY <1>1, <1>2, <1>3, <3>1, <4>2, StagedIsNextOrBehind
      <4>4. Stage(e.type) < Stage(f.type)
        BY <1>1, <1>3, <3>1, <4>2, <4>3, BehindHead
      <4> QED BY <1>2, <1>3, <4>2, <4>4, StageOf
    <3> QED BY <1>5, <3>3, <3>4 DEF StagesOnBooks, StageOnBooks
  <2>3. Promise!List(v)
    BY <1>6, <1>8, <2>1, <2>2 DEF Promise!List, StagesOnBooks
  <2> QED BY <1>5, <2>3 DEF LedgerStep, Promise!LedgerNext
<1> QED BY <1>2, <1>9, <1>10

(* The reports of two VMs are two. *)
LEMMA ReportsDiffer ==
  ASSUME NEW v, NEW w, v # w
  PROVE  VMStorageEvent("kVMCreated", v) # VMStorageEvent("kVMCreated", w)
<1>1. PICK e, f : e = VMStorageEvent("kVMCreated", v) /\ f = VMStorageEvent("kVMCreated", w)
  OBVIOUS
<1>2. e.vm = v /\ f.vm = w
  BY <1>1 DEF VMStorageEvent
<1> QED BY <1>1, <1>2

(* The storage's own steps.  First what they share: nobody else changes,   *)
(* and only the report that is handled may be gone from the queue.         *)
StorageLedgerFrame(t) ==
  /\ UNCHANGED <<hosted, vmState>>
  /\ \A v : Announced(v)' => Announced(v)
  /\ \A v : NextEvent(t) # VMStorageEvent("kVMCreated", v) => (Announced(v)' <=> Announced(v))

LEMMA StorageLedgerFrameOf ==
  ASSUME BooksInv, WorldInv', NEW t \in DOMAIN queue, StorageStep(t, UpdateWorld)
  PROVE  StorageLedgerFrame(t)
<1>1. PlacedInv /\ WorldInv
  BY DEF BooksInv, PlacedInv
<1>2. FilesOthers(t)
  BY <1>1, LoopFiles
<1>3. UNCHANGED <<hosted, vmState>>
  BY DEF StorageStep, serverVars, vmVars
<1> QED BY <1>1, <1>2, <1>3, ReportsStay DEF StorageLedgerFrame

(* The books, and the reports of VMs not on them, are kept but for v's.    *)
LEMMA OneStageOnBooks ==
  ASSUME NEW v \in VM, NEW s, UNCHANGED vmState, StageOnBooks(v)' = s,
         \A w \in VM \ {v} : /\ w \in DOMAIN vms' <=> w \in DOMAIN vms
                             /\ w \in DOMAIN vms => vms'[w] = vms[w]
                             /\ Announced(w)' <=> Announced(w)
  PROVE  StagesOnBooks' = [StagesOnBooks EXCEPT ![v] = s]
<1>1. \A w \in VM \ {v} : StageOnBooks(w)' = StageOnBooks(w)
  BY DEF StageOnBooks, Announced
<1> QED BY <1>1, OneStage

(* A VM on the books of a working storage that moves to its next stage.    *)
LEMMA MovesOn ==
  ASSUME NEW t, StorageLedgerFrame(t), NEW v \in VM, NEW s,
         \A w : NextEvent(t) # VMStorageEvent("kVMCreated", w),
         v \in DOMAIN vms, v \in DOMAIN vmState, storageState = "kOk", UNCHANGED storageState,
         vms' = WithStatus(v, s),
         \/ vms[v] = "kCreated" /\ s = "kPending"
         \/ vms[v] = "kPending" /\ s = "kProvisioning"
         \/ vms[v] = "kProvisioning" /\ s = "kHostedVM" /\ v \in hosted[FirstServer]
  PROVE  LedgerStep
<1>1. UNCHANGED <<hosted, vmState>> /\ \A w : Announced(w)' <=> Announced(w)
  BY DEF StorageLedgerFrame
<1>2. StagesOnBooks[v] = vms[v]
  BY DEF StagesOnBooks, StageOnBooks
<1>3. StageOnBooks(v)' = s
  BY <1>1 DEF StageOnBooks, WithStatus
<1>4. StagesOnBooks' = [StagesOnBooks EXCEPT ![v] = s]
  BY <1>1, <1>3, OneStageOnBooks DEF WithStatus
<1>5. Promise!Advance(v)
  BY <1>1, <1>2, <1>4 DEF Promise!Advance, Promise!Becomes, StagesOnBooks
<1> QED BY <1>5 DEF LedgerStep, Promise!LedgerNext

(* The storage fails, and its books stay. *)
LEMMA FailsInLedger ==
  ASSUME NEW t, StorageLedgerFrame(t), \A w : NextEvent(t) # VMStorageEvent("kVMCreated", w),
         UNCHANGED vms, storageState = "kOk", storageState' = "kFailure"
  PROVE  LedgerStep
<1>1. StagesOnBooks' = StagesOnBooks /\ UNCHANGED hosted
  BY SameStages DEF StorageLedgerFrame
<1>2. Promise!Fail
  BY <1>1 DEF Promise!Fail, StagesOnBooks
<1> QED BY <1>2 DEF LedgerStep, Promise!LedgerNext

(* A storage that has failed does not take notice of a new VM. *)
LEMMA MissesInLedger ==
  ASSUME BooksInv, NEW t \in DOMAIN queue, StorageLedgerFrame(t), InFailedState(t, UpdateWorld)
  PROVE  LedgerStep
<1>1. UNCHANGED <<vms, hosted, storageState, vmState>> /\ storageState = "kFailure"
  BY DEF InFailedState, storageVars, StorageLedgerFrame
<1>2. CASE \A w \in VM \ DOMAIN vms : Announced(w)' <=> Announced(w)
  BY <1>1, <1>2, SameStages, LedgerStutters
<1>3. CASE \E w \in VM \ DOMAIN vms : ~(Announced(w)' <=> Announced(w))
  <2>1. PICK v \in VM \ DOMAIN vms : ~(Announced(v)' <=> Announced(v))
    BY <1>3
  <2>2. NextEvent(t) = VMStorageEvent("kVMCreated", v) /\ Announced(v) /\ ~Announced(v)'
    BY <2>1 DEF StorageLedgerFrame
  <2>3. \A w \in VM \ {v} : Announced(w)' <=> Announced(w)
    BY <2>2, ReportsDiffer DEF StorageLedgerFrame
  <2>4. v \in DOMAIN vmState
    <3>1. PlacedInv
      BY DEF BooksInv
    <3>2. PICK e : e = NextEvent(t)
      OBVIOUS
    <3>3. e \in Filed /\ e.type = "kVMCreated" /\ e.vm = v
      BY <2>2, <3>1, <3>2, NextIsPlaceable DEF VMStorageEvent
    <3> QED BY <3>3 DEF Filed, Complete
  <2>5. StagesOnBooks[v] = "announced" /\ StageOnBooks(v)' = "gone"
    BY <1>1, <2>1, <2>2, <2>4 DEF StagesOnBooks, StageOnBooks, Announced
  <2>6. StagesOnBooks' = [StagesOnBooks EXCEPT ![v] = "gone"]
    BY <1>1, <2>3, <2>5, OneStageOnBooks
  <2>7. Promise!Miss(v)
    BY <1>1, <2>5, <2>6 DEF Promise!Miss, Promise!Becomes, StagesOnBooks
  <2> QED BY <2>7 DEF LedgerStep, Promise!LedgerNext
<1> QED BY <1>2, <1>3

LEMMA StorageLedger ==
  ASSUME BooksInv, WorldInv', NEW t \in DOMAIN queue, StorageStep(t, UpdateWorld)
  PROVE  LedgerStep
<1>1. StorageLedgerFrame(t)
  BY StorageLedgerFrameOf
<1>2. /\ PlacedInv /\ WorldInv /\ QueueTypeOK(Sent) /\ NextEvent(t) \in Sent
      /\ NextEvent(t) \in Filed /\ NextEvent(t) \in PlaceableIn(Placed)
      /\ DOMAIN vms \subseteq DOMAIN vmState /\ DOMAIN vmState \subseteq VM
      /\ Complete \subseteq DOMAIN vmState
  <2>1. PlacedInv /\ WorldInv /\ QueueTypeOK(Sent)
    BY DEF BooksInv, PlacedInv
  <2>2. queue[t] \in Seq(Sent) \ {<< >>}
    BY <2>1 DEF QueueTypeOK
  <2>3. NextEvent(t) \in Sent
    BY <2>2 DEF NextEvent
  <2>4. DOMAIN vms \subseteq DOMAIN vmState /\ DOMAIN vmState \subseteq VM /\ Complete \subseteq DOMAIN vmState
    BY <2>1 DEF WorldInv, ActorsInv, VMTypeOK, Complete
  <2> QED BY <2>1, <2>3, <2>4, NextIsPlaceable
<1>3. CASE InFailedState(t, UpdateWorld)
  BY <1>1, <1>3, MissesInLedger
<1>4. CASE StorageInvalidEvent(t, UpdateWorld)
  <2>1. /\ UNCHANGED vms /\ storageState = "kOk" /\ storageState' = "kFailure"
        /\ NextEvent(t).type \notin VMStorageEventType
    BY <1>4 DEF StorageInvalidEvent, UpdateOrFail
  <2>2. \A w : NextEvent(t) # VMStorageEvent("kVMCreated", w)
    BY <2>1 DEF VMStorageEvent, VMStorageEventType
  <2> QED BY <1>1, <2>1, <2>2, FailsInLedger
<1>5. CASE \E n \in Registered : HandleVMStorageEvent(n, t, UpdateWorld)
  <2>1. PICK n : HandleVMStorageEvent(n, t, UpdateWorld)
    BY <1>5
  <2>2. PICK type \in VMStorageEventType : StorageHandles(type, n, t)
    BY <2>1 DEF HandleVMStorageEvent, AddVM, MoveToPending, MoveToProvisioning, MoveToHosted,
                MoveToStopped, DeleteVM, VMStorageEventType
  <2>3. PICK e : e = NextEvent(t)
    OBVIOUS
  <2>4. /\ IsNext(t) /\ UnderWay /\ Books /\ storageState = "kOk"
        /\ e = VMStorageEvent(type, n) /\ e.type = type /\ e.vm = n /\ Subject(e) = n
        /\ NextEvent(t).type = type
    <3>1. IsNext(t) /\ storageState = "kOk" /\ e = VMStorageEvent(type, n)
      BY <2>2, <2>3 DEF StorageHandles, StorageReceives
    <3>2. e.type = type /\ e.vm = n /\ type # "kStart"
      BY <3>1 DEF VMStorageEvent, VMStorageEventType
    <3> QED BY <2>3, <3>1, <3>2 DEF BooksInv, Subject
  <2>5. Staged(e) => Agrees(e)
    BY <1>2, <2>3, <2>4, HeadAgrees
  <2>6. /\ type # "kVMStopped"
        /\ type = "kVMCreated" => n \notin DOMAIN vms /\ n \in Complete
        /\ type = "kVMScheduled" => n \in DOMAIN vms /\ vms[n] = "kPending"
        /\ type = "kVMHosted" => n \in DOMAIN vms /\ vms[n] = "kProvisioning" /\ n \in Placed
    BY <1>2, <2>3, <2>4, <2>5 DEF Agrees, Staged, StagedType, Sent, Filed, PlaceableIn
  <2>7. type # "kVMCreated" => \A w : NextEvent(t) # VMStorageEvent("kVMCreated", w)
    BY <2>3, <2>4 DEF VMStorageEvent
  <2>8. CASE AddVM(n, t, UpdateWorld)
    <3>1. type = "kVMCreated"
      BY <2>4, <2>8 DEF AddVM, StorageHandles, VMStorageEvent
    <3>2. vms' = WithStatus(n, "kCreated") /\ UNCHANGED storageState
      BY <2>6, <2>8, <3>1 DEF AddVM, UpdateOrFail
    <3>3. n \in VM /\ n \in DOMAIN vmState /\ n \notin DOMAIN vms
      BY <1>2, <2>6, <3>1
    <3>4. Announced(n)
      <4>1. 1 \in 1..Len(queue[t]) /\ e = queue[t][1]
        BY <1>2, <2>3 DEF QueueTypeOK, NextEvent
      <4> QED BY <2>4, <3>1, <4>1 DEF Announced, Queued, QueuedAt
    <3>5. UNCHANGED <<hosted, vmState>> /\ \A w \in VM \ {n} : Announced(w)' <=> Announced(w)
      BY <1>1, <2>3, <2>4, <3>1, ReportsDiffer DEF StorageLedgerFrame
    <3>6. StagesOnBooks[n] = "announced" /\ StageOnBooks(n)' = "kCreated"
      BY <3>2, <3>3, <3>4, <3>5 DEF StagesOnBooks, StageOnBooks, Announced, WithStatus
    <3>7. StagesOnBooks' = [StagesOnBooks EXCEPT ![n] = "kCreated"]
      BY <3>2, <3>3, <3>5, <3>6, OneStageOnBooks DEF WithStatus
    <3>8. Promise!Advance(n)
      BY <2>4, <3>2, <3>5, <3>6, <3>7 DEF Promise!Advance, Promise!Becomes, StagesOnBooks
    <3> QED BY <3>3, <3>8 DEF LedgerStep, Promise!LedgerNext
  <2>9. CASE MoveToPending(n, t, UpdateWorld)
    <3>1. type = "kVMProvisionRequested"
      BY <2>4, <2>9 DEF MoveToPending, StorageHandles, VMStorageEvent
    <3>2. CASE n \notin DOMAIN vms
      <4>1. UNCHANGED vms /\ storageState' = "kFailure"
        BY <2>9, <3>2 DEF MoveToPending, UpdateOrFail
      <4> QED BY <1>1, <2>4, <2>7, <3>1, <4>1, FailsInLedger
    <3>3. CASE n \in DOMAIN vms
      <4>1. vms[n] # "kStoppedVM" /\ n \in VM /\ n \in DOMAIN vmState
        BY <1>2, <2>4, <3>3 DEF Books, Booked
      <4>2. UNCHANGED storageState
        BY <2>9, <3>3 DEF MoveToPending, UpdateOrFail
      <4>3. CASE vms[n] = "kCreated"
        <5>1. vms' = WithStatus(n, "kPending")
          BY <2>9, <3>3, <4>3 DEF MoveToPending, UpdateOrFail
        <5> QED BY <1>1, <2>4, <2>7, <3>1, <3>3, <4>1, <4>2, <4>3, <5>1, MovesOn
      <4>4. CASE vms[n] # "kCreated"
        <5>1. UNCHANGED vms
          BY <2>9, <3>3, <4>1, <4>4 DEF MoveToPending, UpdateOrFail
        <5>2. UNCHANGED <<hosted, vmState>> /\ \A w : Announced(w)' <=> Announced(w)
          BY <1>1, <2>7, <3>1 DEF StorageLedgerFrame
        <5> QED BY <4>2, <5>1, <5>2, SameStages, LedgerStutters
      <4> QED BY <4>3, <4>4
    <3> QED BY <3>2, <3>3
  <2>10. CASE MoveToProvisioning(n, t, UpdateWorld)
    <3>1. type = "kVMScheduled"
      BY <2>4, <2>10 DEF MoveToProvisioning, StorageHandles, VMStorageEvent
    <3>2. vms' = WithStatus(n, "kProvisioning") /\ UNCHANGED storageState
      BY <2>6, <2>10, <3>1 DEF MoveToProvisioning, UpdateOrFail
    <3>3. n \in VM /\ n \in DOMAIN vmState
      BY <1>2, <2>6, <3>1
    <3> QED BY <1>1, <2>4, <2>6, <2>7, <3>1, <3>2, <3>3, MovesOn
  <2>11. CASE MoveToHosted(n, t, UpdateWorld)
    <3>1. type = "kVMHosted"
      BY <2>4, <2>11 DEF MoveToHosted, StorageHandles, VMStorageEvent
    <3>2. vms' = WithStatus(n, "kHostedVM") /\ UNCHANGED storageState
      BY <2>6, <2>11, <3>1 DEF MoveToHosted, UpdateOrFail
    <3>3. n \in VM /\ n \in DOMAIN vmState /\ n \in hosted[FirstServer]
      BY <1>2, <2>6, <3>1 DEF Placed
    <3> QED BY <1>1, <2>4, <2>6, <2>7, <3>1, <3>2, <3>3, MovesOn
  <2>12. ~MoveToStopped(n, t, UpdateWorld)
    BY <2>3, <2>4, <2>6 DEF MoveToStopped, StorageHandles, VMStorageEvent
  <2>13. CASE DeleteVM(n, t, UpdateWorld)
    <3>1. type = "kVMDeleted"
      BY <2>4, <2>13 DEF DeleteVM, StorageHandles, VMStorageEvent
    <3>2. CASE n \notin DOMAIN vms
      <4>1. UNCHANGED vms /\ storageState' = "kFailure"
        BY <2>13, <3>2 DEF DeleteVM, UpdateOrFail
      <4> QED BY <1>1, <2>4, <2>7, <3>1, <4>1, FailsInLedger
    <3>3. CASE n \in DOMAIN vms
      <4>1. vms' = [w \in DOMAIN vms \ {n} |-> vms[w]] /\ UNCHANGED storageState
        BY <2>13, <3>3 DEF DeleteVM, UpdateOrFail
      <4>2. n \in VM /\ n \in DOMAIN vmState /\ vms[n] \in Promise!OnBooks
        BY <1>2, <2>4, <3>3 DEF Books, Booked, WorldInv, ActorsInv, StorageTypeOK, VMStatus, Promise!OnBooks
      <4>3. UNCHANGED <<hosted, vmState>> /\ \A w : Announced(w)' <=> Announced(w)
        BY <1>1, <2>7, <3>1 DEF StorageLedgerFrame
      <4>4. ~Announced(n)
        <5>1. PICK f : f = VMStorageEvent("kVMCreated", n)
          OBVIOUS
        <5>2. f.type = "kVMCreated" /\ f.vm = n
          BY <5>1 DEF VMStorageEvent
        <5>3. ~Queued(f)
          BY <2>4, <3>3, <5>2, ReportsQueued
        <5> QED BY <5>1, <5>3 DEF Announced
      <4>5. StagesOnBooks[n] = vms[n] /\ StageOnBooks(n)' = "gone"
        BY <3>3, <4>1, <4>2, <4>3, <4>4 DEF StagesOnBooks, StageOnBooks, Announced
      <4>6. StagesOnBooks' = [StagesOnBooks EXCEPT ![n] = "gone"]
        BY <4>1, <4>2, <4>3, <4>5, OneStageOnBooks
      <4>7. Promise!Strike(n)
        BY <2>4, <4>1, <4>2, <4>3, <4>5, <4>6 DEF Promise!Strike, Promise!Becomes, StagesOnBooks
      <4> QED BY <4>2, <4>7 DEF LedgerStep, Promise!LedgerNext
    <3> QED BY <3>2, <3>3
  <2> QED BY <2>1, <2>8, <2>9, <2>10, <2>11, <2>12, <2>13 DEF HandleVMStorageEvent
<1> QED BY <1>3, <1>4, <1>5 DEF StorageStep

-----------------------------------------------------------------------------
(* A command files e, and nothing that waits is lost: only the report of a *)
(* new VM is something to the ledger.                                      *)
LEMMA CommandLedger ==
  ASSUME BooksInv, UNCHANGED actorVars, NEW e, e.type # "kVMCreated",
         \A f : Queued(f) => Queued(f)',
         \A f : Queued(f)' => Queued(f) \/ f = e
  PROVE  LedgerStep
<1>1. UNCHANGED <<vms, vmState, hosted, storageState>>
  BY DEF actorVars, vmVars, storageVars, serverVars
<1>2. ASSUME NEW v PROVE Announced(v)' <=> Announced(v)
  <2>1. PICK f : f = VMStorageEvent("kVMCreated", v)
    OBVIOUS
  <2>2. f # e
    BY <2>1 DEF VMStorageEvent
  <2>3. Queued(f)' <=> Queued(f)
    BY <2>2
  <2>4. \A g : g = VMStorageEvent("kVMCreated", v) => (Queued(g)' <=> Announced(v)')
    BY DEF Announced, Queued, QueuedAt
  <2> QED BY <2>1, <2>3, <2>4 DEF Announced
<1> QED BY <1>1, <1>2, SameStages, LedgerStutters

(* A report that waits is of a VM that was made.                           *)
LEMMA AnnouncedIsMade ==
  ASSUME BooksInv, NEW v, Announced(v)
  PROVE  v \in DOMAIN vmState
<1>1. PICK f : f = VMStorageEvent("kVMCreated", v)
  OBVIOUS
<1>2. f.type = "kVMCreated" /\ f.vm = v
  BY <1>1 DEF VMStorageEvent
<1>3. PICK t \in DOMAIN queue : \E i \in 1..Len(queue[t]) : queue[t][i] = f
  BY <1>1 DEF Announced, Queued, QueuedAt
<1>4. queue[t] \in Seq(Filed)
  BY DEF BooksInv, PlacedInv, WorldInv, QueueTypeOK
<1>5. f \in Filed
  BY <1>3, <1>4
<1> QED BY <1>2, <1>5 DEF Filed, Complete

(* A creation, and one that fails halfway, is the first the ledger hears   *)
(* of a VM.                                                                *)
LEMMA CreateLedger ==
  ASSUME BooksInv, NEW v \in VM, CreateVM(v)
  PROVE  LedgerStep
<1>1. WorldInv
  BY DEF BooksInv, PlacedInv
<1>2. /\ v \notin DOMAIN vmState /\ DOMAIN vmState' = DOMAIN vmState \cup {v}
      /\ UNCHANGED <<vms, hosted, storageState>>
  BY DEF CreateVM, Registered, MakeVM, serverVars, storageVars
<1>3. PICK e : e = VMStorageEvent("kVMCreated", v)
  OBVIOUS
<1>4. e.type = "kVMCreated" /\ e.vm = v /\ Submit(e, FALSE)
  BY <1>3 DEF VMStorageEvent, CreateVM
<1>5. e \in Sent /\ e.type \in ClientType
  <2>1. e \in [to : {Storage}, type : VMStorageEventType, vm : Named]
    BY <1>3 DEF VMStorageEvent, VMStorageEventType, Named
  <2>2. e \in WorldEvent
    BY <2>1 DEF WorldEvent
  <2> QED BY <1>4, <2>2 DEF Sent, ClientType, VMStorageEventType
<1>6. \A f : Queued(f)' => Queued(f) \/ f = e
  BY <1>2, <1>4, <1>5, SubmitCalls DEF Called
<1>7. \A f : Queued(f) => Queued(f)'
  <2>1. ClientCall
    BY DEF ClientCall
  <2> QED BY <1>1, <2>1, CallKeeps DEF VMsAndEventsKept
<1>8. Announced(v)'
  <2>1. queue' = Insert(queue, now, now, <<e>>, FALSE) /\ now' = now
    BY <1>4 DEF Submit
  <2>2. QueueTypeOK(Sent) /\ now \in Nat /\ CommandsOnly
    BY <1>4 DEF BooksInv, QueueTypeOK, Submit, Accept, Idle, CommandsOnly
  <2>3. PICK d : d = At(queue, now) \o <<e>>
    OBVIOUS
  <2>4. queue' = Put(queue, now, d)
    BY <2>1, <2>2, <2>3 DEF Insert
  <2>5. now \in DOMAIN queue' /\ queue'[now] = d
    BY <2>4 DEF Put
  <2>6. At(queue, now) \in Seq(Sent)
    BY <2>2 DEF QueueTypeOK, At
  <2>7. PICK n : n = Len(At(queue, now)) + 1
    OBVIOUS
  <2>8. n \in 1..Len(d) /\ d[n] = e
    BY <2>3, <2>6, <2>7
  <2> QED BY <1>3, <2>5, <2>8 DEF Announced, Queued, QueuedAt
<1>9. ASSUME NEW w \in VM \ {v} PROVE StageOnBooks(w)' = StageOnBooks(w)
  <2>1. PICK f : f = VMStorageEvent("kVMCreated", w)
    OBVIOUS
  <2>2. f # e
    BY <1>3, <1>9, <2>1, ReportsDiffer
  <2>3. Queued(f)' <=> Queued(f)
    BY <1>6, <1>7, <2>2
  <2>4. \A g : g = VMStorageEvent("kVMCreated", w) => (Queued(g)' <=> Announced(w)')
    BY DEF Announced, Queued, QueuedAt
  <2>5. Announced(w)' <=> Announced(w)
    BY <2>1, <2>3, <2>4 DEF Announced
  <2> QED BY <1>2, <1>9, <2>5 DEF StageOnBooks, Announced
<1>10. StagesOnBooks[v] = "absent" /\ StageOnBooks(v)' = "announced"
  <2>1. v \notin DOMAIN vms
    BY <1>1, <1>2 DEF WorldInv, ActorsInv, Complete
  <2> QED BY <1>2, <1>8, <2>1 DEF StagesOnBooks, StageOnBooks, Announced
<1>11. StagesOnBooks' = [StagesOnBooks EXCEPT ![v] = "announced"]
  BY <1>9, <1>10, OneStage
<1>12. Promise!Create(v)
  BY <1>2, <1>10, <1>11 DEF Promise!Create, Promise!Becomes, StagesOnBooks
<1> QED BY <1>12 DEF LedgerStep, Promise!LedgerNext

LEMMA CreateFailsLedger ==
  ASSUME BooksInv, NEW v \in VM, CreateVMFails(v)
  PROVE  LedgerStep
<1>1. WorldInv
  BY DEF BooksInv, PlacedInv
<1>2. /\ v \notin DOMAIN vmState /\ DOMAIN vmState' = DOMAIN vmState \cup {v}
      /\ UNCHANGED <<queue, vms, hosted, storageState>>
  BY DEF CreateVMFails, Registered, MakeVM, Refuse, serverVars, storageVars
<1>3. \A w : Announced(w)' <=> Announced(w)
  BY <1>2 DEF Announced, Queued, QueuedAt
<1>4. \A w \in VM \ {v} : StageOnBooks(w)' = StageOnBooks(w)
  BY <1>2, <1>3 DEF StageOnBooks, Announced
<1>5. StagesOnBooks[v] = "absent" /\ StageOnBooks(v)' = "gone"
  <2>1. v \notin DOMAIN vms /\ ~Announced(v)
    BY <1>1, <1>2, AnnouncedIsMade DEF WorldInv, ActorsInv, Complete
  <2> QED BY <1>2, <1>3, <2>1 DEF StagesOnBooks, StageOnBooks, Announced
<1>6. StagesOnBooks' = [StagesOnBooks EXCEPT ![v] = "gone"]
  BY <1>4, <1>5, OneStage
<1>7. Promise!Create(v)
  BY <1>2, <1>5, <1>6 DEF Promise!Create, Promise!Becomes, StagesOnBooks
<1> QED BY <1>7 DEF LedgerStep, Promise!LedgerNext

LEMMA CallLedger ==
  ASSUME BooksInv, ClientCall
  PROVE  LedgerStep
<1>1. WorldInv /\ \A f : Queued(f) => Queued(f)'
  BY CallKeeps DEF BooksInv, PlacedInv, VMsAndEventsKept
<1>2. ASSUME UNCHANGED actorVars, NEW e \in Sent, NEW immediate \in BOOLEAN, Submit(e, immediate),
             e.type \in ClientType, e.type # "kVMCreated"
      PROVE  LedgerStep
  BY <1>1, <1>2, SubmitCalls, CommandLedger DEF Called
<1>3. ASSUME NEW n \in Named, NEW type \in ResourceCommand, DoResourceAction(type, n)
      PROVE  LedgerStep
  <2>1. PICK e : e = ResourceEvent(n, type)
    OBVIOUS
  <2>2. e \in WorldEvent /\ e.type = type
    BY <1>1, <1>3, <2>1, CommandFiled DEF DoResourceAction, ResourceEvent, ResourceEventType, Filed
  <2>3. e \in Sent /\ e.type \in ClientType /\ e.type # "kVMCreated"
    BY <2>2 DEF Sent, ClientType, ResourceCommand
  <2> QED BY <1>2, <1>3, <2>1, <2>3 DEF DoResourceAction
<1>4. ASSUME NEW n \in Named, DoProvisionVM(n)
      PROVE  LedgerStep
  <2>1. PICK e : e = VMStorageEvent("kVMProvisionRequested", n)
    OBVIOUS
  <2>2. e \in WorldEvent /\ e.type = "kVMProvisionRequested"
    BY <1>1, <2>1, StorageEventFiled DEF VMStorageEventType, VMStorageEvent, Filed
  <2>3. e \in Sent /\ e.type \in ClientType /\ e.type # "kVMCreated"
    BY <2>2 DEF Sent, ClientType, VMStorageEventType
  <2> QED BY <1>2, <1>4, <2>1, <2>3 DEF DoProvisionVM
<1>5. ASSUME NEW n \in Named, NEW type \in {"kStop", "kDelete"}, DoVMAction(type, n)
      PROVE  LedgerStep
  <2>1. PICK e : e = VMEvent(n, type)
    OBVIOUS
  <2>2. e \in WorldEvent /\ e.type = type
    BY <1>1, <1>5, <2>1, CommandFiled DEF DoVMAction, VMEvent, VMEventType, Filed
  <2>3. e \in Sent /\ e.type \in ClientType /\ e.type # "kVMCreated"
    BY <2>2 DEF Sent, ClientType
  <2> QED BY <1>2, <1>5, <2>1, <2>3 DEF DoVMAction
<1> QED BY <1>3, <1>4, <1>5, CreateLedger, CreateFailsLedger DEF ClientCall, Named

(* Every step is one of the ledger or none.                                *)
LEMMA LedgerNextStep ==
  ASSUME BooksInv, BooksInv', [WorldNext]_worldVars
  PROVE  LedgerStep
<1>1. WorldInv'
  BY DEF BooksInv, PlacedInv
<1>2. CASE ClientCall
  BY <1>2, CallLedger
<1>3. CASE SimulateNextStep(UpdateWorld)
  BY <1>1, <1>3, QuietLedger, ServerLedger, StorageLedger DEF SimulateNextStep
<1>4. CASE UNCHANGED <<queue, actorVars>>
  <2>1. UNCHANGED <<vms, vmState, hosted, storageState>>
    BY <1>4 DEF actorVars, vmVars, storageVars, serverVars
  <2>2. \A v : Announced(v)' <=> Announced(v)
    BY <1>4 DEF Announced, Queued, QueuedAt
  <2> QED BY <2>1, <2>2, SameStages, LedgerStutters
<1> QED BY <1>2, <1>3, <1>4 DEF WorldNext, worldVars, SimulateAll, SimulateAllReturns, evVars,
                                actorVars, vmVars, storageVars, serverVars

(* The storage (vm-storage.cpp), the scheduler and the server, with every  *)
(* message between them and whatever clients send, implement the ledger:   *)
(* stages one by one, no name used again, no VM called hosted that its     *)
(* server does not list, and books that stay as they are once the storage  *)
(* has failed.                                                             *)
THEOREM ImplementsLedger == WorldSafetySpec => LedgerKept
<1>1. WorldInit => Promise!LedgerInit
  <2> SUFFICES ASSUME WorldInit PROVE Promise!LedgerInit
    OBVIOUS
  <2>1. DOMAIN vmState = {} /\ hosted[FirstServer] = {} /\ storageState = "kOk"
    BY FirstServerAssumption DEF WorldInit, VMInit, ServerInit, StorageInit
  <2> QED BY <2>1 DEF Promise!LedgerInit, StageOnBooks
<1>2. BooksInv /\ BooksInv' /\ [WorldNext]_worldVars => [Promise!LedgerNext]_(Promise!ledgerVars)
  BY LedgerNextStep DEF LedgerStep
<1> QED BY <1>1, <1>2, BooksInit, BooksNext, PTL DEF WorldSafetySpec, LedgerKept, Promise!LedgerSpec

=============================================================================
