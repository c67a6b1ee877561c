-------------------------- MODULE ActorRegisterProofs --------------------------
(***************************************************************************)
(* For any number of threads, names and calls: however the calls of Make   *)
(* overlap, a name that has been entered leads to an actor the register    *)
(* owns; and until they overlap, the register implements the directory.    *)
(***************************************************************************)
EXTENDS ActorRegister, FiniteSetTheorems, TLAPS

Made == 1..Len(objects)

Place == {"idle", "increment", "emplace", "check", "bind"}

Holding(th) == pc[th] \in {"emplace", "check", "bind"}

(* Objects are numbered, and each thread that has made one holds one. *)
TypeInv ==
  /\ pc \in [Thread -> Place]
  /\ DOMAIN local = Thread
  /\ \A th \in Thread : local[th] \in [name : Name \cup {NoName}, read : Int, object : Int]
  /\ serial \in Int
  /\ objects \in Seq([uuid : Int, name : Name \cup {NoName}])
  /\ \A th \in Thread : Holding(th) => Object(th) \in Made

(* What makes NamesLeadToActors inductive: an object is deleted only by    *)
(* the one thread that holds it, before it is in the table, and a thread   *)
(* enters a name only when the table has an entry for its UUID, be it of   *)
(* another thread's actor.                                                 *)
OwnInv ==
  /\ \A a, b \in Thread : Holding(a) /\ Holding(b) /\ a # b => Object(a) # Object(b)
  /\ \A u \in DOMAIN actors : actors[u] \in Made \ freed
  /\ \A th \in Thread :
       pc[th] = "emplace" =>
         /\ \A u \in DOMAIN actors : actors[u] # Object(th)
         /\ Object(th) \notin freed
  /\ \A th \in Thread :
       pc[th] \in {"check", "bind"} => objects[Object(th)].uuid \in DOMAIN actors
  /\ freed \subseteq Made
  /\ \A n \in DOMAIN names : names[n] \in DOMAIN actors

RegisterInv == TypeInv /\ OwnInv

-----------------------------------------------------------------------------
LEMMA InvInit == RegisterInit => RegisterInv
<1> SUFFICES ASSUME RegisterInit PROVE RegisterInv
  OBVIOUS
<1> USE DEF RegisterInit
<1>1. DOMAIN actors = {} /\ DOMAIN names = {}
  OBVIOUS
<1>2. TypeInv
  BY DEF TypeInv, Holding, Place
<1>3. OwnInv
  BY <1>1 DEF OwnInv, Holding
<1> QED BY <1>2, <1>3 DEF RegisterInv

(* A step that leaves the tables and the objects alone and moves a thread  *)
(* to where it holds nothing, or on from "check" to "bind".                *)
LEMMA MoveOnly ==
  ASSUME RegisterInv, NEW th \in Thread, NEW place \in Place, Goto(th, place),
         UNCHANGED <<actors, names, objects, freed>>,
         TypeInv', \A u \in Thread \ {th} : local'[u] = local[u],
         \/ place \in {"idle", "increment"}
         \/ place = "bind" /\ pc[th] = "check" /\ local'[th] = local[th]
  PROVE  OwnInv'
<1> USE DEF RegisterInv
<1>1. /\ \A u \in Thread \ {th} : pc'[u] = pc[u]
      /\ pc'[th] = place
  BY DEF Goto, TypeInv
<1>2. \A u \in Thread : Holding(u)' => Holding(u) /\ Object(u)' = Object(u)
  BY <1>1 DEF Holding, Object
<1>3. \A u \in Thread : pc'[u] = "emplace" => pc[u] = "emplace"
  BY <1>1
<1>4. \A u \in Thread : pc'[u] \in {"check", "bind"} => pc[u] \in {"check", "bind"}
  BY <1>1
<1>5. Made' = Made
  BY DEF Made
<1> QED BY <1>2, <1>3, <1>4, <1>5 DEF OwnInv, Holding

LEMMA ReadSerialKeeps ==
  ASSUME RegisterInv, NEW th \in Thread, NEW name \in Name, ReadSerial(th, name)
  PROVE  RegisterInv'
<1> USE DEF RegisterInv
<1>1. TypeInv'
  BY DEF ReadSerial, Goto, TypeInv, Holding, Object, Made, Place
<1>2. \A u \in Thread \ {th} : local'[u] = local[u]
  BY DEF ReadSerial, TypeInv
<1>3. OwnInv'
  BY <1>1, <1>2, MoveOnly DEF ReadSerial, Place
<1> QED BY <1>1, <1>3

LEMMA WriteSerialKeeps ==
  ASSUME RegisterInv, NEW th \in Thread, WriteSerial(th)
  PROVE  RegisterInv'
<1> USE DEF RegisterInv
<1> DEFINE o == [uuid |-> local[th].read, name |-> local[th].name]
           k == Len(objects) + 1
<1>1. o \in [uuid : Int, name : Name \cup {NoName}]
  BY DEF TypeInv
<1>2. objects' = Append(objects, o)
  BY DEF WriteSerial
<1>3. Len(objects) \in Nat /\ Len(objects') = k
  BY <1>1, <1>2 DEF TypeInv
<1>4. objects' \in Seq([uuid : Int, name : Name \cup {NoName}])
  BY <1>1, <1>2 DEF TypeInv
<1>5. \A i \in Made : objects'[i] = objects[i]
  BY <1>1, <1>2 DEF TypeInv, Made
<1>6. Made' = Made \cup {k} /\ k \notin Made
  BY <1>3 DEF Made
<1> HIDE DEF o, k
<1>7. /\ \A u \in Thread \ {th} : local'[u] = local[u] /\ pc'[u] = pc[u]
      /\ pc'[th] = "emplace" /\ Object(th)' = k
      /\ local'[th] = [local[th] EXCEPT !.object = k]
  BY DEF WriteSerial, Goto, TypeInv, Object, k
<1>8. serial' \in Int
  <2>1. serial' = (local[th].read + 1) % Modulus
    BY DEF WriteSerial
  <2>2. Modulus \in Nat \ {0} /\ local[th].read \in Int
    BY RegisterAssumption DEF TypeInv
  <2> QED BY <2>1, <2>2
<1>9. TypeInv'
  <2>1. pc' \in [Thread -> Place] /\ DOMAIN local' = Thread
    BY DEF WriteSerial, Goto, TypeInv, Place
  <2>2. k \in Int
    BY <1>3 DEF k
  <2>3. local'[th] \in [name : Name \cup {NoName}, read : Int, object : Int]
    BY <1>7, <2>2 DEF TypeInv
  <2>4. \A u \in Thread : Holding(u)' => Object(u)' \in Made'
    BY <1>6, <1>7 DEF Holding, TypeInv, Object
  <2> QED BY <1>4, <1>7, <1>8, <2>1, <2>3, <2>4 DEF TypeInv
<1>10. UNCHANGED <<actors, names, freed>>
  BY DEF WriteSerial
<1>11. OwnInv'
  <2>1. \A u \in Thread \ {th} : Object(u)' = Object(u) /\ (Holding(u)' <=> Holding(u))
    BY <1>7 DEF Object, Holding
  <2>2. \A a, b \in Thread : Holding(a)' /\ Holding(b)' /\ a # b => Object(a)' # Object(b)'
    BY <1>6, <1>7, <2>1 DEF OwnInv, TypeInv
  <2>3. \A u \in DOMAIN actors' : actors'[u] \in Made' \ freed'
    BY <1>6, <1>10 DEF OwnInv
  <2>4. \A u \in Thread :
          pc'[u] = "emplace" =>
            /\ \A w \in DOMAIN actors' : actors'[w] # Object(u)'
            /\ Object(u)' \notin freed'
    BY <1>6, <1>7, <1>10, <2>1 DEF OwnInv
  <2>5. \A u \in Thread :
          pc'[u] \in {"check", "bind"} => objects'[Object(u)'].uuid \in DOMAIN actors'
    <3>1. TAKE u \in Thread
    <3>2. HAVE pc'[u] \in {"check", "bind"}
    <3>3. u # th /\ pc[u] \in {"check", "bind"} /\ Object(u)' = Object(u)
      BY <1>7, <2>1, <3>2
    <3>4. objects'[Object(u)] = objects[Object(u)]
      BY <1>5, <3>3 DEF TypeInv, Holding
    <3> QED BY <1>10, <3>3, <3>4 DEF OwnInv
  <2> QED BY <1>6, <1>10, <2>2, <2>3, <2>4, <2>5 DEF OwnInv
<1> QED BY <1>9, <1>11

LEMMA EmplaceKeeps ==
  ASSUME RegisterInv, NEW th \in Thread, Emplace(th)
  PROVE  RegisterInv'
<1> USE DEF RegisterInv
<1> DEFINE o == Object(th)
           id == objects[o].uuid
<1>1. /\ \A u \in Thread \ {th} : pc'[u] = pc[u]
      /\ pc[th] = "emplace" /\ pc'[th] = "check"
  BY DEF Emplace, Goto, TypeInv
<1>2. UNCHANGED <<serial, names, objects, local>>
  BY DEF Emplace
<1>3. Made' = Made /\ \A u \in Thread : Object(u)' = Object(u) /\ (Holding(u)' <=> Holding(u))
  BY <1>1, <1>2 DEF Made, Object, Holding
<1>4. TypeInv'
  BY <1>2, <1>3 DEF Emplace, Goto, TypeInv, Place
<1>5. o \in Made /\ \A u \in DOMAIN actors : actors[u] # o
  BY <1>1 DEF TypeInv, OwnInv, Holding
<1>6. \A u \in Thread \ {th} : Holding(u) => Object(u) # o
  BY <1>1 DEF OwnInv, Holding
<1>a. ASSUME \A u \in DOMAIN actors' : actors'[u] \in Made' \ freed',
             DOMAIN actors \subseteq DOMAIN actors', id \in DOMAIN actors',
             \A u \in Thread : pc'[u] = "emplace" =>
               (\A w \in DOMAIN actors' : actors'[w] # Object(u)') /\ Object(u)' \notin freed',
             freed' \subseteq freed \cup {o}
      PROVE  RegisterInv'
  <2>1. \A a, b \in Thread : Holding(a)' /\ Holding(b)' /\ a # b => Object(a)' # Object(b)'
    BY <1>3 DEF OwnInv
  <2>2. \A u \in Thread :
          pc'[u] \in {"check", "bind"} => objects'[Object(u)'].uuid \in DOMAIN actors'
    BY <1>1, <1>2, <1>3, <1>a DEF OwnInv
  <2>3. freed' \subseteq Made' /\ \A n \in DOMAIN names' : names'[n] \in DOMAIN actors'
    BY <1>2, <1>3, <1>5, <1>a DEF OwnInv
  <2>4. OwnInv'
    BY <1>a, <2>1, <2>2, <2>3 DEF OwnInv
  <2> QED BY <1>4, <2>4
<1>7. CASE id \notin DOMAIN actors
  <2>1. actors' = SetEntry(actors, id, o) /\ freed' = freed
    BY <1>7 DEF Emplace
  <2>2. /\ DOMAIN actors' = DOMAIN actors \cup {id}
        /\ actors'[id] = o
        /\ \A u \in DOMAIN actors : actors'[u] = actors[u]
    BY <1>7, <2>1 DEF SetEntry
  <2>3. o \notin freed
    BY <1>1 DEF OwnInv
  <2>4. \A u \in DOMAIN actors' : actors'[u] \in Made' \ freed'
    BY <1>3, <1>5, <2>1, <2>2, <2>3 DEF OwnInv
  <2>5. DOMAIN actors \subseteq DOMAIN actors'
    BY <2>2
  <2>6. \A u \in Thread : pc'[u] = "emplace" =>
          (\A w \in DOMAIN actors' : actors'[w] # Object(u)') /\ Object(u)' \notin freed'
    BY <1>1, <1>3, <1>6, <2>1, <2>2 DEF OwnInv, Holding
  <2> QED BY <1>a, <2>1, <2>2, <2>4, <2>5, <2>6
<1>8. CASE id \in DOMAIN actors
  <2>1. actors' = actors /\ freed' = freed \cup {o}
    BY <1>8 DEF Emplace
  <2>2. \A u \in DOMAIN actors' : actors'[u] \in Made' \ freed'
    BY <1>3, <1>5, <2>1 DEF OwnInv
  <2>3. DOMAIN actors \subseteq DOMAIN actors'
    BY <2>1
  <2>4. \A u \in Thread : pc'[u] = "emplace" =>
          (\A w \in DOMAIN actors' : actors'[w] # Object(u)') /\ Object(u)' \notin freed'
    BY <1>1, <1>3, <1>6, <2>1 DEF OwnInv, Holding
  <2> QED BY <1>8, <1>a, <2>1, <2>2, <2>3, <2>4
<1> QED BY <1>7, <1>8

LEMMA CheckNameKeeps ==
  ASSUME RegisterInv, NEW th \in Thread, CheckName(th)
  PROVE  RegisterInv'
<1> USE DEF RegisterInv
<1> DEFINE place == IF local[th].name \in DOMAIN names THEN "idle" ELSE "bind"
<1>1. pc[th] = "check" /\ Goto(th, place) /\ UNCHANGED <<serial, actors, names, objects, freed, local>>
  BY DEF CheckName
<1>2. place \in {"idle", "bind"}
  OBVIOUS
<1> HIDE DEF place
<1>3. TypeInv'
  BY <1>1, <1>2 DEF Goto, TypeInv, Place, Holding, Object, Made
<1>4. OwnInv'
  BY <1>1, <1>2, <1>3, MoveOnly DEF Place
<1> QED BY <1>3, <1>4

LEMMA BindKeeps ==
  ASSUME RegisterInv, NEW th \in Thread, Bind(th)
  PROVE  RegisterInv'
<1> USE DEF RegisterInv
<1> DEFINE id == objects[Object(th)].uuid
<1>1. /\ pc[th] = "bind" /\ Goto(th, "idle")
      /\ UNCHANGED <<serial, actors, objects, freed, local>>
      /\ names' = SetEntry(names, local[th].name, id)
  BY DEF Bind
<1>2. /\ \A u \in Thread \ {th} : pc'[u] = pc[u]
      /\ pc'[th] = "idle"
  BY <1>1 DEF Goto, TypeInv
<1>3. TypeInv'
  BY <1>1 DEF Goto, TypeInv, Place, Holding, Object, Made
<1>4. id \in DOMAIN actors
  BY <1>1 DEF OwnInv
<1>5. \A n \in DOMAIN names' : names'[n] \in DOMAIN actors
  BY <1>1, <1>4 DEF SetEntry, OwnInv
<1>6. Made' = Made /\ \A u \in Thread : Object(u)' = Object(u) /\ (Holding(u)' => Holding(u))
  BY <1>1, <1>2 DEF Made, Object, Holding
<1> QED BY <1>1, <1>2, <1>3, <1>5, <1>6 DEF OwnInv

LEMMA InvStep == RegisterInv /\ [RegisterNext]_registerVars => RegisterInv'
<1> SUFFICES ASSUME RegisterInv, [RegisterNext]_registerVars PROVE RegisterInv'
  OBVIOUS
<1>1. CASE UNCHANGED registerVars
  BY <1>1 DEF registerVars, RegisterInv, TypeInv, OwnInv, Holding, Object, Made
<1>2. CASE RegisterNext
  BY <1>2, ReadSerialKeeps, WriteSerialKeeps, EmplaceKeeps, CheckNameKeeps, BindKeeps
  DEF RegisterNext
<1> QED BY <1>1, <1>2

(* Whatever calls of Make overlap, a name that has been entered leads to   *)
(* an actor the register owns and nobody has deleted: two calls that were  *)
(* given the same UUID may share an actor, but GetActor never misses.      *)
THEOREM NamesAlwaysLeadToActors == RegisterSpec => []NamesLeadToActors
<1>1. RegisterInv => NamesLeadToActors
  BY DEF RegisterInv, OwnInv, NamesLeadToActors, ActorCalled
<1> QED BY <1>1, InvInit, InvStep, PTL DEF RegisterSpec

-----------------------------------------------------------------------------
(* What calls that come one by one keep: objects, UUIDs and table entries  *)
(* have the same numbers, the one call in progress holds the newest        *)
(* object, and an object without a call has its name in the directory.     *)
SerialInv ==
  /\ freed = {}
  /\ \A a, b \in Thread : pc[a] # "idle" /\ pc[b] # "idle" => a = b
  /\ Len(objects) <= MaxCalls
  /\ Len(objects) < MaxCalls => serial = Len(objects) + 1
  /\ \A i \in Made : objects[i].uuid = i
  /\ DOMAIN actors \subseteq Made /\ \A u \in DOMAIN actors : actors[u] = u
  /\ \A i \in Made : (\A th \in Thread : pc[th] = "emplace" => Object(th) # i) => i \in DOMAIN actors
  /\ \A i \in Made : (\A th \in Thread : Holding(th) => Object(th) # i) => objects[i].name \in DOMAIN names
  /\ \A n \in DOMAIN names : objects[names[n]].name = n
  /\ \A th \in Thread : pc[th] # "idle" => local[th].name \in Name
  /\ \A th \in Thread :
       pc[th] = "increment" => Len(objects) < MaxCalls /\ local[th].read = Len(objects) + 1
  /\ \A th \in Thread : Holding(th) => objects[Object(th)].name = local[th].name
  /\ \A th \in Thread : pc[th] = "bind" => local[th].name \notin DOMAIN names

OneByOne == overlapped \/ SerialInv

LEMMA ModSmall == \A x \in Nat : x < Modulus => x % Modulus = x
BY RegisterAssumption

LEMMA SerialInit == RegisterInit => OneByOne
<1> SUFFICES ASSUME RegisterInit PROVE SerialInv
  BY DEF OneByOne
<1> USE DEF RegisterInit
<1>1. DOMAIN actors = {} /\ DOMAIN names = {} /\ Len(objects) = 0 /\ Made = {}
  BY DEF Made
<1> QED BY <1>1, RegisterAssumption DEF SerialInv, Holding

LEMMA ReadSerialOne ==
  ASSUME RegisterInv, SerialInv, ~overlapped', NEW th \in Thread, NEW name \in Name,
         ReadSerial(th, name)
  PROVE  SerialInv'
<1>1. \A u \in Thread : pc[u] = "idle"
  BY DEF ReadSerial, Calling
<1>2. {u \in Thread : pc[u] = "increment"} = {}
  BY <1>1
<1>3. Cardinality({u \in Thread : pc[u] = "increment"}) = 0
  BY <1>2, FS_EmptySet
<1>4. Len(objects) < MaxCalls
  BY <1>3 DEF ReadSerial, RegisterInv, TypeInv
<1>5. /\ \A u \in Thread : pc'[u] = IF u = th THEN "increment" ELSE "idle"
      /\ local'[th] = [name |-> name, read |-> serial, object |-> 0]
      /\ UNCHANGED <<serial, actors, names, objects, freed>>
  BY <1>1 DEF ReadSerial, Goto, RegisterInv, TypeInv
<1>6. Made' = Made /\ \A u \in Thread : ~Holding(u) /\ ~Holding(u)'
  BY <1>1, <1>5 DEF Made, Holding
<1> QED BY <1>1, <1>4, <1>5, <1>6 DEF SerialInv

LEMMA WriteSerialOne ==
  ASSUME RegisterInv, SerialInv, NEW th \in Thread, WriteSerial(th)
  PROVE  SerialInv'
<1> DEFINE k == Len(objects) + 1
<1>1. /\ pc[th] = "increment" /\ \A u \in Thread \ {th} : pc[u] = "idle"
      /\ Len(objects) < MaxCalls /\ local[th].read = k
      /\ local[th].name \in Name
      /\ Len(objects) \in Nat
  BY DEF WriteSerial, SerialInv, RegisterInv, TypeInv
<1>2. PICK o : o = [uuid |-> local[th].read, name |-> local[th].name]
  OBVIOUS
<1>3. o \in [uuid : Int, name : Name \cup {NoName}]
  BY <1>1, <1>2
<1>4. objects' = Append(objects, o) /\ objects \in Seq([uuid : Int, name : Name \cup {NoName}])
  BY <1>2 DEF WriteSerial, RegisterInv, TypeInv
<1>5. Len(objects') = k /\ objects'[k] = o /\ \A i \in Made : objects'[i] = objects[i]
  BY <1>3, <1>4 DEF Made
<1>6. Made' = Made \cup {k} /\ k \notin Made /\ k <= MaxCalls
  BY <1>1, <1>5, RegisterAssumption DEF Made
<1>7. k < MaxCalls => serial' = k + 1
  <2> SUFFICES ASSUME k < MaxCalls PROVE serial' = k + 1
    OBVIOUS
  <2>1. k + 1 \in Nat /\ k + 1 < Modulus
    BY <1>1, RegisterAssumption
  <2>2. serial' = (k + 1) % Modulus
    BY <1>1 DEF WriteSerial
  <2> QED BY <2>1, <2>2, ModSmall
<1> HIDE DEF k
<1>8. /\ \A u \in Thread : pc'[u] = IF u = th THEN "emplace" ELSE "idle"
      /\ local'[th].name = local[th].name /\ Object(th)' = k
      /\ UNCHANGED <<actors, names, freed>>
  BY <1>1, <1>5 DEF WriteSerial, Goto, RegisterInv, TypeInv, Object, k
<1>9. /\ \A u \in Thread : ~Holding(u)
      /\ \A u \in Thread : Holding(u)' <=> u = th
  BY <1>1, <1>8 DEF Holding
<1>10. \A n \in DOMAIN names : names[n] \in Made
  BY DEF SerialInv, RegisterInv, OwnInv
<1>11. o.uuid = k /\ o.name = local[th].name
  BY <1>1, <1>2
<1>12. /\ \A i \in Made : objects'[i].uuid = i /\ objects'[i].name \in DOMAIN names /\ i \in DOMAIN actors
       /\ \A n \in DOMAIN names : objects'[names[n]].name = n
       /\ DOMAIN actors \subseteq Made /\ \A u \in DOMAIN actors : actors[u] = u
       /\ freed = {}
  BY <1>1, <1>5, <1>9, <1>10 DEF SerialInv
<1> QED BY <1>1, <1>5, <1>6, <1>7, <1>8, <1>9, <1>11, <1>12 DEF SerialInv

LEMMA EmplaceOne ==
  ASSUME RegisterInv, SerialInv, NEW th \in Thread, Emplace(th)
  PROVE  SerialInv'
<1>1. /\ pc[th] = "emplace" /\ \A u \in Thread \ {th} : pc[u] = "idle"
      /\ \A u \in Thread : pc'[u] = IF u = th THEN "check" ELSE "idle"
      /\ UNCHANGED <<serial, names, objects, local>>
  BY DEF Emplace, Goto, SerialInv, RegisterInv, TypeInv
<1>2. Made' = Made /\ \A u \in Thread : Object(u)' = Object(u) /\ (Holding(u)' <=> Holding(u))
  BY <1>1 DEF Made, Object, Holding
<1>3. Object(th) \in Made /\ objects[Object(th)].uuid = Object(th) /\ Object(th) \notin DOMAIN actors
  BY <1>1 DEF Holding, SerialInv, RegisterInv, TypeInv, OwnInv
<1>4. actors' = SetEntry(actors, Object(th), Object(th)) /\ UNCHANGED freed
  BY <1>3 DEF Emplace
<1>5. DOMAIN actors' = DOMAIN actors \cup {Object(th)} /\ \A u \in DOMAIN actors' : actors'[u] = u
  BY <1>3, <1>4 DEF SetEntry, SerialInv
<1> QED BY <1>1, <1>2, <1>3, <1>4, <1>5 DEF SerialInv

LEMMA CheckNameOne ==
  ASSUME RegisterInv, SerialInv, NEW th \in Thread, CheckName(th)
  PROVE  SerialInv'
<1>1. /\ pc[th] = "check" /\ \A u \in Thread \ {th} : pc[u] = "idle"
      /\ \A u \in Thread \ {th} : pc'[u] = "idle"
      /\ pc'[th] = IF local[th].name \in DOMAIN names THEN "idle" ELSE "bind"
      /\ UNCHANGED <<serial, actors, names, objects, freed, local>>
  BY DEF CheckName, Goto, SerialInv, RegisterInv, TypeInv
<1>2. Made' = Made /\ \A u \in Thread : Object(u)' = Object(u)
  BY <1>1 DEF Made, Object
<1>3. objects[Object(th)].name = local[th].name
  BY <1>1 DEF Holding, SerialInv
<1>4. \A i \in Made : (\A u \in Thread : Holding(u)' => Object(u)' # i) => objects[i].name \in DOMAIN names
  <2> SUFFICES ASSUME NEW i \in Made, \A u \in Thread : Holding(u)' => Object(u)' # i
               PROVE  objects[i].name \in DOMAIN names
    OBVIOUS
  <2>1. CASE i = Object(th)
    BY <1>1, <1>2, <1>3, <2>1 DEF Holding
  <2>2. CASE i # Object(th)
    BY <1>1, <2>2 DEF Holding, SerialInv
  <2> QED BY <2>1, <2>2
<1> QED BY <1>1, <1>2, <1>3, <1>4 DEF SerialInv, Holding

LEMMA BindOne ==
  ASSUME RegisterInv, SerialInv, NEW th \in Thread, Bind(th)
  PROVE  /\ SerialInv'
         /\ local[th].name \in Name \ DOMAIN names
         /\ Object(th) \in 1..MaxCalls
         /\ \A n \in DOMAIN names : ActorCalled(n) # Object(th)
         /\ DOMAIN names' = DOMAIN names \cup {local[th].name}
         /\ \A n \in DOMAIN names' :
              ActorCalled(n)' = IF n = local[th].name THEN Object(th) ELSE ActorCalled(n)
<1>1. /\ pc[th] = "bind" /\ \A u \in Thread \ {th} : pc[u] = "idle"
      /\ \A u \in Thread : pc'[u] = "idle"
      /\ UNCHANGED <<serial, actors, objects, freed, local>>
  BY DEF Bind, Goto, SerialInv, RegisterInv, TypeInv
<1>2. Made' = Made /\ \A u \in Thread : Object(u)' = Object(u) /\ ~Holding(u)'
  BY <1>1 DEF Made, Object, Holding
<1>3. Object(th) \in Made /\ objects[Object(th)].uuid = Object(th)
      /\ objects[Object(th)].name = local[th].name /\ local[th].name \notin DOMAIN names
      /\ local[th].name \in Name
  BY <1>1 DEF Holding, SerialInv, RegisterInv, TypeInv
<1>4. names' = SetEntry(names, local[th].name, Object(th))
  BY <1>3 DEF Bind
<1>5. DOMAIN names' = DOMAIN names \cup {local[th].name}
      /\ names'[local[th].name] = Object(th)
      /\ \A n \in DOMAIN names : names'[n] = names[n]
  BY <1>3, <1>4 DEF SetEntry
<1>6. \A i \in Made : objects[i].name \in DOMAIN names'
  <2> SUFFICES ASSUME NEW i \in Made PROVE objects[i].name \in DOMAIN names'
    OBVIOUS
  <2>1. CASE i = Object(th)
    BY <1>3, <1>5, <2>1
  <2>2. CASE i # Object(th)
    <3>1. \A u \in Thread : Holding(u) => Object(u) # i
      BY <1>1, <2>2 DEF Holding
    <3> QED BY <1>5, <3>1 DEF SerialInv
  <2> QED BY <2>1, <2>2
<1>7. SerialInv'
  BY <1>1, <1>2, <1>3, <1>5, <1>6 DEF SerialInv
<1>8. Object(th) \in 1..MaxCalls
  BY <1>3, RegisterAssumption DEF SerialInv, Made, RegisterInv, TypeInv
<1>9. Object(th) \in DOMAIN actors
  BY <1>1, <1>3 DEF SerialInv
<1>10. \A n \in DOMAIN names : names[n] \in DOMAIN actors /\ ActorCalled(n) = names[n]
  BY DEF SerialInv, RegisterInv, OwnInv, ActorCalled
<1>11. \A n \in DOMAIN names : ActorCalled(n) # Object(th)
  BY <1>3, <1>10 DEF SerialInv
<1>12. \A n \in DOMAIN names' :
          ActorCalled(n)' = IF n = local[th].name THEN Object(th) ELSE ActorCalled(n)
  BY <1>1, <1>3, <1>5, <1>9, <1>10 DEF ActorCalled, SerialInv
<1> QED BY <1>3, <1>5, <1>7, <1>8, <1>11, <1>12

LEMMA SerialStep == RegisterInv /\ OneByOne /\ [RegisterNext]_registerVars => OneByOne'
<1> SUFFICES ASSUME RegisterInv, OneByOne, [RegisterNext]_registerVars, ~overlapped'
             PROVE  SerialInv'
  BY DEF OneByOne
<1>1. CASE UNCHANGED registerVars
  BY <1>1 DEF registerVars, OneByOne, SerialInv, Holding, Object, Made
<1>2. CASE RegisterNext
  <2>1. ~overlapped
    BY <1>2 DEF RegisterNext, ReadSerial, WriteSerial, Emplace, CheckName, Bind
  <2>2. SerialInv
    BY <2>1 DEF OneByOne
  <2> QED BY <1>2, <2>2, ReadSerialOne, WriteSerialOne, EmplaceOne, CheckNameOne, BindOne
          DEF RegisterNext
<1> QED BY <1>1, <1>2

(* For any number of threads, names and calls: as long as no two calls of  *)
(* Make overlap, no actor is deleted, a name leads to the actor made for   *)
(* it, and between calls every actor made, refused or not, is owned.       *)
THEOREM HarmTakesOverlap == RegisterSpec => []HarmNeedsOverlap
<1>1. RegisterInv /\ OneByOne => HarmNeedsOverlap
  <2> SUFFICES ASSUME RegisterInv, SerialInv
               PROVE  /\ freed = {}
                      /\ \A n \in DOMAIN names : objects[ActorCalled(n)].name = n
                      /\ Calling = {} =>
                           \A i \in 1..Len(objects) :
                             objects[i].name \in DOMAIN names /\ actors[objects[i].uuid] = i
    BY DEF OneByOne, HarmNeedsOverlap
  <2>1. \A n \in DOMAIN names : objects[ActorCalled(n)].name = n
    BY DEF SerialInv, RegisterInv, OwnInv, ActorCalled
  <2>2. ASSUME Calling = {}, NEW i \in Made
        PROVE  objects[i].name \in DOMAIN names /\ actors[objects[i].uuid] = i
    <3>1. \A th \in Thread : pc[th] = "idle"
      BY <2>2 DEF Calling
    <3> QED BY <2>2, <3>1 DEF SerialInv, Holding
  <2> QED BY <2>1, <2>2 DEF SerialInv, Made
<1> QED BY <1>1, InvInit, InvStep, SerialInit, SerialStep, PTL DEF RegisterSpec

(* The register implements the directory until calls of Make overlap: the  *)
(* last step of a call that is not refused enters a new name for an actor  *)
(* no other name leads to, and every other step is a stutter.              *)
THEOREM ImplementsDirectory == RegisterSpec => DirectoryKept
<1>1. RegisterInit => Abstract!DirectoryInit
  <2> SUFFICES ASSUME RegisterInit PROVE Abstract!DirectoryInit
    OBVIOUS
  <2>1. DOMAIN names = {}
    BY DEF RegisterInit
  <2> QED BY <2>1 DEF Abstract!DirectoryInit
<1>2. RegisterInv /\ OneByOne /\ [RegisterNext]_registerVars
        => [overlapped' \/ Abstract!DirectoryNext]_(Abstract!directoryVars)
  <2> SUFFICES ASSUME RegisterInv, OneByOne, [RegisterNext]_registerVars, ~overlapped'
               PROVE  Abstract!DirectoryNext \/ UNCHANGED [n \in DOMAIN names |-> ActorCalled(n)]
    BY DEF Abstract!directoryVars
  <2>1. CASE UNCHANGED <<names, actors>>
    BY <2>1 DEF ActorCalled
  <2>2. CASE UNCHANGED registerVars
    BY <2>1, <2>2 DEF registerVars
  <2>3. CASE RegisterNext
    <3>a. ~overlapped
      BY <2>3 DEF RegisterNext, ReadSerial, WriteSerial, Emplace, CheckName, Bind
    <3>1. SerialInv
      BY <3>a DEF OneByOne
    <3>2. PICK th \in Thread :
            \/ \E name \in Name : ReadSerial(th, name)
            \/ WriteSerial(th) \/ Emplace(th) \/ CheckName(th) \/ Bind(th)
      BY <2>3 DEF RegisterNext
    <3>3. CASE (\E name \in Name : ReadSerial(th, name)) \/ WriteSerial(th) \/ CheckName(th)
      BY <2>1, <3>3 DEF ReadSerial, WriteSerial, CheckName
    <3>4. CASE Emplace(th)
      <4>1. \A n \in DOMAIN names : names[n] \in DOMAIN actors
        BY DEF RegisterInv, OwnInv
      <4>2. \A u \in DOMAIN actors : actors'[u] = actors[u]
        BY <3>4 DEF Emplace, SetEntry
      <4>3. UNCHANGED names
        BY <3>4 DEF Emplace
      <4> QED BY <4>1, <4>2, <4>3 DEF ActorCalled
    <3>5. CASE Bind(th)
      <4>1. Abstract!Enter(local[th].name, Object(th))
        BY <3>1, <3>5, BindOne DEF Abstract!Enter
      <4>2. local[th].name \in Name /\ Object(th) \in 1..MaxCalls
        BY <3>1, <3>5, BindOne
      <4> QED BY <4>1, <4>2 DEF Abstract!DirectoryNext
    <3> QED BY <3>2, <3>3, <3>4, <3>5
  <2> QED BY <2>2, <2>3
<1> QED BY <1>1, <1>2, InvInit, InvStep, SerialInit, SerialStep, PTL DEF RegisterSpec, DirectoryKept

=============================================================================
