---------------------------- MODULE ActorRegister ----------------------------
(***************************************************************************)
(* events::ActorRegister::Make (events/actor-register.h), called by the    *)
(* CreateVM RPCs that gRPC serves on threads of its own, at the grain of   *)
(* its accesses to what all calls share: the static counter of             *)
(* UUID::Generate() (util/types.h), actors_ and actors_names_.  Nothing    *)
(* locks them.  An operation of a container is one step here: that two of  *)
(* them at once may also corrupt the container is left out.                *)
(***************************************************************************)
EXTENDS Integers, FiniteSets, Sequences

CONSTANTS
  Thread,    \* the threads of the RPC server
  Name,      \* the names clients ask for
  Modulus,   \* the values of the counter, 2^32 of them in the program
  NoName,    \* no name
  MaxCalls   \* bound: calls of Make

(* The counter does not come round: uint32_t counts further than the       *)
(* actors of a simulation.                                                 *)
ASSUME RegisterAssumption ==
  Modulus \in Nat /\ MaxCalls \in Nat /\ MaxCalls < Modulus

VARIABLES
  serial,      \* UUID::Generate()'s counter
  actors,      \* actors_: UUID -> the object owned
  names,       \* actors_names_: name -> UUID
  objects,     \* the UUID and the name of every actor made, in order
  freed,       \* the objects that have been deleted
  pc,          \* where each thread is in Make
  local,       \* what it holds: the name, the counter as read, the object
  overlapped   \* two calls were in Make at once

registerVars == <<serial, actors, names, objects, freed, pc, local, overlapped>>

RegisterInit ==
  /\ serial = 1
  /\ actors = << >> /\ names = << >>
  /\ objects = << >> /\ freed = {}
  /\ pc = [th \in Thread |-> "idle"]
  /\ local = [th \in Thread |-> [name |-> NoName, read |-> 0, object |-> 0]]
  /\ overlapped = FALSE

Calling == {th \in Thread : pc[th] # "idle"}

Object(th) == local[th].object

SetEntry(map, key, value) ==
  [k \in DOMAIN map \cup {key} |-> IF k = key THEN value ELSE map[k]]

Goto(th, place) == pc' = [pc EXCEPT ![th] = place]

-----------------------------------------------------------------------------
(* Make(name) is called, and the new actor reads the counter. *)
ReadSerial(th, name) ==
  /\ pc[th] = "idle"
  /\ Len(objects) + Cardinality({u \in Thread : pc[u] = "increment"}) < MaxCalls
  /\ overlapped' = (overlapped \/ Calling # {})
  /\ local' = [local EXCEPT ![th] = [name |-> name, read |-> serial, object |-> 0]]
  /\ Goto(th, "increment")
  /\ UNCHANGED <<serial, actors, names, objects, freed>>

(* A faulty variant of WriteSerial: the counter stays where it was. *)
WriteSerialBack(th) ==
  /\ pc[th] = "increment"
  /\ serial' = local[th].read
  /\ objects' = Append(objects, [uuid |-> local[th].read, name |-> local[th].name])
  /\ local' = [local EXCEPT ![th].object = Len(objects) + 1]
  /\ Goto(th, "emplace")
  /\ UNCHANGED <<actors, names, freed, overlapped>>

(* serial++ is a read and a write: the actor has the number that was read. *)
WriteSerial(th) ==
  /\ pc[th] = "increment"
  /\ serial' = (local[th].read + 1) % Modulus
  /\ objects' = Append(objects, [uuid |-> local[th].read, name |-> local[th].name])
  /\ local' = [local EXCEPT ![th].object = Len(objects) + 1]
  /\ Goto(th, "emplace")
  /\ UNCHANGED <<actors, names, freed, overlapped>>

(* A faulty variant of Emplace: the name is entered before the actor.      *)
EmplaceLate(th) ==
  /\ pc[th] = "emplace"
  /\ names' = SetEntry(names, local[th].name, objects[Object(th)].uuid)
  /\ Goto(th, "check")
  /\ UNCHANGED <<serial, actors, objects, freed, local, overlapped>>

(* emplace() leaves an entry that is there alone, and deletes the actor it *)
(* was given; the call goes on with the pointer it has.                    *)
Emplace(th) ==
  /\ pc[th] = "emplace"
  /\ \/ /\ objects[Object(th)].uuid \notin DOMAIN actors
        /\ actors' = SetEntry(actors, objects[Object(th)].uuid, Object(th))
        /\ UNCHANGED freed
     \/ /\ objects[Object(th)].uuid \in DOMAIN actors
        /\ freed' = freed \cup {Object(th)}
        /\ UNCHANGED actors
  /\ Goto(th, "check")
  /\ UNCHANGED <<serial, names, objects, local, overlapped>>

(* A faulty variant of CheckName: a taken name is not refused. *)
CheckNoName(th) ==
  /\ pc[th] = "check"
  /\ Goto(th, "bind")
  /\ UNCHANGED <<serial, actors, names, objects, freed, local, overlapped>>

(* A name that is taken is refused by an exception; the actor stays.       *)
CheckName(th) ==
  /\ pc[th] = "check"
  /\ Goto(th, IF local[th].name \in DOMAIN names THEN "idle" ELSE "bind")
  /\ UNCHANGED <<serial, actors, names, objects, freed, local, overlapped>>

(* The last step of Make; the caller uses the actor from here on. *)
Bind(th) ==
  /\ pc[th] = "bind"
  /\ names' = SetEntry(names, local[th].name, objects[Object(th)].uuid)
  /\ Goto(th, "idle")
  /\ UNCHANGED <<serial, actors, objects, freed, local, overlapped>>

RegisterNext ==
  \E th \in Thread :
    \/ \E name \in Name : ReadSerial(th, name)
    \/ WriteSerial(th)
    \/ Emplace(th)
    \/ CheckName(th)
    \/ Bind(th)

RegisterSpec == RegisterInit /\ [][RegisterNext]_registerVars

-----------------------------------------------------------------------------
(* GetActor(GetActorHandle(n)): the object the name n leads to. *)
ActorCalled(n) == actors[names[n]]

(* However calls overlap, a name that has been entered leads to an actor   *)
(* the register owns: no at() in GetActor throws for it, and no deleted    *)
(* object is reached by a name.                                            *)
NamesLeadToActors ==
  \A n \in DOMAIN names : names[n] \in DOMAIN actors /\ ActorCalled(n) \notin freed

(* What goes wrong takes two calls at once: while calls came one by one,   *)
(* no actor has been deleted under its caller, every name leads to the     *)
(* actor made for it, and a refused call leaves its actor behind without a *)
(* name to reach it by, and nothing else (Make emplaces before it checks). *)
HarmNeedsOverlap ==
  overlapped \/
    /\ freed = {}
    /\ \A n \in DOMAIN names : objects[ActorCalled(n)].name = n
    /\ Calling = {} =>
         \A i \in 1..Len(objects) :
           objects[i].name \in DOMAIN names /\ actors[objects[i].uuid] = i

(* Until two calls overlap, the register implements the directory: a       *)
(* refused call and the actor it leaves behind do not show in it.          *)
Abstract == INSTANCE Directory WITH
  Actor <- 1..MaxCalls,
  directory <- [n \in DOMAIN names |-> ActorCalled(n)]

DirectoryKept ==
  /\ Abstract!DirectoryInit
  /\ [][overlapped' \/ Abstract!DirectoryNext]_(Abstract!directoryVars)

=============================================================================
