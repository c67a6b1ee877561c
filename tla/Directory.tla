------------------------------- MODULE Directory -------------------------------
(***************************************************************************)
(* What the actor register promises (events/actor-register.h): "owning all *)
(* IActor objects", and a name that leads to one of them and to the same   *)
(* one for ever.                                                           *)
(***************************************************************************)
CONSTANTS Name, Actor

VARIABLE directory  \* the actor each name given so far leads to

DirectoryInit == directory = << >>

(* A new actor gets a new name, and no other actor's. *)
Enter(n, a) ==
  /\ n \notin DOMAIN directory
  /\ \A m \in DOMAIN directory : directory[m] # a
  /\ directory' = [m \in DOMAIN directory \cup {n} |-> IF m = n THEN a ELSE directory[m]]

DirectoryNext == \E n \in Name, a \in Actor : Enter(n, a)

directoryVars == <<directory>>

DirectorySpec == DirectoryInit /\ [][DirectoryNext]_directoryVars

=============================================================================
