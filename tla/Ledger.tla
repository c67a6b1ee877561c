-------------------------------- MODULE Ledger --------------------------------
(***************************************************************************)
(* What the storage's books (infrastructure/vm-storage.h) and the server   *)
(* that hosts the VMs (infrastructure/server.h) promise those who place    *)
(* VMs, with no event queue and no messages: the stages a VM goes through, *)
(* one at a time, and that none is called hosted which its server does not *)
(* list.                                                                   *)
(***************************************************************************)
CONSTANT VM

VARIABLES
  stage,   \* how far the books are with each VM
  listed,  \* the VMs the server lists
  working  \* the storage has not failed

(* A VM nobody created, one the storage will be told of, the statuses it   *)
(* has on the books, and one that is not on the books any more or never    *)
(* will be.                                                                *)
OnBooks == {"kCreated", "kPending", "kProvisioning", "kHostedVM"}

Stages == {"absent", "announced", "gone"} \cup OnBooks

LedgerInit ==
  /\ stage = [v \in VM |-> "absent"]
  /\ listed = {}
  /\ working = TRUE

Becomes(v, s) == stage' = [stage EXCEPT ![v] = s]

(* A name is given once. *)
Create(v) ==
  /\ stage[v] = "absent"
  /\ Becomes(v, "announced") \/ Becomes(v, "gone")
  /\ UNCHANGED <<listed, working>>

(* The one status after another; the last of them after the server's word. *)
Advance(v) ==
  /\ working
  /\ \/ stage[v] = "announced" /\ Becomes(v, "kCreated")
     \/ stage[v] = "kCreated" /\ Becomes(v, "kPending")
     \/ stage[v] = "kPending" /\ Becomes(v, "kProvisioning")
     \/ stage[v] = "kProvisioning" /\ v \in listed /\ Becomes(v, "kHostedVM")
  /\ UNCHANGED <<listed, working>>

(* The server takes a VM in that the books are placing; a storage that has *)
(* failed does not see to that.  No VM leaves the server.                  *)
List(v) ==
  /\ working => stage[v] = "kProvisioning"
  /\ listed' = listed \cup {v}
  /\ UNCHANGED <<stage, working>>

(* A VM that leaves the books does not come back. *)
Strike(v) ==
  /\ working
  /\ stage[v] \in OnBooks
  /\ Becomes(v, "gone")
  /\ UNCHANGED <<listed, working>>

(* The books of a storage that has failed stay as they are: it does not    *)
(* hear of the VMs announced to it.                                        *)
Fail ==
  /\ working
  /\ working' = FALSE
  /\ UNCHANGED <<stage, listed>>

Miss(v) ==
  /\ ~working
  /\ stage[v] = "announced"
  /\ Becomes(v, "gone")
  /\ UNCHANGED <<listed, working>>

LedgerNext ==
  \/ Fail
  \/ \E v \in VM : Create(v) \/ Advance(v) \/ List(v) \/ Strike(v) \/ Miss(v)

ledgerVars == <<stage, listed, working>>

LedgerSpec == LedgerInit /\ [][LedgerNext]_ledgerVars

=============================================================================
