-------------------------------- MODULE MCWorld --------------------------------
(* A small world for TLC: a cloud of one data center with one server, two  *)
(* VMs, no delays (the program sets none), and choices of requests.        *)
EXTENDS World, TLC

CONSTANTS cloud, dc, s1, v1, v2

MCResource == {cloud, dc, s1}

MCComponents == (cloud :> <<dc>>) @@ (dc :> <<s1>>) @@ (s1 :> << >>)

MCNoDelay == [r \in MCResource |-> 0]

MCRequestsFor(ops, names) == {[op |-> o, name |-> n] : o \in ops, n \in names}

(* What a careful client sends: powering the cloud on and off, and every   *)
(* operation on two VMs.                                                   *)
MCSensible ==
  MCRequestsFor({"kBoot", "kShutdown"}, {cloud})
    \cup MCRequestsFor({"CreateVM", "ProvisionVM", "kStop", "kDelete"}, {v1, v2})

(* Also what clients send who mistake the storage for a VM, or whose VM    *)
(* comes to nothing.  Everything is asked of v1; v2 is created, or half    *)
(* so, and provisioned to interfere.                                       *)
MCBatch ==
  MCRequestsFor({"kBoot", "kShutdown"}, {cloud})
    \cup MCRequestsFor({"CreateVM", "ProvisionVM"}, {v1, v2})
    \cup MCRequestsFor({"kStop", "kDelete"}, {v1})
    \cup MCRequestsFor({"CreateVMFails"}, {v2})
    \cup MCRequestsFor({"kStop"}, {Storage})

=============================================================================
