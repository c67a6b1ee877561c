------------------------------- MODULE Session -------------------------------
(***************************************************************************)
(* How clients drive the engine (core/rpc-service.cpp, core/world.cpp,     *)
(* client/rpc-client.cpp): an RPC inserts one event at the current time    *)
(* and returns; a later SimulateAll RPC runs the loop until its queue is   *)
(* empty.  RPCs are serialised here: one is served only when no SimulateAll*)
(* is running.  The console client calls SimulateAll after every accepted  *)
(* command, which is MaxBatch = 1; several clients, or a program using the *)
(* RPC interface directly, may issue several commands before anyone calls  *)
(* SimulateAll.                                                            *)
(***************************************************************************)
EXTENDS EventQueue

CONSTANTS
  MaxCalls,  \* bound: commands accepted in a behaviour
  MaxBatch   \* commands accepted between two SimulateAll calls

ASSUME SessionAssumption == MaxCalls \in Nat /\ MaxBatch \in Nat \ {0}

VARIABLES
  simulating,  \* an EventLoop::SimulateAll call is in progress
  calls,       \* commands accepted so far
  batch        \* commands accepted since the last SimulateAll

sessionVars == <<simulating, calls, batch>>

SessionInit ==
  /\ simulating = FALSE
  /\ calls = 0
  /\ batch = 0

SessionTypeOK ==
  /\ simulating \in BOOLEAN
  /\ calls \in 0..MaxCalls
  /\ batch \in 0..MaxBatch

(* A command RPC is served. *)
Accept ==
  /\ ~simulating
  /\ calls < MaxCalls
  /\ batch < MaxBatch
  /\ calls' = calls + 1
  /\ batch' = batch + 1
  /\ UNCHANGED simulating

(* It makes one event for the current time and schedules it. *)
Submit(e, immediate) ==
  /\ Accept
  /\ queue' = Insert(queue, now, now, <<e>>, immediate)
  /\ UNCHANGED now

(* A call that counts, but is answered with an error after it has changed  *)
(* something: the client does not go on to SimulateAll.                    *)
Refuse ==
  /\ ~simulating
  /\ calls < MaxCalls
  /\ calls' = calls + 1
  /\ UNCHANGED <<simulating, batch, queue, now>>

(* The SimulateAll RPC: the loop is entered, and left when queue_ is empty. *)
SimulateAll ==
  /\ ~simulating
  /\ batch > 0
  /\ simulating' = TRUE
  /\ UNCHANGED <<calls, batch, queue, now>>

SimulateAllReturns ==
  /\ simulating
  /\ queue = << >>
  /\ simulating' = FALSE
  /\ batch' = 0
  /\ UNCHANGED <<calls, queue, now>>

(* SimulateNextStep is called by the running loop; the rest of the step is *)
(* the handler's.                                                          *)
Running == simulating /\ queue # << >> /\ UNCHANGED sessionVars

=============================================================================
