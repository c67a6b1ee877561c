-------------------------------- MODULE Console --------------------------------
(***************************************************************************)
(* The console clients (client/cli.cpp, client/rpc-client.cpp): each       *)
(* prompts, sends the command it reads as an RPC and, if that is answered  *)
(* OK, calls SimulateAll and shows the log until the stream ends.  Of the  *)
(* engine only the number of accepted commands whose events still wait is  *)
(* kept.  Replies and streams may be lost with the connection; gRPC then   *)
(* gives the client an error status, and nothing is tried again.           *)
(***************************************************************************)
EXTENDS Integers, FiniteSets

CONSTANTS
  Client,   \* console clients of one engine
  MaxLost,  \* bound: replies and streams lost in a behaviour
  MaxWait   \* bound: commands waiting in the engine

ASSUME ConsoleAssumption == MaxLost \in Nat /\ MaxWait \in Nat \ {0}

VARIABLES
  at,       \* where each client is: "prompt", "calling", "answered",
            \* "simulate", "reading" or "left"
  line,     \* the line each client read last
  waiting,  \* commands accepted and not yet simulated
  orphans,  \* SimulateAlls the engine is serving for a stream that broke
  stray,    \* history: of the waiting ones, those whose client gave up
  lost      \* history: connections lost

consoleVars == <<at, line, waiting, orphans, stray, lost>>

(* The first words ProcessInput knows; a create-vm line may lack numbers.  *)
ResourceActions == {"boot", "shutdown", "reboot"}
VMActions == {"provision-vm", "stop-vm", "delete-vm"}
Commands == ResourceActions \cup VMActions \cup {"create-vm"}
Unsent == {"create-vm without its numbers", "quit", "help"}
Lines == Commands \cup Unsent \cup {"", "interrupt", "end_of_file"}

ConsoleInit ==
  /\ at = [c \in Client |-> "prompt"]
  /\ line = [c \in Client |-> ""]
  /\ waiting = 0
  /\ orphans = 0
  /\ stray = 0
  /\ lost = 0

Goes(c, from, to) == at[c] = from /\ at' = [at EXCEPT ![c] = to]

-----------------------------------------------------------------------------
(* CLI::RunLoop and ProcessInput.  Ctrl-C (a null line with EAGAIN) and    *)
(* the empty line prompt again, the end of file leaves the loop.           *)
Reads(c, l) == line' = [line EXCEPT ![c] = l] /\ UNCHANGED <<waiting, orphans, stray, lost>>

PromptAgain(c, l) ==
  /\ l \in {"", "interrupt"} \cup Unsent
  /\ Goes(c, "prompt", "prompt")
  /\ Reads(c, l)

Leave(c) == Goes(c, "prompt", "left") /\ Reads(c, "end_of_file")

Call(c, l) ==
  /\ l \in Commands
  /\ Goes(c, "prompt", "calling")
  /\ Reads(c, l)

-----------------------------------------------------------------------------
(* CallResourceAction, CallVMAction, CallCreateVM and what the engine      *)
(* makes of the call.                                                      *)
Accept(c) ==
  /\ waiting < MaxWait
  /\ Goes(c, "calling", "answered")
  /\ waiting' = waiting + 1
  /\ UNCHANGED <<line, orphans, stray, lost>>

Refuse(c) ==
  /\ Goes(c, "calling", "prompt")
  /\ UNCHANGED <<line, waiting, orphans, stray, lost>>

(* A faulty variant of StatusOK: the client does not go on to SimulateAll. *)
StatusOKOnly(c) ==
  /\ Goes(c, "answered", "prompt")
  /\ UNCHANGED <<line, waiting, orphans, stray, lost>>

StatusOK(c) ==
  /\ Goes(c, "answered", "simulate")
  /\ UNCHANGED <<line, waiting, orphans, stray, lost>>

(* The call fails before the engine has seen it, or after.  A command that *)
(* another client's simulation has meanwhile handled does not stay behind. *)
LoseCall(c) ==
  /\ lost < MaxLost
  /\ lost' = lost + 1
  /\ at[c] \in {"calling", "answered", "simulate"}
  /\ at' = [at EXCEPT ![c] = "prompt"]
  /\ stray' = IF at[c] # "calling" /\ stray < waiting THEN stray + 1 ELSE stray
  /\ UNCHANGED <<line, waiting, orphans>>

-----------------------------------------------------------------------------
(* CallSimulateAll. *)
CallSimulateAll(c) ==
  /\ Goes(c, "simulate", "reading")
  /\ UNCHANGED <<line, waiting, orphans, stray, lost>>

Serving == orphans > 0 \/ \E c \in Client : at[c] = "reading"

(* EventLoop::SimulateAll handles all that waits, whoever sent it. *)
Simulate ==
  /\ Serving
  /\ waiting > 0
  /\ waiting' = 0
  /\ stray' = 0
  /\ UNCHANGED <<at, line, orphans, lost>>

(* The engine's call returns when nothing waits; the reader sees the end.  *)
SimulateAllReturns(c) ==
  /\ waiting = 0
  /\ Goes(c, "reading", "prompt")
  /\ UNCHANGED <<line, waiting, orphans, stray, lost>>

OrphanReturns ==
  /\ waiting = 0
  /\ orphans > 0
  /\ orphans' = orphans - 1
  /\ UNCHANGED <<at, line, waiting, stray, lost>>

(* The stream breaks; the engine does not look at writer->Write's result.  *)
LoseStream(c) ==
  /\ lost < MaxLost
  /\ lost' = lost + 1
  /\ Goes(c, "reading", "prompt")
  /\ orphans' = orphans + 1
  /\ UNCHANGED <<line, waiting, stray>>

ConsoleNext ==
  \/ \E c \in Client :
       \/ \E l \in Lines : PromptAgain(c, l) \/ Call(c, l)
       \/ Leave(c)
       \/ Accept(c) \/ Refuse(c) \/ StatusOK(c) \/ LoseCall(c)
       \/ CallSimulateAll(c) \/ SimulateAllReturns(c) \/ LoseStream(c)
  \/ Simulate \/ OrphanReturns

(* Programs go on; what a user types, if anything, is left open. *)
ConsoleSpec ==
  /\ ConsoleInit
  /\ [][ConsoleNext]_consoleVars
  /\ WF_consoleVars(Simulate)
  /\ \A c \in Client :
       /\ WF_consoleVars(StatusOK(c) \/ CallSimulateAll(c))
       /\ WF_consoleVars(SimulateAllReturns(c))

-----------------------------------------------------------------------------
(* Between two simulations at most one command per client piles up, and    *)
(* one more for each connection that was lost: what MaxBatch of Session    *)
(* stands for.                                                             *)
BatchIsBounded ==
  waiting <=
    stray + orphans + Cardinality({c \in Client : at[c] \in {"answered", "simulate", "reading"}})

(* A command that the engine accepted is simulated, unless a connection is *)
(* lost: every client that is answered OK starts a simulation, and one     *)
(* client's simulation handles the others' commands too.                   *)
AcceptedIsSimulated == waiting > 0 ~> (waiting = 0 \/ lost > 0)

=============================================================================
