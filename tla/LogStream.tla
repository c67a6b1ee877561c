------------------------------- MODULE LogStream -------------------------------
(***************************************************************************)
(* How log lines reach the clients: SimulatorLogger's callbacks_           *)
(* (util/logger.h), the SimulateAll RPC that pushes one and pops one       *)
(* around the simulation (core/rpc-service.cpp), and the client's reader   *)
(* of the stream (client/rpc-client.cpp).                                  *)
(*                                                                         *)
(* The console and the CSV file, which the logger serves before the        *)
(* callbacks and which nobody reads back, are left out.  A line has no     *)
(* text or time here: they travel unchanged.                               *)
(***************************************************************************)
EXTENDS Integers, Sequences, FiniteSets, SequencesExt

CONSTANTS
  RPC,       \* SimulateAll calls
  Line,      \* lines the program logs: severity, caller_type and caller_name
  MaxLines   \* bound: lines logged in a behaviour

LogSeverity == {"kError", "kInfo", "kDebug"}

ASSUME LogAssumption ==
  /\ \A line \in Line :
       /\ DOMAIN line = {"severity", "caller_type", "caller_name"}
       /\ line.severity \in LogSeverity
  /\ MaxLines \in Nat

VARIABLES
  callbacks,   \* callbacks_: the call whose writer each callback writes to
  serving,     \* how far the engine is with each call
  stream,      \* messages written and not yet read, per call
  gone,        \* calls whose client has lost the connection
  shown,       \* the lines each client has logged on its own console
  finished,    \* calls whose client has seen the end of the stream
  broken,      \* undefined behaviour has occurred
  logged,      \* history: the lines logged while a call was served
  overlapped   \* history: calls served while another was

logVars == <<callbacks, serving, stream, gone, shown, finished, broken, logged, overlapped>>

LogInit ==
  /\ callbacks = << >>
  /\ serving = [r \in RPC |-> "no"]
  /\ stream = [r \in RPC |-> << >>]
  /\ gone = {}
  /\ shown = [r \in RPC |-> << >>]
  /\ finished = {}
  /\ broken = FALSE
  /\ logged = [r \in RPC |-> << >>]
  /\ overlapped = {}

Simulating == {r \in RPC : serving[r] = "simulating"}

-----------------------------------------------------------------------------
(* The severity mappings of the two sides. *)
ToProto == [kError |-> "ERROR_LOG_SEVERITY", kInfo |-> "INFO_LOG_SEVERITY",
            kDebug |-> "DEBUG_LOG_SEVERITY"]

FromProto == [ERROR_LOG_SEVERITY |-> "kError", INFO_LOG_SEVERITY |-> "kInfo",
              DEBUG_LOG_SEVERITY |-> "kDebug"]

(* The message the callback makes of a line: the caller's type is sent for *)
(* its name as well.                                                       *)
LogMessage(line) ==
  [severity |-> ToProto[line.severity], caller_type |-> line.caller_type,
   caller_name |-> line.caller_type]

(* The line the client logs for a message. *)
Received(message) == [message EXCEPT !.severity = FromProto[@]]

-----------------------------------------------------------------------------
(* SimulateAll begins: its callback is pushed. *)
PushLoggingCallback(r) ==
  /\ ~broken
  /\ serving[r] = "no"
  /\ serving' = [serving EXCEPT ![r] = "simulating"]
  /\ callbacks' = Append(callbacks, r)
  /\ overlapped' = IF Simulating = {} THEN overlapped ELSE overlapped \cup Simulating \cup {r}
  /\ UNCHANGED <<stream, gone, shown, finished, broken, logged>>

Total == FoldFunctionOnSet(LAMBDA lines, sum : Len(lines) + sum, 0, logged, RPC)

(* A faulty variant of Log: a line is dropped if the one before it has not *)
(* been read.                                                              *)
LogWhenRead(line) ==
  /\ ~broken
  /\ Simulating # {} /\ Total < MaxLines
  /\ \A i \in DOMAIN callbacks : serving[callbacks[i]] = "simulating"
  /\ stream' = [r \in RPC |->
                  IF r \in ToSet(callbacks) \ gone /\ stream[r] = << >>
                  THEN Append(stream[r], LogMessage(line)) ELSE stream[r]]
  /\ logged' = [r \in RPC |-> IF r \in Simulating THEN Append(logged[r], line) ELSE logged[r]]
  /\ UNCHANGED <<callbacks, serving, gone, shown, finished, broken, overlapped>>

(* Any thread logs: every callback writes to its call's stream.  Writing   *)
(* for a client that is gone fails unnoticed.                              *)
Log(line) ==
  /\ ~broken
  /\ Simulating # {} /\ Total < MaxLines
  /\ \A i \in DOMAIN callbacks : serving[callbacks[i]] = "simulating"
  /\ stream' = [r \in RPC |->
                  IF r \in ToSet(callbacks) \ gone
                  THEN Append(stream[r], LogMessage(line)) ELSE stream[r]]
  /\ logged' = [r \in RPC |-> IF r \in Simulating THEN Append(logged[r], line) ELSE logged[r]]
  /\ UNCHANGED <<callbacks, serving, gone, shown, finished, broken, overlapped>>

(* A callback whose call has returned holds a reference to a writer that   *)
(* is no more.                                                             *)
LogBreaks ==
  /\ ~broken
  /\ \E i \in DOMAIN callbacks : serving[callbacks[i]] = "returned"
  /\ broken' = TRUE
  /\ UNCHANGED <<callbacks, serving, stream, gone, shown, finished, logged, overlapped>>

(* A faulty variant of PopLoggingCallback: the callback stays. *)
PopNothing(r) ==
  /\ ~broken
  /\ serving[r] = "simulating"
  /\ serving' = [serving EXCEPT ![r] = "returned"]
  /\ UNCHANGED <<callbacks, stream, gone, shown, finished, broken, logged, overlapped>>

(* SimulateAll returns; the callback pushed last is popped, whosever it is. *)
PopLoggingCallback(r) ==
  /\ ~broken
  /\ serving[r] = "simulating"
  /\ serving' = [serving EXCEPT ![r] = "returned"]
  /\ IF callbacks = << >>
     THEN broken' = TRUE /\ UNCHANGED callbacks
     ELSE callbacks' = Front(callbacks) /\ UNCHANGED broken
  /\ UNCHANGED <<stream, gone, shown, finished, logged, overlapped>>

-----------------------------------------------------------------------------
(* The client's loop over reader->Read and its end. *)
Read(r) ==
  /\ r \notin gone
  /\ stream[r] # << >>
  /\ shown' = [shown EXCEPT ![r] = Append(@, Received(Head(stream[r])))]
  /\ stream' = [stream EXCEPT ![r] = Tail(@)]
  /\ UNCHANGED <<callbacks, serving, gone, finished, broken, logged, overlapped>>

Finish(r) ==
  /\ r \notin finished
  /\ r \in gone \/ (serving[r] = "returned" /\ stream[r] = << >>)
  /\ finished' = finished \cup {r}
  /\ UNCHANGED <<callbacks, serving, stream, gone, shown, broken, logged, overlapped>>

(* The connection breaks: what was not read is lost, and the engine goes   *)
(* on simulating.                                                          *)
Disconnect(r) ==
  /\ serving[r] = "simulating" /\ r \notin gone
  /\ gone' = gone \cup {r}
  /\ stream' = [stream EXCEPT ![r] = << >>]
  /\ UNCHANGED <<callbacks, serving, shown, finished, broken, logged, overlapped>>

LogNext ==
  \/ \E r \in RPC : PushLoggingCallback(r) \/ PopLoggingCallback(r)
  \/ \E r \in RPC : Read(r) \/ Finish(r) \/ Disconnect(r)
  \/ \E line \in Line : Log(line)
  \/ LogBreaks

LogSpec == LogInit /\ [][LogNext]_logVars

-----------------------------------------------------------------------------
Sent(line) == [line EXCEPT !.caller_name = line.caller_type]

(* PopLoggingCallback takes the callback pushed last, whosever it is.  A   *)
(* call that no other overlapped has the stack to itself; a callback whose *)
(* call has returned, and a use of it, there are only after an overlap,    *)
(* and not once nobody is served any more: the stack is never popped when  *)
(* empty, and none is left for the calls to come.                          *)
WrongCallbackForOverlappedOnly ==
  /\ \A r \in Simulating \ overlapped : callbacks = <<r>>
  /\ \A i \in DOMAIN callbacks :
       serving[callbacks[i]] = "returned" => callbacks[i] \in overlapped
  /\ broken => overlapped # {}
  /\ Len(callbacks) = Cardinality(Simulating)

(* A call that no other overlapped sends its client every line of its run, *)
(* in order, once, and no other line; what a broken connection cuts off is *)
(* the end.  A client that keeps its connection has seen all of it when it *)
(* prompts for the next command.                                           *)
ClientSeesItsRun ==
  \A r \in RPC \ overlapped :
    LET lines == [i \in DOMAIN logged[r] |-> Sent(logged[r][i])]
    IN  /\ IsPrefix(shown[r], lines)
        /\ r \notin gone =>
             shown[r] \o [i \in DOMAIN stream[r] |-> Received(stream[r][i])] = lines
        /\ r \in finished \ gone => shown[r] = lines

=============================================================================
