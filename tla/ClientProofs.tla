------------------------------ MODULE ClientProofs ------------------------------
(***************************************************************************)
(* What the client programs rely on.  For any number of clients and of     *)
(* SimulateAll calls, however they overlap and however many connections    *)
(* are lost: how many commands may wait in the engine when a simulation    *)
(* begins (Console), and what of the engine's log a client gets to see     *)
(* (LogStream).                                                            *)
(*                                                                         *)
(* For every word size, every server, every set of VMs and all their       *)
(* demands (VMWorkload): the numbers of a create-vm command reach the VM   *)
(* as they were typed or not at all, a name is taken without a VM exactly  *)
(* when the numbers say so, and the greedy scheduler takes from the server *)
(* what was typed, never more than is left, and turns no VM down that      *)
(* would fit.                                                              *)
(***************************************************************************)
EXTENDS Console, LogStream, VMWorkload, FiniteSetTheorems, SequenceTheorems, TLAPS

(* The clients between the answer OK and the end of their simulation. *)
Busy == {c \in Client : at[c] \in {"answered", "simulate", "reading"}}

ConsolePlace == {"prompt", "calling", "answered", "simulate", "reading", "left"}

(* At most one command waits for each client that is busy, and one for    *)
(* each connection that was lost: with where the clients are this is       *)
(* inductive.                                                              *)
ConsoleInv ==
  /\ at \in [Client -> ConsolePlace]
  /\ waiting \in Nat /\ stray \in Nat /\ orphans \in Nat
  /\ IsFiniteSet(Busy)
  /\ waiting <= stray + orphans + Cardinality(Busy)

(* Moving one client moves no other in or out of Busy. *)
LEMMA BusyMoves ==
  ASSUME ConsoleInv, NEW c \in Client, NEW to \in ConsolePlace,
         at' = [at EXCEPT ![c] = to]
  PROVE  /\ at' \in [Client -> ConsolePlace]
         /\ Busy' = IF to \in {"answered", "simulate", "reading"}
                    THEN Busy \cup {c} ELSE Busy \ {c}
<1>1. at \in [Client -> ConsolePlace]
  BY DEF ConsoleInv
<1>2. at' \in [Client -> ConsolePlace] /\ at'[c] = to
      /\ \A d \in Client : d # c => at'[d] = at[d]
  BY <1>1
<1> QED
  BY <1>2 DEF Busy

(* One client more or less among the busy ones. *)
LEMMA BusyCounts ==
  ASSUME ConsoleInv, NEW c \in Client
  PROVE  /\ Cardinality(Busy) \in Nat
         /\ IsFiniteSet(Busy \cup {c}) /\ IsFiniteSet(Busy \ {c})
         /\ Cardinality(Busy \cup {c}) \in Nat /\ Cardinality(Busy \ {c}) \in Nat
         /\ Cardinality(Busy \cup {c}) =
              IF c \in Busy THEN Cardinality(Busy) ELSE Cardinality(Busy) + 1
         /\ Cardinality(Busy \ {c}) =
              IF c \in Busy THEN Cardinality(Busy) - 1 ELSE Cardinality(Busy)
<1>1. IsFiniteSet(Busy)
  BY DEF ConsoleInv
<1>2. /\ IsFiniteSet(Busy \cup {c})
      /\ Cardinality(Busy \cup {c}) =
           IF c \in Busy THEN Cardinality(Busy) ELSE Cardinality(Busy) + 1
  BY <1>1, FS_AddElement
<1>3. /\ IsFiniteSet(Busy \ {c})
      /\ Cardinality(Busy \ {c}) =
           IF c \in Busy THEN Cardinality(Busy) - 1 ELSE Cardinality(Busy)
  BY <1>1, FS_RemoveElement
<1> QED
  BY <1>1, <1>2, <1>3, FS_CardinalityType

(* Nothing waits at the beginning. *)
LEMMA ConsoleInitial == ConsoleInit => ConsoleInv
<1> SUFFICES ASSUME ConsoleInit
             PROVE  ConsoleInv
  OBVIOUS
<1>1. Busy = {}
  BY DEF ConsoleInit, Busy
<1>2. IsFiniteSet({}) /\ Cardinality({}) = 0
  BY FS_EmptySet
<1>3. at \in [Client -> ConsolePlace] /\ waiting = 0 /\ stray = 0 /\ orphans = 0
  BY DEF ConsoleInit, ConsolePlace
<1>4. IsFiniteSet(Busy) /\ 0 <= 0 + 0 + Cardinality(Busy)
  BY <1>1, <1>2
<1> QED
  BY <1>3, <1>4 DEF ConsoleInv

(* A client that moves on without a change in what waits. *)
LEMMA ClientStep ==
  ASSUME ConsoleInv, NEW c \in Client,
         \/ \E l \in Lines : PromptAgain(c, l) \/ Call(c, l)
         \/ Leave(c) \/ Accept(c) \/ Refuse(c) \/ StatusOK(c) \/ LoseCall(c)
         \/ CallSimulateAll(c) \/ SimulateAllReturns(c) \/ LoseStream(c)
  PROVE  ConsoleInv'
<1> DEFINE n == Cardinality(Busy)
<1>1. /\ waiting \in Nat /\ stray \in Nat /\ orphans \in Nat
      /\ waiting <= stray + orphans + n
  BY DEF ConsoleInv
<1>2. n \in Nat
  BY BusyCounts
<1>3. c \in Busy <=> at[c] \in {"answered", "simulate", "reading"}
  BY DEF Busy
<1>4. ASSUME NEW to \in ConsolePlace, at' = [at EXCEPT ![c] = to]
      PROVE  /\ at' \in [Client -> ConsolePlace]
             /\ IsFiniteSet(Busy') /\ Cardinality(Busy') \in Nat
             /\ Cardinality(Busy') =
                  IF to \in {"answered", "simulate", "reading"}
                  THEN IF c \in Busy THEN n ELSE n + 1
                  ELSE IF c \in Busy THEN n - 1 ELSE n
  <2>1. /\ at' \in [Client -> ConsolePlace]
        /\ Busy' = IF to \in {"answered", "simulate", "reading"}
                   THEN Busy \cup {c} ELSE Busy \ {c}
    BY <1>4, BusyMoves
  <2> QED
    BY <2>1, BusyCounts
<1> HIDE DEF n
<1>5. ASSUME at[c] \notin {"answered", "simulate", "reading"},
             NEW to \in {"prompt", "calling", "left"}, at' = [at EXCEPT ![c] = to],
             UNCHANGED <<waiting, orphans>>, stray' = stray
      PROVE  ConsoleInv'
  <2>1. /\ at' \in [Client -> ConsolePlace] /\ IsFiniteSet(Busy')
        /\ Cardinality(Busy') = n
    BY <1>3, <1>4, <1>5 DEF ConsolePlace
  <2> QED
    BY <1>1, <1>5, <2>1 DEF ConsoleInv
<1>6. ASSUME NEW l \in Lines, PromptAgain(c, l) \/ Call(c, l) \/ Leave(c)
      PROVE  ConsoleInv'
  <2>1. PICK to \in {"prompt", "calling", "left"} : Goes(c, "prompt", to)
    BY <1>6, Zenon DEF PromptAgain, Call, Leave
  <2>2. UNCHANGED <<waiting, orphans, stray>>
    BY <1>6, Zenon DEF PromptAgain, Call, Leave, Reads
  <2> QED
    BY <1>5, <2>1, <2>2 DEF Goes
<1>7. CASE Refuse(c)
  BY <1>5, <1>7 DEF Refuse, Goes
<1>8. CASE Accept(c)
  <2>1. /\ at[c] = "calling" /\ at' = [at EXCEPT ![c] = "answered"]
        /\ waiting' = waiting + 1 /\ UNCHANGED <<orphans, stray>>
    BY <1>8 DEF Accept, Goes
  <2>2. /\ at' \in [Client -> ConsolePlace] /\ IsFiniteSet(Busy')
        /\ Cardinality(Busy') = n + 1
    BY <1>3, <1>4, <2>1 DEF ConsolePlace
  <2>3. waiting' <= stray' + orphans' + Cardinality(Busy') /\ waiting' \in Nat
    BY <1>1, <1>2, <2>1, <2>2
  <2> QED
    BY <1>1, <2>1, <2>2, <2>3 DEF ConsoleInv
<1>9. CASE StatusOK(c) \/ CallSimulateAll(c)
  <2>1. PICK to \in {"simulate", "reading"} : at' = [at EXCEPT ![c] = to]
    BY <1>9 DEF StatusOK, CallSimulateAll, Goes
  <2>2. /\ at[c] \in {"answered", "simulate", "reading"}
        /\ UNCHANGED <<waiting, orphans, stray>>
    BY <1>9 DEF StatusOK, CallSimulateAll, Goes
  <2>3. /\ at' \in [Client -> ConsolePlace] /\ IsFiniteSet(Busy')
        /\ Cardinality(Busy') = n
    BY <1>3, <1>4, <2>1, <2>2 DEF ConsolePlace
  <2> QED
    BY <1>1, <2>2, <2>3 DEF ConsoleInv
<1>10. CASE LoseCall(c)
  <2>1. /\ at[c] \in {"calling", "answered", "simulate"}
        /\ at' = [at EXCEPT ![c] = "prompt"]
        /\ stray' = IF at[c] # "calling" /\ stray < waiting THEN stray + 1 ELSE stray
        /\ UNCHANGED <<waiting, orphans>>
    BY <1>10 DEF LoseCall
  <2>2. /\ at' \in [Client -> ConsolePlace] /\ IsFiniteSet(Busy')
        /\ Cardinality(Busy') \in Nat
        /\ Cardinality(Busy') = IF at[c] = "calling" THEN n ELSE n - 1
    BY <1>3, <1>4, <2>1 DEF ConsolePlace
  <2>3. waiting' <= stray' + orphans' + Cardinality(Busy') /\ stray' \in Nat
    <3>1. CASE at[c] = "calling"
      BY <1>1, <1>2, <2>1, <2>2, <3>1
    <3>2. CASE at[c] # "calling" /\ stray < waiting
      BY <1>1, <1>2, <2>1, <2>2, <3>2
    <3>3. CASE at[c] # "calling" /\ ~(stray < waiting)
      BY <1>1, <1>2, <2>1, <2>2, <3>3
    <3> QED
      BY <3>1, <3>2, <3>3
  <2> QED
    BY <1>1, <2>1, <2>2, <2>3 DEF ConsoleInv
<1>11. CASE SimulateAllReturns(c)
  <2>1. /\ waiting = 0 /\ at' = [at EXCEPT ![c] = "prompt"]
        /\ UNCHANGED <<waiting, orphans, stray>>
    BY <1>11 DEF SimulateAllReturns, Goes
  <2>2. /\ at' \in [Client -> ConsolePlace] /\ IsFiniteSet(Busy')
        /\ Cardinality(Busy') \in Nat
    BY <1>4, <2>1 DEF ConsolePlace
  <2>3. waiting' <= stray' + orphans' + Cardinality(Busy')
    BY <1>1, <2>1, <2>2
  <2> QED
    BY <1>1, <2>1, <2>2, <2>3 DEF ConsoleInv
<1>12. CASE LoseStream(c)
  <2>1. /\ at[c] = "reading" /\ at' = [at EXCEPT ![c] = "prompt"]
        /\ orphans' = orphans + 1 /\ UNCHANGED <<waiting, stray>>
    BY <1>12 DEF LoseStream, Goes
  <2>2. /\ at' \in [Client -> ConsolePlace] /\ IsFiniteSet(Busy')
        /\ Cardinality(Busy') \in Nat /\ Cardinality(Busy') = n - 1
    BY <1>3, <1>4, <2>1 DEF ConsolePlace
  <2>3. waiting' <= stray' + orphans' + Cardinality(Busy') /\ orphans' \in Nat
    BY <1>1, <1>2, <2>1, <2>2
  <2> QED
    BY <1>1, <2>1, <2>2, <2>3 DEF ConsoleInv
<1>13. CASE Leave(c)
  <2>1. /\ at[c] = "prompt" /\ at' = [at EXCEPT ![c] = "left"]
        /\ UNCHANGED <<waiting, orphans, stray>>
    BY <1>13 DEF Leave, Goes, Reads
  <2> QED
    BY <1>5, <2>1
<1> QED
  BY <1>6, <1>7, <1>8, <1>9, <1>10, <1>11, <1>12, <1>13

(* A simulation clears what waits; an orphan ends when nothing does. *)
LEMMA EngineStep ==
  ASSUME ConsoleInv, Simulate \/ OrphanReturns
  PROVE  ConsoleInv'
<1>1. /\ waiting \in Nat /\ stray \in Nat /\ orphans \in Nat
      /\ Cardinality(Busy) \in Nat /\ IsFiniteSet(Busy)
      /\ at \in [Client -> ConsolePlace]
  BY FS_CardinalityType DEF ConsoleInv
<1>2. UNCHANGED at /\ Busy' = Busy
  BY DEF Simulate, OrphanReturns, Busy
<1>3. waiting' = 0 /\ stray' \in Nat /\ orphans' \in Nat
  BY <1>1 DEF Simulate, OrphanReturns
<1>4. waiting' <= stray' + orphans' + Cardinality(Busy')
  BY <1>1, <1>2, <1>3
<1> QED
  BY <1>1, <1>2, <1>3, <1>4 DEF ConsoleInv

(* Every step keeps the count. *)
LEMMA ConsoleStep == ConsoleInv /\ [ConsoleNext]_consoleVars => ConsoleInv'
<1> SUFFICES ASSUME ConsoleInv, [ConsoleNext]_consoleVars
             PROVE  ConsoleInv'
  OBVIOUS
<1>1. CASE UNCHANGED consoleVars
  BY <1>1 DEF consoleVars, ConsoleInv, Busy
<1>2. CASE Simulate \/ OrphanReturns
  BY <1>2, EngineStep
<1> QED
  BY <1>1, <1>2, ClientStep DEF ConsoleNext

(* Whatever the clients type and whenever connections break, no more       *)
(* commands wait in the engine than clients are between the answer and the *)
(* end of their SimulateAll, or have lost a connection there               *)
(* (rpc-client.cpp calls SimulateAll after every answer OK).               *)
THEOREM WaitingIsBounded == ConsoleSpec => []BatchIsBounded
<1>1. ConsoleInv => BatchIsBounded
  BY DEF ConsoleInv, BatchIsBounded, Busy
<1> QED
  BY <1>1, ConsoleInitial, ConsoleStep, PTL DEF ConsoleSpec

-----------------------------------------------------------------------------
(* The states of a call, and as many callbacks as there are calls being    *)
(* served: each call pushes one and pops one, if not its own.              *)
CallbackInv ==
  /\ serving \in [RPC -> {"no", "simulating", "returned"}]
  /\ callbacks \in Seq(RPC)
  /\ IsFiniteSet(Simulating)
  /\ Len(callbacks) = Cardinality(Simulating)

(* No call is served at the beginning. *)
LEMMA CallbackInit == LogInit => CallbackInv
<1> SUFFICES ASSUME LogInit PROVE CallbackInv
  OBVIOUS
<1>1. Simulating = {} /\ callbacks = << >>
  BY DEF LogInit, Simulating
<1>2. IsFiniteSet({}) /\ Cardinality({}) = 0
  BY FS_EmptySet
<1> QED BY <1>1, <1>2 DEF CallbackInv, LogInit

(* A call begins: one more is being served. *)
LEMMA PushKeeps ==
  ASSUME CallbackInv, NEW r \in RPC, PushLoggingCallback(r)
  PROVE  CallbackInv'
<1>1. r \notin Simulating /\ Simulating' = Simulating \cup {r}
  BY DEF CallbackInv, PushLoggingCallback, Simulating
<1>2. /\ IsFiniteSet(Simulating \cup {r})
      /\ Cardinality(Simulating \cup {r}) = Cardinality(Simulating) + 1
  BY <1>1, FS_AddElement DEF CallbackInv
<1>3. callbacks' \in Seq(RPC) /\ Len(callbacks') = Len(callbacks) + 1
  BY DEF CallbackInv, PushLoggingCallback
<1>4. serving' \in [RPC -> {"no", "simulating", "returned"}]
  BY DEF CallbackInv, PushLoggingCallback
<1> QED BY <1>1, <1>2, <1>3, <1>4 DEF CallbackInv

(* A call returns: there is a callback to pop, because it pushed one.      *)
LEMMA PopKeeps ==
  ASSUME CallbackInv, NEW r \in RPC, PopLoggingCallback(r)
  PROVE  CallbackInv' /\ callbacks # << >>
<1>1. r \in Simulating /\ Simulating' = Simulating \ {r}
  BY DEF CallbackInv, PopLoggingCallback, Simulating
<1>2. /\ IsFiniteSet(Simulating \ {r})
      /\ Cardinality(Simulating \ {r}) = Cardinality(Simulating) - 1
  BY <1>1, FS_RemoveElement DEF CallbackInv
<1>3. Cardinality(Simulating) \in Nat /\ Cardinality(Simulating \ {r}) \in Nat
  BY <1>2, FS_CardinalityType DEF CallbackInv
<1>4. Len(callbacks) >= 1
  BY <1>2, <1>3 DEF CallbackInv
<1>5. callbacks # << >> /\ callbacks' = SubSeq(callbacks, 1, Len(callbacks) - 1)
  BY <1>4 DEF PopLoggingCallback, Front
<1>6. callbacks' \in Seq(RPC) /\ Len(callbacks') = Len(callbacks) - 1
  BY <1>4, <1>5 DEF CallbackInv
<1>7. serving' \in [RPC -> {"no", "simulating", "returned"}]
  BY DEF CallbackInv, PopLoggingCallback
<1> QED BY <1>1, <1>2, <1>5, <1>6, <1>7 DEF CallbackInv

(* Every step keeps a callback for each call being served. *)
LEMMA CallbackStep == CallbackInv /\ [LogNext]_logVars => CallbackInv'
<1> SUFFICES ASSUME CallbackInv, [LogNext]_logVars PROVE CallbackInv'
  OBVIOUS
<1>1. CASE UNCHANGED <<callbacks, serving>>
  BY <1>1 DEF CallbackInv, Simulating
<1>2. CASE \E r \in RPC : PushLoggingCallback(r) \/ PopLoggingCallback(r)
  BY <1>2, PushKeeps, PopKeeps
<1>3. CASE \/ \E r \in RPC : Read(r) \/ Finish(r) \/ Disconnect(r)
           \/ \E text \in Line : Log(text)
           \/ LogBreaks
  BY <1>1, <1>3 DEF Read, Finish, Disconnect, Log, LogBreaks
<1>4. CASE UNCHANGED logVars
  BY <1>1, <1>4 DEF logVars
<1> QED BY <1>2, <1>3, <1>4 DEF LogNext

-----------------------------------------------------------------------------
(* What can be on its way to a client, and what can be on its console. *)
Message == {LogMessage(text) : text \in Line}

Shown == {Received(message) : message \in Message}

(* What a client has shown and what is on its way to it are the lines its  *)
(* call logged, in order; all of them unless its connection broke.         *)
ShowsLogged(r) ==
  /\ Len(shown[r]) + Len(stream[r]) <= Len(logged[r])
  /\ r \notin gone => Len(shown[r]) + Len(stream[r]) = Len(logged[r])
  /\ \A i \in 1..Len(shown[r]) : shown[r][i] = Sent(logged[r][i])
  /\ \A i \in 1..Len(stream[r]) :
       Received(stream[r][i]) = Sent(logged[r][Len(shown[r]) + i])

(* The messages and the lines are those that logged lines give. *)
StreamTypeOK ==
  /\ stream \in [RPC -> Seq(Message)]
  /\ shown \in [RPC -> Seq(Shown)]
  /\ logged \in [RPC -> Seq(Line)]

(* While a call that none overlapped is served it is alone, and the one    *)
(* callback is its own.                                                    *)
AloneOnTheStack ==
  \A r \in Simulating \ overlapped : Simulating = {r} /\ callbacks = <<r>>

(* A broken connection brings nothing, and neither does one whose end the  *)
(* client has seen.                                                        *)
NothingComesAfter ==
  /\ \A r \in gone : stream[r] = << >>
  /\ \A r \in finished \ gone : serving[r] = "returned" /\ stream[r] = << >>

(* What ClientSeesItsRun takes to be inductive: in particular, to whom the *)
(* callbacks write.                                                        *)
StreamInv ==
  /\ CallbackInv
  /\ StreamTypeOK
  /\ finished \subseteq RPC /\ gone \subseteq RPC
  /\ AloneOnTheStack
  /\ NothingComesAfter
  /\ \A r \in RPC \ overlapped : ShowsLogged(r)

(* A part of a sum is no more than what the sum is bounded by. *)
LEMMA PartOfSum ==
  ASSUME NEW a \in Nat, NEW b \in Nat, NEW c \in Nat, a + b <= c
  PROVE  a <= c /\ a + 0 <= c
OBVIOUS

(* The client maps every severity back to what the engine made it from. *)
LEMMA SeverityRoundTrip == \A s \in LogSeverity : FromProto[ToProto[s]] = s
BY DEF LogSeverity, ToProto, FromProto

(* The two severity mappings undo each other, and the name becomes the     *)
(* type, on the way from the logger to the client's console.               *)
LEMMA ReceivedAsSent ==
  ASSUME NEW text \in Line
  PROVE  Received(LogMessage(text)) = Sent(text)
<1>1. /\ DOMAIN text = {"severity", "caller_type", "caller_name"}
      /\ text.severity \in LogSeverity
  BY LogAssumption
<1>2. FromProto[ToProto[text.severity]] = text.severity
  BY <1>1, SeverityRoundTrip
<1>3. Received(LogMessage(text)) =
        [severity |-> text.severity, caller_type |-> text.caller_type,
         caller_name |-> text.caller_type]
  BY <1>2 DEF Received, LogMessage
<1>4. Sent(text) = [x \in {"severity", "caller_type", "caller_name"} |->
                      IF x = "caller_name" THEN text.caller_type ELSE text[x]]
  BY <1>1 DEF Sent
<1> QED
  BY <1>3, <1>4

(* Nothing is logged or shown at the beginning. *)
LEMMA StreamInitial == LogInit => StreamInv
<1> SUFFICES ASSUME LogInit
             PROVE  StreamInv
  OBVIOUS
<1>1. CallbackInv
  BY CallbackInit
<1>2. /\ callbacks = << >> /\ Simulating = {} /\ gone = {} /\ finished = {}
      /\ stream = [r \in RPC |-> << >>]
      /\ shown = [r \in RPC |-> << >>]
      /\ logged = [r \in RPC |-> << >>]
  BY DEF LogInit, Simulating
<1>3. StreamTypeOK
  <2>1. << >> \in Seq(Message) /\ << >> \in Seq(Shown) /\ << >> \in Seq(Line)
    OBVIOUS
  <2> QED
    BY <1>2, <2>1 DEF StreamTypeOK
<1>4. AloneOnTheStack /\ NothingComesAfter
  BY <1>2 DEF AloneOnTheStack, NothingComesAfter
<1>5. ASSUME NEW r \in RPC
      PROVE  ShowsLogged(r)
  BY <1>2 DEF ShowsLogged
<1> QED
  BY <1>1, <1>2, <1>3, <1>4, <1>5 DEF StreamInv

(* A call begins: if it is alone its callback is the only one, otherwise   *)
(* all that are served now have been overlapped.                           *)
LEMMA PushKeepsStreams ==
  ASSUME StreamInv, NEW r \in RPC, PushLoggingCallback(r)
  PROVE  StreamInv'
<1>1. CallbackInv'
  BY PushKeeps DEF StreamInv
<1>2. /\ UNCHANGED <<stream, gone, shown, finished, logged>>
      /\ serving[r] = "no" /\ serving' = [serving EXCEPT ![r] = "simulating"]
      /\ callbacks' = Append(callbacks, r)
      /\ overlapped' = IF Simulating = {} THEN overlapped
                       ELSE overlapped \cup Simulating \cup {r}
  BY DEF PushLoggingCallback
<1>3. /\ serving \in [RPC -> {"no", "simulating", "returned"}]
      /\ callbacks \in Seq(RPC) /\ Len(callbacks) = Cardinality(Simulating)
  BY DEF StreamInv, CallbackInv
<1>4. Simulating' = Simulating \cup {r}
  BY <1>2, <1>3 DEF Simulating
<1>5. AloneOnTheStack'
  <2>1. CASE Simulating = {}
    <3>1. Len(callbacks) = 0
      BY <1>3, <2>1, FS_EmptySet
    <3>2. callbacks = << >>
      BY <1>3, <3>1
    <3>3. callbacks' = <<r>>
      BY <1>2, <3>2
    <3> QED
      BY <1>4, <2>1, <3>3 DEF AloneOnTheStack
  <2>2. CASE Simulating # {}
    BY <1>2, <1>4, <2>2 DEF AloneOnTheStack
  <2> QED
    BY <2>1, <2>2
<1>6. NothingComesAfter'
  BY <1>2, <1>3 DEF StreamInv, NothingComesAfter
<1>7. ASSUME NEW q \in RPC \ overlapped'
      PROVE  ShowsLogged(q)'
  <2>1. ShowsLogged(q)
    BY <1>2 DEF StreamInv
  <2> QED
    BY <1>2, <2>1 DEF ShowsLogged
<1>8. StreamTypeOK'
  BY <1>2 DEF StreamInv, StreamTypeOK
<1> QED
  BY <1>1, <1>2, <1>5, <1>6, <1>7, <1>8 DEF StreamInv

(* A call returns: no other one was alone. *)
LEMMA PopKeepsStreams ==
  ASSUME StreamInv, NEW r \in RPC, PopLoggingCallback(r)
  PROVE  StreamInv'
<1>1. CallbackInv'
  BY PopKeeps DEF StreamInv
<1>2. /\ UNCHANGED <<stream, gone, shown, finished, logged, overlapped>>
      /\ serving[r] = "simulating" /\ serving' = [serving EXCEPT ![r] = "returned"]
  BY DEF PopLoggingCallback
<1>3. serving \in [RPC -> {"no", "simulating", "returned"}]
  BY DEF StreamInv, CallbackInv
<1>4. r \in Simulating /\ Simulating' = Simulating \ {r}
  BY <1>2, <1>3 DEF Simulating
<1>5. AloneOnTheStack'
  BY <1>2, <1>4 DEF StreamInv, AloneOnTheStack
<1>6. NothingComesAfter'
  BY <1>2, <1>3 DEF StreamInv, NothingComesAfter
<1>7. ASSUME NEW q \in RPC \ overlapped'
      PROVE  ShowsLogged(q)'
  <2>1. ShowsLogged(q)
    BY <1>2 DEF StreamInv
  <2> QED
    BY <1>2, <2>1 DEF ShowsLogged
<1>8. StreamTypeOK'
  BY <1>2 DEF StreamInv, StreamTypeOK
<1> QED
  BY <1>1, <1>2, <1>5, <1>6, <1>7, <1>8 DEF StreamInv

(* A line that is logged goes to the one client that is alone, and to no   *)
(* client whose call is over or has not begun.                             *)
LEMMA LogKeepsStreams ==
  ASSUME StreamInv, NEW text \in Line, Log(text)
  PROVE  StreamInv'
<1>1. /\ UNCHANGED <<callbacks, serving, gone, shown, finished, overlapped>>
      /\ \A i \in DOMAIN callbacks : serving[callbacks[i]] = "simulating"
      /\ stream' = [r \in RPC |->
                      IF r \in ToSet(callbacks) \ gone
                      THEN Append(stream[r], LogMessage(text)) ELSE stream[r]]
      /\ logged' = [r \in RPC |->
                      IF r \in Simulating THEN Append(logged[r], text) ELSE logged[r]]
  BY DEF Log
<1>2. /\ stream \in [RPC -> Seq(Message)]
      /\ logged \in [RPC -> Seq(Line)]
      /\ shown \in [RPC -> Seq(Shown)]
      /\ LogMessage(text) \in Message
  BY DEF StreamInv, StreamTypeOK, Message
<1>3. CallbackInv' /\ Simulating' = Simulating
  BY <1>1 DEF StreamInv, CallbackInv, Simulating
<1>4. StreamTypeOK'
  BY <1>1, <1>2 DEF StreamTypeOK
<1>5. AloneOnTheStack'
  BY <1>1, <1>3 DEF StreamInv, AloneOnTheStack
<1>6. ASSUME NEW r \in RPC, r \notin Simulating
      PROVE  stream'[r] = stream[r] /\ logged'[r] = logged[r]
  <2>1. r \notin ToSet(callbacks)
    BY <1>1, <1>6 DEF ToSet, Simulating
  <2> QED
    BY <1>1, <1>6, <2>1
<1>7. NothingComesAfter'
  <2>1. ASSUME NEW r \in gone
        PROVE  stream'[r] = << >>
    BY <1>1, <2>1 DEF StreamInv, NothingComesAfter
  <2>2. ASSUME NEW r \in finished \ gone
        PROVE  serving[r] = "returned" /\ stream'[r] = << >>
    BY <1>6 DEF StreamInv, NothingComesAfter, Simulating
  <2> QED
    BY <1>1, <2>1, <2>2 DEF NothingComesAfter
<1>8. ASSUME NEW r \in RPC \ overlapped
      PROVE  ShowsLogged(r)'
  <2>1. ShowsLogged(r)
    BY DEF StreamInv
  <2>2. CASE r \notin Simulating
    BY <1>1, <1>6, <2>1, <2>2 DEF ShowsLogged
  <2>3. CASE r \in Simulating /\ r \notin gone
    <3>1. callbacks = <<r>>
      BY <2>3 DEF StreamInv, AloneOnTheStack
    <3>2. r \in ToSet(callbacks)
      BY <3>1 DEF ToSet
    <3>3. /\ stream'[r] = Append(stream[r], LogMessage(text))
          /\ logged'[r] = Append(logged[r], text)
          /\ shown'[r] = shown[r]
      BY <1>1, <2>3, <3>2
    <3> DEFINE s == stream[r]  g == logged[r]  w == shown[r]
    <3>4. s \in Seq(Message) /\ g \in Seq(Line) /\ w \in Seq(Shown)
      BY <1>2
    <3>5. /\ Len(w) + Len(s) = Len(g)
          /\ \A i \in 1..Len(w) : w[i] = Sent(g[i])
          /\ \A i \in 1..Len(s) : Received(s[i]) = Sent(g[Len(w) + i])
      BY <2>1, <2>3 DEF ShowsLogged
    <3>6. /\ Len(stream'[r]) = Len(s) + 1 /\ Len(logged'[r]) = Len(g) + 1
          /\ stream'[r][Len(s) + 1] = LogMessage(text) /\ logged'[r][Len(g) + 1] = text
          /\ \A i \in 1..Len(s) : stream'[r][i] = s[i]
          /\ \A i \in 1..Len(g) : logged'[r][i] = g[i]
      BY <1>2, <3>3, <3>4
    <3>7. Len(s) \in Nat /\ Len(g) \in Nat /\ Len(w) \in Nat
      BY <3>4
    <3> HIDE DEF s, g, w
    <3>8. \A i \in 1..Len(w) : w[i] = Sent(logged'[r][i])
      BY <3>5, <3>6, <3>7
    <3>9. ASSUME NEW i \in 1..(Len(s) + 1)
          PROVE  Received(stream'[r][i]) = Sent(logged'[r][Len(w) + i])
      <4>1. CASE i \in 1..Len(s)
        <5>1. Len(w) + i \in 1..Len(g)
          BY <3>5, <3>7, <4>1
        <5>2. Received(s[i]) = Sent(g[Len(w) + i])
          BY <3>5, <4>1
        <5> QED
          BY <3>6, <4>1, <5>1, <5>2
      <4>2. CASE i = Len(s) + 1
        <5>1. Len(w) + i = Len(g) + 1
          BY <3>5, <3>7, <4>2
        <5> QED
          BY <3>6, <4>2, <5>1, ReceivedAsSent
      <4> QED
        BY <3>7, <4>1, <4>2
    <3>10. Len(w) + Len(stream'[r]) = Len(logged'[r])
      BY <3>5, <3>6, <3>7
    <3>11. shown'[r] = w
      BY <3>3 DEF w
    <3> QED
      BY <3>6, <3>7, <3>8, <3>9, <3>10, <3>11 DEF ShowsLogged
  <2>4. CASE r \in Simulating /\ r \in gone
    <3>1. stream'[r] = stream[r] /\ stream[r] = << >> /\ logged'[r] = Append(logged[r], text)
      BY <1>1, <2>4 DEF StreamInv, NothingComesAfter
    <3>2. logged[r] \in Seq(Line) /\ shown[r] \in Seq(Shown) /\ shown'[r] = shown[r]
      BY <1>1, <1>2
    <3>3. /\ Len(logged'[r]) = Len(logged[r]) + 1
          /\ \A i \in 1..Len(logged[r]) : logged'[r][i] = logged[r][i]
      BY <3>1, <3>2
    <3>4. Len(shown[r]) <= Len(logged[r])
      BY <2>1, <3>1, <3>2 DEF ShowsLogged
    <3>5. \A i \in 1..Len(shown[r]) : shown[r][i] = Sent(logged'[r][i])
      BY <2>1, <3>2, <3>3, <3>4 DEF ShowsLogged
    <3>6. Len(shown[r]) + 0 <= Len(logged'[r])
      BY <3>2, <3>3, <3>4
    <3>7. stream'[r] = << >> /\ shown'[r] = shown[r] /\ r \in gone'
      BY <1>1, <2>4, <3>1
    <3> QED
      BY <3>5, <3>6, <3>7 DEF ShowsLogged
  <2> QED
    BY <2>2, <2>3, <2>4
<1> QED
  BY <1>1, <1>3, <1>4, <1>5, <1>7, <1>8 DEF StreamInv

(* The client moves the first message of the stream to its console. *)
LEMMA ReadKeepsStreams ==
  ASSUME StreamInv, NEW r \in RPC, Read(r)
  PROVE  StreamInv'
<1>1. /\ r \notin gone /\ stream[r] # << >>
      /\ shown' = [shown EXCEPT ![r] = Append(@, Received(Head(stream[r])))]
      /\ stream' = [stream EXCEPT ![r] = Tail(@)]
      /\ UNCHANGED <<callbacks, serving, gone, finished, logged, overlapped>>
  BY DEF Read
<1>2. /\ stream \in [RPC -> Seq(Message)]
      /\ logged \in [RPC -> Seq(Line)]
      /\ shown \in [RPC -> Seq(Shown)]
  BY DEF StreamInv, StreamTypeOK
<1>3. /\ Head(stream[r]) \in Message /\ Tail(stream[r]) \in Seq(Message)
      /\ Head(stream[r]) = stream[r][1] /\ Len(stream[r]) >= 1
      /\ Len(Tail(stream[r])) = Len(stream[r]) - 1
      /\ \A i \in 1..(Len(stream[r]) - 1) : Tail(stream[r])[i] = stream[r][i + 1]
  BY <1>1, <1>2
<1>4. StreamTypeOK'
  <2>1. Append(shown[r], Received(Head(stream[r]))) \in Seq(Shown)
    BY <1>2, <1>3 DEF Shown
  <2> QED
    BY <1>1, <1>2, <1>3, <2>1 DEF StreamTypeOK
<1>5. CallbackInv' /\ Simulating' = Simulating
  BY <1>1 DEF StreamInv, CallbackInv, Simulating
<1>6. AloneOnTheStack'
  BY <1>1, <1>5 DEF StreamInv, AloneOnTheStack
<1>7. NothingComesAfter'
  BY <1>1, <1>2 DEF StreamInv, NothingComesAfter
<1>8. ASSUME NEW q \in RPC \ overlapped
      PROVE  ShowsLogged(q)'
  <2>1. ShowsLogged(q)
    BY DEF StreamInv
  <2>2. CASE q # r
    <3>1. shown'[q] = shown[q] /\ stream'[q] = stream[q]
      BY <1>1, <1>2, <2>2
    <3> QED
      BY <1>1, <2>1, <3>1 DEF ShowsLogged
  <2>3. CASE q = r
    <3> DEFINE s == stream[r]  g == logged[r]  w == shown[r]
    <3>1. /\ shown'[r] = Append(w, Received(s[1])) /\ stream'[r] = Tail(s)
          /\ logged'[r] = g /\ gone' = gone
      BY <1>1, <1>2, <1>3
    <3>2. /\ Len(w) + Len(s) = Len(g)
          /\ \A i \in 1..Len(w) : w[i] = Sent(g[i])
          /\ \A i \in 1..Len(s) : Received(s[i]) = Sent(g[Len(w) + i])
      BY <1>1, <2>1, <2>3 DEF ShowsLogged
    <3>3. Len(s) \in Nat /\ Len(g) \in Nat /\ Len(w) \in Nat /\ w \in Seq(Shown)
      BY <1>2
    <3>4. /\ Len(shown'[r]) = Len(w) + 1
          /\ shown'[r][Len(w) + 1] = Received(s[1])
          /\ \A i \in 1..Len(w) : shown'[r][i] = w[i]
      BY <3>1, <3>3
    <3>5. /\ Len(stream'[r]) = Len(s) - 1 /\ Len(s) >= 1
          /\ \A i \in 1..(Len(s) - 1) : stream'[r][i] = s[i + 1]
      BY <1>3, <3>1
    <3> HIDE DEF s, g, w
    <3>6. ASSUME NEW i \in 1..(Len(w) + 1)
          PROVE  shown'[r][i] = Sent(g[i])
      <4>1. CASE i \in 1..Len(w)
        BY <3>2, <3>4, <4>1
      <4>2. CASE i = Len(w) + 1
        <5>1. Received(s[1]) = Sent(g[Len(w) + 1])
          BY <3>2, <3>3, <3>5
        <5> QED
          BY <3>4, <4>2, <5>1
      <4> QED
        BY <3>3, <4>1, <4>2
    <3>7. ASSUME NEW i \in 1..(Len(s) - 1)
          PROVE  Received(stream'[r][i]) = Sent(g[(Len(w) + 1) + i])
      <4>1. i + 1 \in 1..Len(s) /\ Len(w) + (i + 1) = (Len(w) + 1) + i
        BY <3>3
      <4>2. Received(s[i + 1]) = Sent(g[Len(w) + (i + 1)])
        BY <3>2, <4>1
      <4> QED
        BY <3>5, <4>1, <4>2
    <3>8. Len(shown'[r]) + Len(stream'[r]) = Len(g)
      <4>1. (Len(w) + 1) + (Len(s) - 1) = Len(w) + Len(s)
        BY <3>3
      <4> QED
        BY <3>2, <3>4, <3>5, <4>1
    <3>9. Len(g) <= Len(g)
      BY <3>3
    <3> QED
      BY <2>3, <3>1, <3>4, <3>5, <3>6, <3>7, <3>8, <3>9 DEF ShowsLogged
  <2> QED
    BY <2>2, <2>3
<1> QED
  BY <1>1, <1>4, <1>5, <1>6, <1>7, <1>8 DEF StreamInv

(* The client sees the end of the stream, or loses it with what is in it.  *)
LEMMA EndKeepsStreams ==
  ASSUME StreamInv, NEW r \in RPC, Finish(r) \/ Disconnect(r)
  PROVE  StreamInv'
<1>1. /\ UNCHANGED <<callbacks, serving, shown, logged, overlapped>>
      /\ stream \in [RPC -> Seq(Message)]
  BY DEF Finish, Disconnect, StreamInv, StreamTypeOK
<1>2. CallbackInv' /\ Simulating' = Simulating
  BY <1>1 DEF StreamInv, CallbackInv, Simulating
<1>3. AloneOnTheStack'
  BY <1>1, <1>2 DEF StreamInv, AloneOnTheStack
<1>4. CASE Finish(r)
  <2>1. /\ UNCHANGED <<stream, gone>> /\ finished' = finished \cup {r}
        /\ r \in gone \/ (serving[r] = "returned" /\ stream[r] = << >>)
    BY <1>4 DEF Finish
  <2>2. NothingComesAfter'
    BY <1>1, <2>1 DEF StreamInv, NothingComesAfter
  <2>3. ASSUME NEW q \in RPC \ overlapped
        PROVE  ShowsLogged(q)'
    <3>1. ShowsLogged(q)
      BY DEF StreamInv
    <3> QED
      BY <1>1, <2>1, <3>1 DEF ShowsLogged
  <2>4. StreamTypeOK'
    BY <1>1, <2>1 DEF StreamInv, StreamTypeOK
  <2> QED
    BY <1>1, <1>2, <1>3, <2>1, <2>2, <2>3, <2>4 DEF StreamInv
<1>5. CASE Disconnect(r)
  <2>1. /\ stream' = [stream EXCEPT ![r] = << >>]
        /\ gone' = gone \cup {r} /\ UNCHANGED finished
    BY <1>5 DEF Disconnect
  <2>2. NothingComesAfter'
    BY <1>1, <2>1 DEF StreamInv, NothingComesAfter
  <2>3. ASSUME NEW q \in RPC \ overlapped
        PROVE  ShowsLogged(q)'
    <3>1. ShowsLogged(q)
      BY DEF StreamInv
    <3>2. CASE q = r
      <4>1. stream'[q] = << >> /\ q \in gone'
        BY <1>1, <2>1, <3>2
      <4>2. Len(stream[q]) \in Nat /\ Len(shown[q]) \in Nat /\ Len(logged[q]) \in Nat
        BY DEF StreamInv, StreamTypeOK
      <4>3. Len(shown[q]) + Len(stream[q]) <= Len(logged[q])
        BY <3>1 DEF ShowsLogged
      <4>4. Len(shown[q]) + 0 <= Len(logged[q])
        BY <4>2, <4>3, PartOfSum
      <4> QED
        BY <1>1, <3>1, <4>1, <4>4 DEF ShowsLogged
    <3>3. CASE q # r
      <4>1. stream'[q] = stream[q] /\ (q \in gone' <=> q \in gone)
        BY <1>1, <2>1, <3>3
      <4> QED
        BY <1>1, <3>1, <4>1 DEF ShowsLogged
    <3> QED
      BY <3>2, <3>3
  <2>4. StreamTypeOK'
    <3>1. << >> \in Seq(Message)
      OBVIOUS
    <3> QED
      BY <1>1, <2>1, <3>1 DEF StreamInv, StreamTypeOK
  <2> QED
    BY <1>1, <1>2, <1>3, <2>1, <2>2, <2>3, <2>4 DEF StreamInv
<1> QED
  BY <1>4, <1>5

(* Every step keeps what is on its way and what is shown in order. *)
LEMMA StreamStep == StreamInv /\ [LogNext]_logVars => StreamInv'
<1> SUFFICES ASSUME StreamInv, [LogNext]_logVars
             PROVE  StreamInv'
  OBVIOUS
<1>1. CASE UNCHANGED <<callbacks, serving, stream, gone, shown, finished, logged, overlapped>>
  BY <1>1 DEF StreamInv, CallbackInv, Simulating, StreamTypeOK, AloneOnTheStack,
              NothingComesAfter, ShowsLogged
<1>2. CASE UNCHANGED logVars
  BY <1>1, <1>2 DEF logVars
<1>3. CASE LogBreaks
  BY <1>1, <1>3 DEF LogBreaks
<1> QED
  BY <1>2, <1>3, PushKeepsStreams, PopKeepsStreams, LogKeepsStreams, ReadKeepsStreams,
     EndKeepsStreams DEF LogNext

(* The callbacks are of calls that were served, those of calls that have   *)
(* returned of overlapped ones; memory is touched by these only.           *)
StackInv ==
  /\ StreamInv
  /\ \A i \in 1..Len(callbacks) :
       \/ callbacks[i] \in Simulating
       \/ callbacks[i] \in overlapped
  /\ broken => overlapped # {}

LEMMA StackStep == StackInv /\ [LogNext]_logVars => StackInv'
<1> SUFFICES ASSUME StackInv, [LogNext]_logVars PROVE StackInv'
  OBVIOUS
<1>1. StreamInv /\ StreamInv'
  BY StreamStep DEF StackInv
<1>2. callbacks \in Seq(RPC) /\ serving \in [RPC -> {"no", "simulating", "returned"}]
  BY <1>1 DEF StreamInv, CallbackInv
<1>3. CASE \E r \in RPC : PushLoggingCallback(r)
  <2>1. PICK r \in RPC : PushLoggingCallback(r)
    BY <1>3
  <2>2. callbacks' = Append(callbacks, r) /\ broken' = broken /\ overlapped \subseteq overlapped'
    BY <2>1 DEF PushLoggingCallback
  <2>3. Simulating' = Simulating \cup {r}
    BY <1>2, <2>1 DEF PushLoggingCallback, Simulating
  <2>4. ASSUME NEW i \in 1..Len(callbacks')
        PROVE  callbacks'[i] = r \/ (i \in 1..Len(callbacks) /\ callbacks'[i] = callbacks[i])
    BY <1>2, <2>2
  <2> QED BY <1>1, <2>2, <2>3, <2>4 DEF StackInv
<1>4. CASE \E r \in RPC : PopLoggingCallback(r)
  <2>1. PICK r \in RPC : PopLoggingCallback(r)
    BY <1>4
  <2>2. callbacks # << >>
    BY <1>1, <2>1, PopKeeps DEF StreamInv
  <2>3. /\ callbacks' = SubSeq(callbacks, 1, Len(callbacks) - 1) /\ broken' = broken
        /\ overlapped' = overlapped /\ r \in Simulating /\ Simulating' = Simulating \ {r}
    BY <1>2, <2>1, <2>2 DEF PopLoggingCallback, Front, Simulating
  <2>4. /\ Len(callbacks) \in Nat \ {0} /\ Len(callbacks') = Len(callbacks) - 1
        /\ \A i \in 1..Len(callbacks') : i \in 1..Len(callbacks) /\ callbacks'[i] = callbacks[i]
    <3>1. Len(callbacks) \in Nat \ {0}
      BY <1>2, <2>2
    <3> DEFINE n == Len(callbacks) - 1
    <3>2. n \in Nat /\ n <= Len(callbacks)
      BY <3>1
    <3>3. Len(callbacks') = n /\ \A i \in 1..n : callbacks'[i] = callbacks[i]
      <4>1. n \in Int /\ 1 \in Int /\ \A i \in 1..n : callbacks[i] \in RPC
        BY <1>2, <3>1
      <4>2. callbacks' = SubSeq(callbacks, 1, n)
        BY <2>3
      <4> HIDE DEF n
      <4>3. /\ Len(SubSeq(callbacks, 1, n)) = IF 1 <= n THEN n - 1 + 1 ELSE 0
            /\ \A i \in 1..(n - 1 + 1) : SubSeq(callbacks, 1, n)[i] = callbacks[1 + i - 1]
        BY <4>1, SubSeqProperties
      <4>4. \A i \in 1..n : i \in 1..(n - 1 + 1) /\ 1 + i - 1 = i
        BY <3>2
      <4> QED BY <3>2, <4>2, <4>3, <4>4
    <3> QED BY <3>1, <3>2, <3>3
  <2>5. r \notin overlapped => Len(callbacks') = 0
    <3> SUFFICES ASSUME r \notin overlapped PROVE Len(callbacks) = 1
      BY <2>4
    <3>1. callbacks = <<r>>
      BY <1>1, <2>3 DEF StreamInv, AloneOnTheStack
    <3> QED BY <3>1
  <2>6. ASSUME NEW i \in 1..Len(callbacks')
        PROVE  callbacks'[i] \in Simulating' \/ callbacks'[i] \in overlapped'
    BY <2>3, <2>4, <2>5 DEF StackInv
  <2> QED BY <1>1, <2>3, <2>6 DEF StackInv
<1>5. CASE LogBreaks
  <2>1. PICK i \in DOMAIN callbacks : serving[callbacks[i]] = "returned"
    BY <1>5 DEF LogBreaks
  <2>2. callbacks[i] \in overlapped
    BY <1>2, <2>1 DEF StackInv, Simulating
  <2>3. UNCHANGED <<callbacks, serving, overlapped>>
    BY <1>5 DEF LogBreaks
  <2> QED BY <1>1, <2>2, <2>3 DEF StackInv, Simulating
<1>6. CASE \/ \E r \in RPC : Read(r) \/ Finish(r) \/ Disconnect(r)
           \/ \E text \in Line : Log(text)
           \/ UNCHANGED logVars
  <2>1. UNCHANGED <<callbacks, serving, broken, overlapped>>
    BY <1>6 DEF Read, Finish, Disconnect, Log, logVars
  <2> QED BY <1>1, <2>1 DEF StackInv, Simulating
<1> QED BY <1>3, <1>4, <1>5, <1>6 DEF LogNext

(* However many calls there are and however they overlap: a callback that  *)
(* outlives its call, and what comes of it, is the doing of an overlap     *)
(* (rpc-service.cpp pushes one callback and pops one around a simulation,  *)
(* and logger.h takes the last), and does not outlast it.                  *)
THEOREM WrongCallbackNeedsOverlap == LogSpec => []WrongCallbackForOverlappedOnly
<1>1. LogInit => StackInv
  <2> SUFFICES ASSUME LogInit PROVE StackInv
    OBVIOUS
  <2>1. callbacks = << >> /\ broken = FALSE
    BY DEF LogInit
  <2> QED BY <2>1, StreamInitial DEF StackInv
<1>2. StackInv => WrongCallbackForOverlappedOnly
  <2> SUFFICES ASSUME StackInv PROVE WrongCallbackForOverlappedOnly
    OBVIOUS
  <2>1. /\ CallbackInv /\ AloneOnTheStack
    BY DEF StackInv, StreamInv
  <2>2. \A i \in DOMAIN callbacks :
          serving[callbacks[i]] = "returned" => callbacks[i] \in overlapped
    BY <2>1 DEF StackInv, Simulating, CallbackInv
  <2> QED BY <2>1, <2>2 DEF WrongCallbackForOverlappedOnly, StackInv, CallbackInv, AloneOnTheStack
<1> QED BY <1>1, <1>2, StackStep, PTL DEF LogSpec

(* The invariant, line by line, as the property on sequences. *)
LEMMA ShownIsLogged == StreamInv => ClientSeesItsRun
<1> SUFFICES ASSUME StreamInv, NEW r \in RPC \ overlapped
             PROVE  LET lines == [i \in DOMAIN logged[r] |-> Sent(logged[r][i])]
                    IN  /\ IsPrefix(shown[r], lines)
                        /\ r \notin gone =>
                             shown[r] \o [i \in DOMAIN stream[r] |-> Received(stream[r][i])] = lines
                        /\ r \in finished \ gone => shown[r] = lines
  BY DEF ClientSeesItsRun
<1> DEFINE s == stream[r]
           g == logged[r]
           w == shown[r]
           lines == [i \in DOMAIN g |-> Sent(g[i])]
           rest == [i \in DOMAIN s |-> Received(s[i])]
<1>1. s \in Seq(Message) /\ g \in Seq(Line) /\ w \in Seq(Shown)
  BY DEF StreamInv, StreamTypeOK
<1>2. /\ Len(w) + Len(s) <= Len(g)
      /\ r \notin gone => Len(w) + Len(s) = Len(g)
      /\ \A i \in 1..Len(w) : w[i] = Sent(g[i])
      /\ \A i \in 1..Len(s) : Received(s[i]) = Sent(g[Len(w) + i])
  BY DEF StreamInv, ShowsLogged
<1>3. r \in finished \ gone => s = << >>
  BY DEF StreamInv, NothingComesAfter
<1>4. /\ Len(s) \in Nat /\ Len(g) \in Nat /\ Len(w) \in Nat
      /\ DOMAIN g = 1..Len(g) /\ DOMAIN s = 1..Len(s) /\ DOMAIN w = 1..Len(w)
  BY <1>1
<1> DEFINE AnySent == {Sent(text) : text \in Line}
           AnyReceived == {Received(message) : message \in Message}
<1>5. \A i \in 1..Len(g) : Sent(g[i]) \in AnySent
  BY <1>1
<1>6. \A i \in 1..Len(s) : Received(s[i]) \in AnyReceived
  BY <1>1
<1> HIDE DEF s, g, w, AnySent, AnyReceived
<1>7. lines \in Seq(AnySent) /\ Len(lines) = Len(g)
      /\ \A i \in 1..Len(g) : lines[i] = Sent(g[i])
  BY <1>4, <1>5
<1>8. rest \in Seq(AnyReceived) /\ Len(rest) = Len(s)
      /\ \A i \in 1..Len(s) : rest[i] = Received(s[i])
  BY <1>4, <1>6
<1> HIDE DEF lines, rest
<1>9. Len(w) <= Len(g)
  BY <1>2, <1>4, PartOfSum
<1>10. \A i \in 1..Len(w) : i \in 1..Len(g)
  BY <1>4, <1>9
<1>11. IsPrefix(w, lines)
  <2>1. Len(w) <= Len(lines)
    BY <1>7, <1>9
  <2>2. SubSeq(w, 1, Len(w)) = [i \in 1..Len(w) |-> w[i]]
    BY <1>1, <1>4
  <2>3. SubSeq(lines, 1, Len(w)) = [i \in 1..Len(w) |-> lines[i]]
    BY <1>4, <1>7, <2>1
  <2>4. \A i \in 1..Len(w) : w[i] = lines[i]
    BY <1>2, <1>7, <1>10
  <2> QED
    BY <2>1, <2>2, <2>3, <2>4 DEF IsPrefix
<1>12. r \notin gone => w \o rest = lines
  <2> SUFFICES ASSUME r \notin gone
               PROVE  w \o rest = lines
    OBVIOUS
  <2>1. Len(w) + Len(rest) = Len(lines)
    BY <1>2, <1>7, <1>8
  <2> DEFINE AnyLine == Shown \cup AnyReceived \cup AnySent
  <2>2. w \in Seq(AnyLine) /\ rest \in Seq(AnyLine) /\ lines \in Seq(AnyLine)
    BY <1>1, <1>7, <1>8
  <2> HIDE DEF AnyLine
  <2>3. /\ w \o rest \in Seq(AnyLine)
        /\ Len(w \o rest) = Len(w) + Len(rest)
        /\ \A i \in 1..(Len(w) + Len(rest)) :
             (w \o rest)[i] = IF i <= Len(w) THEN w[i] ELSE rest[i - Len(w)]
    BY <2>2, ConcatProperties
  <2>4. ASSUME NEW i \in 1..Len(lines)
        PROVE  (IF i <= Len(w) THEN w[i] ELSE rest[i - Len(w)]) = lines[i]
    <3>1. i \in 1..Len(g) /\ lines[i] = Sent(g[i])
      BY <1>7
    <3>2. CASE i <= Len(w)
      <4>1. i \in 1..Len(w)
        BY <1>4, <3>1, <3>2
      <4> QED
        BY <1>2, <3>1, <3>2, <4>1
    <3>3. CASE ~(i <= Len(w))
      <4>1. i - Len(w) \in 1..Len(s) /\ Len(w) + (i - Len(w)) = i
        BY <1>2, <1>4, <1>7, <3>1, <3>3
      <4>2. rest[i - Len(w)] = Sent(g[Len(w) + (i - Len(w))])
        BY <1>2, <1>8, <4>1
      <4> QED
        BY <3>1, <3>3, <4>1, <4>2
    <3> QED
      BY <3>2, <3>3
  <2>5. \A i \in 1..Len(w \o rest) : (w \o rest)[i] = lines[i]
    BY <2>1, <2>3, <2>4
  <2>6. Len(w \o rest) = Len(lines)
    BY <2>1, <2>3
  <2> QED
    BY <2>2, <2>3, <2>5, <2>6, SeqEqual
<1>13. r \in finished \ gone => w = lines
  <2> SUFFICES ASSUME r \in finished \ gone
               PROVE  w = lines
    OBVIOUS
  <2>1. Len(s) = 0
    BY <1>3
  <2>2. rest = << >>
    BY <1>8, <2>1
  <2>3. w \o rest = w
    BY <1>1, <2>2
  <2> QED
    BY <1>12, <2>3
<1> QED
  BY <1>11, <1>12, <1>13 DEF s, g, w, lines, rest

(* A client whose SimulateAll no other overlapped shows what the engine    *)
(* logged during that call, every line once and in order, and all of it    *)
(* unless its connection broke (logger.h and rpc-service.cpp, whose push   *)
(* and pop of the callback do not say whose it is; rpc-client.cpp).        *)
THEOREM ClientsSeeTheirRuns == LogSpec => []ClientSeesItsRun
BY StreamInitial, StreamStep, ShownIsLogged, PTL DEF LogSpec

-----------------------------------------------------------------------------

(* What a VM asks for is a number the workload model allows. *)
LEMMA WorkloadInRange ==
  ASSUME ShareTypeOK, NEW v \in VM, NEW demand \in Workload(v)
  PROVE  demand \in 0..MaxDemand
<1>1. required[v] \in 0..MaxDemand
  BY DEF ShareTypeOK
<1>2. CASE v \in Constant
  BY <1>1, <1>2 DEF Workload
<1>3. CASE v \notin Constant
  BY <1>1, <1>3, ShareAssumption DEF Workload
<1> QED
  BY <1>2, <1>3

(* Every variable keeps its type, under any step. *)
LEMMA ShareTypeStep == ShareTypeOK /\ [ShareNext]_shareVars => ShareTypeOK'
<1> SUFFICES ASSUME ShareTypeOK, [ShareNext]_shareVars
             PROVE  ShareTypeOK'
  OBVIOUS
<1> USE ShareAssumption
<1>1. CASE UpdateSchedule
  BY <1>1 DEF UpdateSchedule, ShareTypeOK
<1>2. ASSUME NEW v \in VM, Host(v)
      PROVE  ShareTypeOK'
  BY <1>2 DEF Host, ShareTypeOK
<1>3. ASSUME NEW v \in VM, Visit(v)
      PROVE  ShareTypeOK'
  <2>1. PICK demand \in Workload(v) : asked' = [asked EXCEPT ![v] = demand]
    BY <1>3 DEF Visit
  <2>2. asked' \in [VM -> 0..MaxDemand]
    BY <2>1, WorkloadInRange DEF ShareTypeOK
  <2>3. \/ /\ UNCHANGED <<remaining, saturated>>
           /\ refused' = refused \cup {v}
        \/ \E d \in Workload(v) : /\ remaining >= d
                                  /\ remaining' = remaining - d
                                  /\ saturated' = saturated \cup {v}
                                  /\ UNCHANGED refused
    BY <1>3 DEF Visit
  <2>4. remaining' \in 0..Ram
    <3>1. CASE UNCHANGED remaining
      BY <3>1 DEF ShareTypeOK
    <3>2. ASSUME NEW d \in Workload(v), remaining >= d, remaining' = remaining - d
          PROVE  remaining' \in 0..Ram
      <4>1. d \in 0..MaxDemand
        BY WorkloadInRange
      <4> QED
        BY <3>2, <4>1 DEF ShareTypeOK
    <3> QED
      BY <2>3, <3>1, <3>2
  <2>5. /\ todo' = todo \ {v} /\ v \in todo
        /\ UNCHANGED <<hosted, required>>
    BY <1>3 DEF Visit
  <2>6. saturated' \subseteq hosted' \ todo'
    BY <2>3, <2>5 DEF ShareTypeOK
  <2>7. refused' \subseteq hosted' \ (todo' \cup saturated')
    BY <2>3, <2>5 DEF ShareTypeOK
  <2> QED
    BY <2>2, <2>4, <2>5, <2>6, <2>7 DEF ShareTypeOK
<1>4. CASE UNCHANGED shareVars
  BY <1>4 DEF shareVars, ShareTypeOK
<1> QED
  BY <1>1, <1>2, <1>3, <1>4 DEF ShareNext

(* The remaining RAM is never negative or more than there is, and every VM *)
(* the loop has come to is saturated or turned down, not both (greedy.h:   *)
(* 35-43; RAMBytes is unsigned, so an underflow would give it all away).   *)
THEOREM ShareTypeCorrect == ShareSpec => []ShareTypeOK
<1>1. ShareInit => ShareTypeOK
  BY ShareAssumption DEF ShareInit, ShareTypeOK
<1> QED
  BY <1>1, ShareTypeStep, PTL DEF ShareSpec

-----------------------------------------------------------------------------
(* A VM that was turned down stays one that does not fit: within a run its *)
(* demand is not asked for again, and the RAM left over only shrinks.      *)
LEMMA TurnedDownStep ==
  ShareTypeOK /\ NoneTurnedDownInVain /\ [ShareNext]_shareVars => NoneTurnedDownInVain'
<1> SUFFICES ASSUME ShareTypeOK, NoneTurnedDownInVain, [ShareNext]_shareVars,
                    NEW w \in refused'
             PROVE  asked'[w] > remaining'
  BY DEF NoneTurnedDownInVain
<1> USE ShareAssumption
<1>1. CASE UpdateSchedule
  BY <1>1 DEF UpdateSchedule
<1>2. ASSUME NEW v \in VM, Host(v)
      PROVE  asked'[w] > remaining'
  BY <1>2 DEF Host, NoneTurnedDownInVain
<1>3. ASSUME NEW v \in VM, Visit(v)
      PROVE  asked'[w] > remaining'
  <2>1. PICK demand \in Workload(v) :
          /\ asked' = [asked EXCEPT ![v] = demand]
          /\ \/ /\ remaining >= demand
                /\ remaining' = remaining - demand
                /\ UNCHANGED refused
             \/ /\ remaining < demand
                /\ refused' = refused \cup {v}
                /\ UNCHANGED remaining
    BY <1>3 DEF Visit
  <2>2. demand \in 0..MaxDemand /\ remaining \in 0..Ram /\ v \in todo /\ w \in VM
    BY <1>3, <2>1, WorkloadInRange DEF ShareTypeOK, Visit
  <2>3. CASE w \in refused
    <3>1. w # v /\ asked[w] > remaining /\ asked[w] \in 0..MaxDemand
      BY <2>2, <2>3 DEF ShareTypeOK, NoneTurnedDownInVain
    <3>2. asked'[w] = asked[w]
      BY <2>1, <3>1 DEF ShareTypeOK
    <3> QED
      BY <2>1, <2>2, <3>1, <3>2
  <2>4. CASE w \notin refused
    <3>1. w = v /\ remaining < demand /\ remaining' = remaining
      BY <2>1, <2>4
    <3>2. asked'[v] = demand
      BY <2>1 DEF ShareTypeOK
    <3> QED
      BY <2>2, <3>1, <3>2
  <2> QED
    BY <2>3, <2>4
<1>4. CASE UNCHANGED shareVars
  BY <1>4 DEF shareVars, NoneTurnedDownInVain
<1> QED
  BY <1>1, <1>2, <1>3, <1>4 DEF ShareNext

(* No VM is ever found "NOT saturated" while what the server has left at   *)
(* the end of the run would have satisfied it (greedy.h:30-44).            *)
THEOREM GreedyIsMaximal == ShareSpec => []NoneTurnedDownInVain
<1>1. ShareInit => NoneTurnedDownInVain
  BY DEF ShareInit, NoneTurnedDownInVain
<1> QED
  BY <1>1, ShareTypeCorrect, TurnedDownStep, PTL DEF ShareSpec

-----------------------------------------------------------------------------
(* Sums over finite sets: what the library's definition computes.          *)
(* Induction over the subsets of a finite set: those that are in G if all  *)
(* smaller ones are, are in G.                                             *)
LEMMA SubsetInduction ==
  ASSUME NEW S0, IsFiniteSet(S0), NEW G,
         \A T \in SUBSET S0 : (\A U \in SUBSET T : U # T => U \in G) => T \in G
  PROVE  \A T \in SUBSET S0 : T \in G
<1> DEFINE Bad == {T \in SUBSET S0 : T \notin G}
<1> SUFFICES ASSUME Bad # {} PROVE FALSE
  OBVIOUS
<1>1. FiniteSubsetsOf(S0) = SUBSET S0
  BY FS_FiniteSubsetsOfFinite
<1>2. IsWellFoundedOn(StrictSubsetOrdering(S0), SUBSET S0)
  <2>1. IsWellFoundedOn(StrictSubsetOrdering(S0), FiniteSubsetsOf(S0))
    BY FS_StrictSubsetOrderingWellFounded, Zenon
  <2> QED BY <1>1, <2>1, Zenon
<1>3. PICK T \in Bad : \A U \in Bad : ~(<<U, T>> \in StrictSubsetOrdering(S0))
  <2>1. Bad \subseteq SUBSET S0
    OBVIOUS
  <2> HIDE DEF Bad
  <2> QED BY <1>2, <2>1, WFMin
<1>4. \A U \in SUBSET T : U # T => U \in G
  <2>1. ASSUME NEW U \in SUBSET T, U # T, U \notin G PROVE FALSE
    <3>1. U \in Bad /\ T \in SUBSET S0
      BY <2>1
    <3>2. <<U, T>> \in StrictSubsetOrdering(S0)
      BY <2>1, <3>1 DEF StrictSubsetOrdering
    <3> QED BY <1>3, <3>1, <3>2
  <2> QED BY <2>1
<1> QED BY <1>4

(* The sum as the library computes it: a function of all subsets, which    *)
(* takes out one element after the other.                                  *)
Chosen(T) == CHOOSE x \in T : TRUE

Summing(f, T, g) ==
  g = [U \in SUBSET T |-> IF U = {} THEN 0 ELSE f[Chosen(U)] + g[U \ {Chosen(U)}]]

Sums(f, T) == CHOOSE g : Summing(f, T, g)

LEMMA SumUnfolds ==
  ASSUME NEW f, NEW T
  PROVE  SumFunctionOnSet(f, T) = Sums(f, T)[T]
BY DEF SumFunctionOnSet, FoldFunctionOnSet, MapThenFoldSet, Sums, Summing, Chosen

LEMMA ChosenIsIn == ASSUME NEW T, T # {} PROVE Chosen(T) \in T
BY DEF Chosen

LEMMA SummingMeans ==
  ASSUME NEW f, NEW T, NEW g, Summing(f, T, g), NEW U \in SUBSET T
  PROVE  g[U] = IF U = {} THEN 0 ELSE f[Chosen(U)] + g[U \ {Chosen(U)}]
<1> DEFINE body(x) == IF x = {} THEN 0 ELSE f[Chosen(x)] + g[x \ {Chosen(x)}]
<1>1. g = [x \in SUBSET T |-> body(x)]
  BY DEF Summing
<1> HIDE DEF body
<1>2. g[U] = body(U)
  BY <1>1
<1> QED BY <1>2 DEF body

(* Two such functions agree where both are defined. *)
LEMMA SummingIsOne ==
  ASSUME NEW f, NEW T, NEW g, NEW S0, NEW h, IsFiniteSet(T),
         Summing(f, T, g), Summing(f, S0, h), T \subseteq S0
  PROVE  \A U \in SUBSET T : g[U] = h[U]
<1> DEFINE G == {U \in SUBSET T : g[U] = h[U]}
<1>1. ASSUME NEW U \in SUBSET T, \A V \in SUBSET U : V # U => V \in G
      PROVE  U \in G
  <2>1. /\ g[U] = IF U = {} THEN 0 ELSE f[Chosen(U)] + g[U \ {Chosen(U)}]
        /\ h[U] = IF U = {} THEN 0 ELSE f[Chosen(U)] + h[U \ {Chosen(U)}]
    BY SummingMeans
  <2>2. CASE U = {}
    BY <2>1, <2>2
  <2>3. CASE U # {}
    <3>1. U \ {Chosen(U)} \in G
      BY <1>1, <2>3, ChosenIsIn
    <3> QED BY <2>1, <2>3, <3>1
  <2> QED BY <2>2, <2>3
<1> HIDE DEF G
<1>2. \A U \in SUBSET T : U \in G
  BY <1>1, SubsetInduction
<1> QED BY <1>2 DEF G

LEMMA SummingExists ==
  ASSUME NEW f, NEW S0, IsFiniteSet(S0)
  PROVE  \A T \in SUBSET S0 : Summing(f, T, Sums(f, T))
<1> DEFINE G == {T \in SUBSET S0 : Summing(f, T, Sums(f, T))}
<1>1. ASSUME NEW T \in SUBSET S0, \A U \in SUBSET T : U # T => U \in G
      PROVE  T \in G
  <2> DEFINE Less(U) == Sums(f, U \ {Chosen(U)})[U \ {Chosen(U)}]
             g == [U \in SUBSET T |-> IF U = {} THEN 0 ELSE f[Chosen(U)] + Less(U)]
  <2>1. ASSUME NEW U \in SUBSET T, U # {}
        PROVE  g[U \ {Chosen(U)}] = Less(U)
    <3> DEFINE V == U \ {Chosen(U)}
    <3>1. V \in SUBSET T /\ V # T /\ V \in G
      BY <1>1, <2>1, ChosenIsIn
    <3>2. Summing(f, V, Sums(f, V)) /\ IsFiniteSet(V)
      BY <3>1, FS_Subset
    <3>3. CASE V = {}
      <4>1. Sums(f, V)[V] = 0
        BY <3>2, <3>3, SummingMeans
      <4> QED BY <3>1, <3>3, <4>1
    <3>4. CASE V # {}
      <4> DEFINE W == V \ {Chosen(V)}
      <4>1. W \in SUBSET V /\ W \in SUBSET T /\ W # T /\ W \in G
        BY <1>1, <3>1, <3>4, ChosenIsIn
      <4>2. Summing(f, W, Sums(f, W)) /\ IsFiniteSet(W)
        BY <3>2, <4>1, FS_Subset
      <4>3. Sums(f, V)[V] = f[Chosen(V)] + Sums(f, V)[W]
        <5>1. V \in SUBSET V
          OBVIOUS
        <5> HIDE DEF V
        <5> QED BY <3>2, <3>4, <5>1, SummingMeans
      <4>4. Sums(f, W)[W] = Sums(f, V)[W]
        BY <3>2, <4>1, <4>2, SummingIsOne
      <4>5. g[V] = f[Chosen(V)] + Sums(f, W)[W]
        BY <3>1, <3>4
      <4> QED BY <4>3, <4>4, <4>5
    <3> QED BY <3>3, <3>4
  <2>2. Summing(f, T, g)
    <3>1. g = [U \in SUBSET T |-> IF U = {} THEN 0 ELSE f[Chosen(U)] + g[U \ {Chosen(U)}]]
      BY <2>1
    <3> QED BY <3>1 DEF Summing
  <2> HIDE DEF g
  <2>3. Summing(f, T, Sums(f, T))
    BY <2>2 DEF Sums
  <2> QED BY <2>3
<1> HIDE DEF G
<1>2. \A T \in SUBSET S0 : T \in G
  BY <1>1, SubsetInduction
<1> QED BY <1>2 DEF G

LEMMA SumOfNone == ASSUME NEW f PROVE SumFunctionOnSet(f, {}) = 0
<1>1. Summing(f, {}, Sums(f, {}))
  BY SummingExists, FS_EmptySet
<1> QED BY <1>1, SumUnfolds, SummingMeans

LEMMA SumOfSome ==
  ASSUME NEW f, NEW T, IsFiniteSet(T), T # {}
  PROVE  SumFunctionOnSet(f, T) = f[Chosen(T)] + SumFunctionOnSet(f, T \ {Chosen(T)})
<1> DEFINE U == T \ {Chosen(T)}
<1>1. Summing(f, T, Sums(f, T)) /\ Summing(f, U, Sums(f, U)) /\ U \in SUBSET T
  BY SummingExists
<1>2. IsFiniteSet(U)
  BY <1>1, FS_Subset
<1>3. Sums(f, U)[U] = Sums(f, T)[U]
  BY <1>1, <1>2, SummingIsOne
<1>4. Sums(f, T)[T] = f[Chosen(T)] + Sums(f, T)[U]
  BY <1>1, SummingMeans
<1> QED BY <1>3, <1>4, SumUnfolds

(* The sum depends on the values in the set only, and is an integer. *)
LEMMA SumDependsOn ==
  ASSUME NEW S0, IsFiniteSet(S0), NEW f, NEW g, \A x \in S0 : f[x] = g[x] /\ f[x] \in Int
  PROVE  \A T \in SUBSET S0 :
           SumFunctionOnSet(f, T) = SumFunctionOnSet(g, T) /\ SumFunctionOnSet(f, T) \in Int
<1> DEFINE G == {T \in SUBSET S0 : /\ SumFunctionOnSet(f, T) = SumFunctionOnSet(g, T)
                                   /\ SumFunctionOnSet(f, T) \in Int}
<1>1. ASSUME NEW T \in SUBSET S0, \A U \in SUBSET T : U # T => U \in G
      PROVE  T \in G
  <2>1. CASE T = {}
    BY <2>1, SumOfNone
  <2>2. CASE T # {}
    <3>1. Chosen(T) \in T /\ T \ {Chosen(T)} \in G
      BY <1>1, <2>2, ChosenIsIn
    <3>2. IsFiniteSet(T)
      BY FS_Subset
    <3>3. /\ SumFunctionOnSet(f, T) = f[Chosen(T)] + SumFunctionOnSet(f, T \ {Chosen(T)})
          /\ SumFunctionOnSet(g, T) = g[Chosen(T)] + SumFunctionOnSet(g, T \ {Chosen(T)})
      BY <2>2, <3>2, SumOfSome
    <3> QED BY <3>1, <3>3
  <2> QED BY <2>1, <2>2
<1> HIDE DEF G
<1>2. \A T \in SUBSET S0 : T \in G
  BY <1>1, SubsetInduction
<1> QED BY <1>2 DEF G

(* Whichever element is taken out first. *)
LEMMA SumWithout ==
  ASSUME NEW S0, IsFiniteSet(S0), NEW f, \A x \in S0 : f[x] \in Int
  PROVE  \A T \in SUBSET S0 : \A x \in T :
           SumFunctionOnSet(f, T) = f[x] + SumFunctionOnSet(f, T \ {x})
<1> DEFINE F(T) == SumFunctionOnSet(f, T)
           G == {T \in SUBSET S0 : \A x \in T : F(T) = f[x] + F(T \ {x})}
<1>1. ASSUME NEW T \in SUBSET S0, \A U \in SUBSET T : U # T => U \in G
      PROVE  T \in G
  <2>1. ASSUME NEW x \in T PROVE F(T) = f[x] + F(T \ {x})
    <3> DEFINE c == Chosen(T)
    <3>1. c \in T /\ IsFiniteSet(T)
      BY ChosenIsIn, FS_Subset
    <3>2. F(T) = f[c] + F(T \ {c})
      BY <3>1, SumOfSome
    <3>3. CASE x = c
      BY <3>2, <3>3
    <3>4. CASE x # c
      <4>1. T \ {c} \in G /\ x \in T \ {c} /\ T \ {x} \in G /\ c \in T \ {x}
        BY <1>1, <3>1, <3>4
      <4> DEFINE rest == F((T \ {x}) \ {c})
      <4>2. F(T \ {c}) = f[x] + rest
        <5>1. (T \ {c}) \ {x} = (T \ {x}) \ {c}
          OBVIOUS
        <5> QED BY <4>1, <5>1
      <4>3. F(T \ {x}) = f[c] + rest
        BY <4>1
      <4>4. rest \in Int /\ f[x] \in Int /\ f[c] \in Int
        BY <3>1, SumDependsOn
      <4> HIDE DEF F, c, rest
      <4> QED BY <3>2, <4>2, <4>3, <4>4
    <3> QED BY <3>3, <3>4
  <2> QED BY <2>1
<1> HIDE DEF G
<1>2. \A T \in SUBSET S0 : T \in G
  BY <1>1, SubsetInduction
<1> QED BY <1>2 DEF G

(* One more element adds its value. *)
LEMMA SumWith ==
  ASSUME NEW T, IsFiniteSet(T), NEW f, NEW x, x \notin T, \A y \in T \cup {x} : f[y] \in Int
  PROVE  SumFunctionOnSet(f, T \cup {x}) = f[x] + SumFunctionOnSet(f, T)
<1>1. IsFiniteSet(T \cup {x})
  BY FS_AddElement
<1>2. T \cup {x} \in SUBSET (T \cup {x}) /\ x \in T \cup {x} /\ (T \cup {x}) \ {x} = T
  OBVIOUS
<1>3. SumFunctionOnSet(f, T \cup {x}) = f[x] + SumFunctionOnSet(f, (T \cup {x}) \ {x})
  BY <1>1, <1>2, SumWithout
<1> QED
  BY <1>2, <1>3

-----------------------------------------------------------------------------
(* The sum is that of finitely many demands: VMs are hosted one by one.    *)
SharedInv == IsFiniteSet(hosted) /\ RamIsShared

LEMMA SharedStep == ShareTypeOK /\ SharedInv /\ [ShareNext]_shareVars => SharedInv'
<1> SUFFICES ASSUME ShareTypeOK, SharedInv, [ShareNext]_shareVars
             PROVE  SharedInv'
  OBVIOUS
<1> USE ShareAssumption
<1>1. CASE UpdateSchedule
  <2>1. hosted' = hosted /\ remaining' = Ram /\ saturated' = {} /\ asked' = asked
    BY <1>1 DEF UpdateSchedule
  <2>2. SumFunctionOnSet(asked, {}) = 0
    BY SumOfNone
  <2> QED
    BY <2>1, <2>2 DEF SharedInv, RamIsShared
<1>2. ASSUME NEW v \in VM, Host(v)
      PROVE  SharedInv'
  <2>1. hosted' = hosted \cup {v} /\ UNCHANGED <<remaining, asked, saturated>>
    BY <1>2 DEF Host
  <2>2. IsFiniteSet(hosted')
    BY <2>1, FS_AddElement DEF SharedInv
  <2> QED
    BY <2>1, <2>2 DEF SharedInv, RamIsShared
<1>3. ASSUME NEW v \in VM, Visit(v)
      PROVE  SharedInv'
  <2>1. PICK demand \in Workload(v) :
          /\ asked' = [asked EXCEPT ![v] = demand]
          /\ \/ /\ remaining' = remaining - demand
                /\ saturated' = saturated \cup {v}
             \/ UNCHANGED <<remaining, saturated>>
    BY <1>3 DEF Visit
  <2>2. hosted' = hosted /\ v \in todo
    BY <1>3 DEF Visit
  <2>3. /\ demand \in 0..MaxDemand /\ remaining \in 0..Ram /\ v \notin saturated
        /\ asked \in [VM -> 0..MaxDemand] /\ saturated \subseteq VM
        /\ saturated \in SUBSET hosted
    BY <2>2, WorkloadInRange DEF ShareTypeOK
  <2>4. IsFiniteSet(hosted) /\ IsFiniteSet(saturated)
    BY <2>3, FS_Subset DEF SharedInv
  <2>5. /\ asked'[v] = demand
        /\ \A w \in saturated : asked[w] = asked'[w] /\ asked[w] \in Int
        /\ \A w \in saturated \cup {v} : asked'[w] \in Int
    BY <2>1, <2>3
  <2>6. /\ SumFunctionOnSet(asked, saturated) = SumFunctionOnSet(asked', saturated)
        /\ SumFunctionOnSet(asked, saturated) \in Int
    <3>1. saturated \in SUBSET saturated
      OBVIOUS
    <3> QED
      BY <2>4, <2>5, <3>1, SumDependsOn
  <2>7. SumFunctionOnSet(asked', saturated \cup {v})
          = asked'[v] + SumFunctionOnSet(asked', saturated)
    BY <2>3, <2>4, <2>5, SumWith
  <2>8. remaining + SumFunctionOnSet(asked, saturated) = Ram
    BY DEF SharedInv, RamIsShared
  <2>9. CASE remaining' = remaining - demand /\ saturated' = saturated \cup {v}
    <3>1. remaining' + SumFunctionOnSet(asked', saturated') = Ram
      BY <2>3, <2>5, <2>6, <2>7, <2>8, <2>9
    <3> QED
      BY <2>2, <2>4, <3>1 DEF SharedInv, RamIsShared
  <2>10. CASE UNCHANGED <<remaining, saturated>>
    <3>1. remaining' + SumFunctionOnSet(asked', saturated') = Ram
      BY <2>6, <2>8, <2>10
    <3> QED
      BY <2>2, <2>4, <3>1 DEF SharedInv, RamIsShared
  <2> QED
    BY <2>1, <2>9, <2>10
<1>4. CASE UNCHANGED shareVars
  BY <1>4 DEF shareVars, SharedInv, RamIsShared
<1> QED
  BY <1>1, <1>2, <1>3, <1>4 DEF ShareNext

LEMMA SharedInitial == ShareInit => SharedInv
<1> SUFFICES ASSUME ShareInit PROVE SharedInv
  OBVIOUS
<1>1. hosted = {} /\ saturated = {} /\ remaining = Ram
  BY DEF ShareInit
<1>2. SumFunctionOnSet(asked, {}) = 0 /\ IsFiniteSet({})
  BY SumOfNone, FS_EmptySet
<1> QED
  BY <1>1, <1>2, ShareAssumption DEF SharedInv, RamIsShared

(* What the saturated VMs asked for and what is left over make up the      *)
(* server's RAM, whatever the order of the loop (greedy.h:30-44).          *)
THEOREM NoRamIsLost == ShareSpec => []RamIsShared
<1>1. SharedInv => RamIsShared
  BY DEF SharedInv
<1> QED
  BY <1>1, SharedInitial, SharedStep, ShareTypeCorrect, PTL DEF ShareSpec

-----------------------------------------------------------------------------
(* The limits of the two types. *)
LEMMA UMaxFacts == IMax \in Nat /\ UMax \in Nat /\ IMax < UMax /\ UMax >= 3
BY RequestAssumption DEF UMax

(* A typed number is an integer, zero if it is none. *)
LEMMA TokenFacts ==
  ASSUME NEW token \in Token
  PROVE  /\ token.n \in Int
         /\ token.kind # "integer" => token.n = 0
<1>1. \A x \in Number : x \in Int
  BY RequestAssumption
<1>2. CASE token \in [kind : {"integer"}, n : Number]
  BY <1>1, <1>2
<1>3. CASE token \in [kind : {"word", "nothing"}, n : {0}]
  BY <1>3
<1> QED
  BY <1>2, <1>3 DEF Token

(* A number that fits wraps around if it has a minus sign, and stays what  *)
(* it is if it has none.                                                   *)
LEMMA ResidueFacts ==
  ASSUME NEW token \in Token
  PROVE  /\ Residue(token) \in 0..UMax
         /\ (token.n >= 0 /\ Fits(token)) => Residue(token) = token.n
<1> DEFINE n == token.n
<1>1. n \in Int /\ UMax \in Nat
  BY TokenFacts, UMaxFacts
<1>2. ASSUME NEW m \in Int
      PROVE  m % (UMax + 1) \in 0..UMax
  BY <1>1
<1>3. ASSUME NEW m \in Int, m >= 0, m <= UMax
      PROVE  m % (UMax + 1) = m
  BY <1>1, <1>3
<1>4. (n >= 0 /\ Fits(token)) => n <= UMax
  BY <1>1 DEF Fits, Magnitude
<1> QED
  BY <1>1, <1>2, <1>3, <1>4 DEF Residue

(* What reading one number gives: nothing is lost but what does not fit.   *)
LEMMA ExtractedFacts ==
  ASSUME NEW token \in Token
  PROVE  /\ Extracted(token).value \in 0..UMax
         /\ Extracted(token).fails \in BOOLEAN
         /\ Extracted(token).fails <=> ~Fits(token)
         /\ Fits(token) => Extracted(token).value = Residue(token)
         /\ ~Fits(token) => Extracted(token).value
                             = IF token.kind = "integer" THEN UMax ELSE 0
<1>1. /\ UMax \in Nat /\ Residue(token) \in 0..UMax /\ token.n \in Int
  BY TokenFacts, UMaxFacts, ResidueFacts
<1>2. Magnitude(token.n) \in Nat
  BY <1>1 DEF Magnitude
<1>3. CASE token.kind # "integer"
  <2>1. ~(Magnitude(token.n) > UMax)
    BY <1>1, <1>3, TokenFacts DEF Magnitude
  <2>2. Extracted(token) = [value |-> 0, fails |-> TRUE]
    BY <1>3, <2>1 DEF Extracted
  <2> QED
    BY <1>1, <1>3, <2>2 DEF Fits
<1>4. CASE token.kind = "integer" /\ Magnitude(token.n) > UMax
  <2>1. Extracted(token) = [value |-> UMax, fails |-> TRUE]
    BY <1>4 DEF Extracted
  <2> QED
    BY <1>1, <1>2, <1>4, <2>1 DEF Fits
<1>5. CASE token.kind = "integer" /\ ~(Magnitude(token.n) > UMax)
  <2>1. Extracted(token) = [value |-> Residue(token), fails |-> FALSE]
    BY <1>5 DEF Extracted, Residue
  <2> QED
    BY <1>1, <1>2, <1>5, <2>1 DEF Fits
<1> QED
  BY <1>3, <1>4, <1>5

-----------------------------------------------------------------------------
(* How many of the three numbers the client has tried to read. *)
NumbersTried ==
  IF phase = "line" THEN 0
  ELSE IF phase = "cpu" THEN 1
  ELSE IF phase = "bandwidth" THEN 2
  ELSE 3

RequestTypeOK ==
  /\ typed \in [1..3 -> Token]
  /\ value \in [1..3 -> 0..UMax]
  /\ failed \in BOOLEAN
  /\ phase \in {"line", "cpu", "bandwidth", "read", "not_provided", "sent",
                "registered_only", "created"}

(* A number is read if it has been tried and all before it fitted.  The    *)
(* failbit says that one did not.                                          *)
ReadInOrder ==
  /\ \A i \in 1..3 :
       value[i] = IF i <= NumbersTried /\ \A j \in 1..3 : j < i => Fits(typed[j])
                  THEN Extracted(typed[i]).value ELSE 0
  /\ failed <=> \E i \in 1..3 : i <= NumbersTried /\ ~Fits(typed[i])

(* What the two checks, for a zero and for more than an int, have found.   *)
CheckedInOrder ==
  /\ phase = "not_provided" => \E i \in 1..3 : value[i] = 0
  /\ phase \in {"sent", "registered_only", "created"} => \A i \in 1..3 : value[i] # 0
  /\ phase = "registered_only" => \E i \in 1..3 : value[i] > IMax
  /\ phase = "created" => \A i \in 1..3 : value[i] <= IMax

(* How far the command is and what has come of it so far. *)
RequestInv == RequestTypeOK /\ ReadInOrder /\ CheckedInOrder

(* Nothing has been read at the beginning. *)
LEMMA RequestInitial == RequestInit => RequestInv
<1> SUFFICES ASSUME RequestInit
             PROVE  RequestInv
  OBVIOUS
<1>1. value = <<0, 0, 0>> /\ phase = "line" /\ failed = FALSE
  BY DEF RequestInit
<1>2. RequestTypeOK
  <2>1. typed \in [1..3 -> Token]
    BY DEF RequestInit
  <2>2. value \in [1..3 -> 0..UMax]
    BY <1>1, UMaxFacts
  <2> QED
    BY <1>1, <2>1, <2>2 DEF RequestTypeOK
<1>3. ReadInOrder
  <2>1. NumbersTried = 0
    BY <1>1 DEF NumbersTried
  <2>2. \A i \in 1..3 : value[i] = 0 /\ ~(i <= NumbersTried)
    BY <1>1, <2>1
  <2> QED
    BY <1>1, <2>2 DEF ReadInOrder
<1>4. CheckedInOrder
  BY <1>1 DEF CheckedInOrder
<1> QED
  BY <1>2, <1>3, <1>4 DEF RequestInv

(* Reading the k-th number. *)
LEMMA ReadNumberStep ==
  ASSUME RequestInv, NEW k \in 1..3, NumbersTried = k - 1, NumbersTried' = k,
         ReadNumber(k), UNCHANGED typed,
         phase' \in {"cpu", "bandwidth", "read"}
  PROVE  RequestInv'
<1>1. /\ typed \in [1..3 -> Token] /\ typed' = typed
      /\ value \in [1..3 -> 0..UMax] /\ failed \in BOOLEAN
  BY DEF RequestInv, RequestTypeOK
<1>2. failed <=> \E i \in 1..3 : i < k /\ ~Fits(typed[i])
  <2>1. failed <=> \E i \in 1..3 : i <= k - 1 /\ ~Fits(typed[i])
    BY DEF RequestInv, ReadInOrder
  <2>2. \A i \in 1..3 : i <= k - 1 <=> i < k
    OBVIOUS
  <2> QED
    BY <2>1, <2>2
<1>3. \A i \in 1..3 :
        value[i] = IF i < k /\ \A j \in 1..3 : j < i => Fits(typed[j])
                   THEN Extracted(typed[i]).value ELSE 0
  BY DEF RequestInv, ReadInOrder
<1>4. \A i \in 1..3 : /\ Extracted(typed[i]).value \in 0..UMax
                      /\ Extracted(typed[i]).fails \in BOOLEAN
                      /\ Extracted(typed[i]).fails <=> ~Fits(typed[i])
  BY <1>1, ExtractedFacts
<1>5. /\ value' \in [1..3 -> 0..UMax]
      /\ failed' \in BOOLEAN
      /\ failed' <=> \E i \in 1..3 : i <= k /\ ~Fits(typed[i])
      /\ \A i \in 1..3 :
           value'[i] = IF i <= k /\ \A j \in 1..3 : j < i => Fits(typed[j])
                       THEN Extracted(typed[i]).value ELSE 0
  <2>1. CASE failed
    <3>1. value' = value /\ failed' = failed
      BY <2>1 DEF ReadNumber
    <3>2. PICK m \in 1..3 : m < k /\ ~Fits(typed[m])
      BY <1>2, <2>1
    <3>3. \A i \in 1..3 : i = k => value[i] = 0
      BY <1>3
    <3>4. ASSUME NEW i \in 1..3
          PROVE  value'[i] = IF i <= k /\ \A j \in 1..3 : j < i => Fits(typed[j])
                             THEN Extracted(typed[i]).value ELSE 0
      <4>1. CASE i < k
        BY <1>3, <3>1, <4>1
      <4>2. CASE i >= k
        <5>1. value'[i] = 0
          BY <1>3, <3>1, <4>2
        <5>2. ~(\A j \in 1..3 : j < i => Fits(typed[j]))
          BY <3>2, <4>2
        <5> QED
          BY <5>1, <5>2
      <4> QED
        BY <4>1, <4>2
    <3>5. \E i \in 1..3 : i <= k /\ ~Fits(typed[i])
      BY <3>2
    <3> QED
      BY <1>1, <2>1, <3>1, <3>4, <3>5
  <2>2. CASE ~failed
    <3>1. /\ value' = [value EXCEPT ![k] = Extracted(typed[k]).value]
          /\ failed' = Extracted(typed[k]).fails
      BY <2>2 DEF ReadNumber
    <3>2. \A j \in 1..3 : j < k => Fits(typed[j])
      BY <1>2, <2>2
    <3>3. value' \in [1..3 -> 0..UMax]
      BY <1>1, <1>4, <3>1
    <3>4. failed' <=> ~Fits(typed[k])
      BY <1>4, <3>1
    <3>5. ASSUME NEW i \in 1..3
          PROVE  value'[i] = IF i <= k /\ \A j \in 1..3 : j < i => Fits(typed[j])
                             THEN Extracted(typed[i]).value ELSE 0
      <4>1. CASE i = k
        <5>1. value'[i] = Extracted(typed[i]).value
          BY <1>1, <3>1, <4>1
        <5> QED
          BY <3>2, <4>1, <5>1
      <4>2. CASE i # k
        <5>1. value'[i] = value[i]
          BY <1>1, <3>1, <4>2
        <5>2. i <= k <=> i < k
          BY <4>2
        <5> QED
          BY <1>3, <5>1, <5>2
      <4> QED
        BY <4>1, <4>2
    <3>6. (\E i \in 1..3 : i <= k /\ ~Fits(typed[i])) <=> ~Fits(typed[k])
      BY <3>2
    <3>7. failed' \in BOOLEAN
      BY <1>4, <3>1
    <3> QED
      BY <3>3, <3>4, <3>5, <3>6, <3>7
  <2> QED
    BY <1>1, <2>1, <2>2
<1>6. ReadInOrder'
  BY <1>1, <1>5 DEF ReadInOrder
<1>7. RequestTypeOK'
  BY <1>1, <1>5 DEF RequestTypeOK
<1>8. CheckedInOrder'
  BY DEF CheckedInOrder
<1> QED
  BY <1>6, <1>7, <1>8 DEF RequestInv

(* A step that reads nothing keeps what was read. *)
LEMMA CheckKeepsNumbers ==
  ASSUME RequestInv, UNCHANGED <<typed, value, failed>>,
         phase \notin {"line", "cpu", "bandwidth"},
         phase' \in {"not_provided", "sent", "registered_only", "created"},
         CheckedInOrder'
  PROVE  RequestInv'
<1>1. NumbersTried = 3 /\ NumbersTried' = 3
  BY DEF NumbersTried
<1>2. RequestTypeOK'
  BY DEF RequestInv, RequestTypeOK
<1>3. ReadInOrder'
  BY <1>1 DEF RequestInv, ReadInOrder
<1> QED
  BY <1>2, <1>3 DEF RequestInv

(* Every step of the command keeps track of what was read and found.       *)
LEMMA RequestStep == RequestInv /\ [RequestNext]_requestVars => RequestInv'
<1> SUFFICES ASSUME RequestInv, [RequestNext]_requestVars
             PROVE  RequestInv'
  OBVIOUS
<1>1. CASE ReadLine
  <2>1. CASE phase = "line" /\ ReadNumber(1) /\ phase' = "cpu"
    <3>1. NumbersTried = 1 - 1 /\ NumbersTried' = 1
      BY <2>1 DEF NumbersTried
    <3> QED
      BY <1>1, <2>1, <3>1, ReadNumberStep DEF ReadLine
  <2>2. CASE phase = "cpu" /\ ReadNumber(2) /\ phase' = "bandwidth"
    <3>1. NumbersTried = 2 - 1 /\ NumbersTried' = 2
      BY <2>2 DEF NumbersTried
    <3> QED
      BY <1>1, <2>2, <3>1, ReadNumberStep DEF ReadLine
  <2>3. CASE phase = "bandwidth" /\ ReadNumber(3) /\ phase' = "read"
    <3>1. NumbersTried = 3 - 1 /\ NumbersTried' = 3
      BY <2>3 DEF NumbersTried
    <3> QED
      BY <1>1, <2>3, <3>1, ReadNumberStep DEF ReadLine
  <2> QED
    BY <1>1, <2>1, <2>2, <2>3 DEF ReadLine
<1>2. CASE CheckNumbers
  <2>1. /\ phase = "read" /\ UNCHANGED <<typed, value, failed>>
        /\ phase' = IF \E i \in 1..3 : value[i] = 0 THEN "not_provided" ELSE "sent"
    BY <1>2 DEF CheckNumbers
  <2>2. CheckedInOrder'
    BY <2>1 DEF CheckedInOrder
  <2> QED
    BY <2>1, <2>2, CheckKeepsNumbers
<1>3. CASE Setup
  <2>1. /\ phase = "sent" /\ UNCHANGED <<typed, value, failed>>
        /\ phase' = IF \E i \in 1..3 : value[i] > IMax THEN "registered_only" ELSE "created"
    BY <1>3 DEF Setup
  <2>2. \A i \in 1..3 : value[i] \in 0..UMax /\ value[i] # 0
    BY <2>1 DEF RequestInv, RequestTypeOK, CheckedInOrder
  <2>3. CheckedInOrder'
    <3>1. phase' \in {"registered_only", "created"}
      BY <2>1
    <3>2. ASSUME NEW i \in 1..3
          PROVE  value'[i] = value[i] /\ value[i] \in Int
      <4>1. value[i] \in 0..UMax
        BY <2>2
      <4> QED
        BY <2>1, <4>1, UMaxFacts
    <3>3. phase' = "registered_only" => \E i \in 1..3 : value'[i] > IMax
      BY <2>1
    <3>4. phase' = "created" => \A i \in 1..3 : value'[i] <= IMax
      BY <2>1, <3>2, UMaxFacts
    <3> QED
      BY <2>2, <3>1, <3>2, <3>3, <3>4 DEF CheckedInOrder
  <2> QED
    BY <2>1, <2>3, CheckKeepsNumbers
<1>4. CASE UNCHANGED requestVars
  BY <1>4 DEF requestVars, RequestInv, RequestTypeOK, ReadInOrder, CheckedInOrder, NumbersTried
<1> QED
  BY <1>1, <1>2, <1>3, <1>4 DEF RequestNext

(* What is in value when all has been read: a number that is not zero was  *)
(* typed as an integer, and so were those before it, which fitted.         *)
LEMMA NonzeroWasTyped ==
  ASSUME RequestInv, phase \notin {"line", "cpu", "bandwidth"},
         NEW i \in 1..3, value[i] # 0
  PROVE  /\ \A j \in 1..3 : j < i => Fits(typed[j])
         /\ typed[i].kind = "integer"
         /\ value[i] = IF Fits(typed[i]) THEN Residue(typed[i]) ELSE UMax
<1>1. NumbersTried = 3 /\ typed[i] \in Token
  BY DEF NumbersTried, RequestInv, RequestTypeOK
<1>2. value[i] = IF \A j \in 1..3 : j < i => Fits(typed[j])
                 THEN Extracted(typed[i]).value ELSE 0
  BY <1>1 DEF RequestInv, ReadInOrder
<1>3. (\A j \in 1..3 : j < i => Fits(typed[j])) /\ value[i] = Extracted(typed[i]).value
  BY <1>2
<1>4. CASE Fits(typed[i])
  BY <1>1, <1>3, <1>4, ExtractedFacts DEF Fits
<1>5. CASE ~Fits(typed[i])
  BY <1>1, <1>3, <1>5, ExtractedFacts
<1> QED
  BY <1>3, <1>4, <1>5

(* A VM is created with three numbers that were typed as integers, fitted  *)
(* both types and are not zero.                                            *)
LEMMA CreatedWasTyped == RequestInv => CreatedAsTyped
<1> SUFFICES ASSUME RequestInv, phase = "created", NEW i \in 1..3
             PROVE  /\ Fits(typed[i])
                    /\ value[i] = Residue(typed[i])
                    /\ value[i] \in 1..IMax
                    /\ typed[i].n >= 0 => value[i] = typed[i].n
  BY DEF CreatedAsTyped
<1>1. /\ value[i] # 0 /\ value[i] <= IMax /\ value[i] \in 0..UMax
      /\ typed[i] \in Token
  BY DEF RequestInv, RequestTypeOK, CheckedInOrder
<1>2. value[i] = IF Fits(typed[i]) THEN Residue(typed[i]) ELSE UMax
  BY <1>1, NonzeroWasTyped
<1>3. Fits(typed[i]) /\ value[i] = Residue(typed[i])
  BY <1>1, <1>2, UMaxFacts
<1>4. value[i] \in 1..IMax
  BY <1>1, UMaxFacts
<1> QED
  BY <1>1, <1>3, <1>4, ResidueFacts

(* What the checks have found decides, and nothing else, whether the name  *)
(* is taken without a VM.                                                  *)
LEMMA NameBurntBecause == RequestInv => NameBurntExactlyWhen
<1> SUFFICES ASSUME RequestInv, phase \in {"created", "registered_only", "not_provided"}
             PROVE  phase = "registered_only" <=> NameBurntBy
  BY DEF NameBurntExactlyWhen
<1>1. \A i \in 1..3 : typed[i] \in Token /\ value[i] \in 0..UMax /\ Residue(typed[i]) \in 0..UMax
  BY ResidueFacts DEF RequestInv, RequestTypeOK
<1>2. \A i \in 1..3 : value[i] # 0 =>
        /\ \A j \in 1..3 : j < i => Fits(typed[j])
        /\ typed[i].kind = "integer"
        /\ value[i] = IF Fits(typed[i]) THEN Residue(typed[i]) ELSE UMax
  BY NonzeroWasTyped
<1>3. 1 \in 1..3 /\ 2 \in 1..3 /\ 3 \in 1..3
  OBVIOUS
<1>4. \A m \in 1..3 : m = 1 \/ m = 2 \/ m = 3
  OBVIOUS
<1>5. ASSUME NEW i \in 1..3
      PROVE  Residue(typed[i]) \in Int /\ value[i] \in Int
  <2>1. Residue(typed[i]) \in 0..UMax /\ value[i] \in 0..UMax
    BY <1>1
  <2> QED
    BY <2>1, UMaxFacts
<1>6. CASE phase = "registered_only"
  <2>1. (\A i \in 1..3 : value[i] # 0) /\ \E i \in 1..3 : value[i] > IMax
    BY <1>6 DEF RequestInv, CheckedInOrder
  <2>2. Fits(typed[1]) /\ Fits(typed[2]) /\ typed[3].kind = "integer"
    <3>1. value[3] # 0
      BY <1>3, <2>1
    <3>2. (\A j \in 1..3 : j < 3 => Fits(typed[j])) /\ typed[3].kind = "integer"
      BY <1>2, <1>3, <3>1
    <3> QED
      BY <1>3, <3>2
  <2>3. \A i \in 1..3 : Fits(typed[i]) => Residue(typed[i]) = value[i]
    BY <1>2, <2>1
  <2>4. ~Fits(typed[3]) \/ \E i \in 1..3 : Residue(typed[i]) > IMax
    <3>1. PICK m \in 1..3 : value[m] > IMax
      BY <2>1
    <3>2. CASE m = 3
      BY <2>3, <3>1, <3>2
    <3>3. CASE m # 3
      <4>1. Fits(typed[m])
        BY <1>4, <2>2, <3>3
      <4>2. Residue(typed[m]) > IMax
        BY <2>3, <3>1, <4>1
      <4> QED
        BY <4>2
    <3> QED
      BY <3>2, <3>3
  <2>5. \A i \in 1..3 : Fits(typed[i]) => Residue(typed[i]) # 0
    BY <2>1, <2>3
  <2> QED
    BY <1>6, <1>3, <2>2, <2>4, <2>5 DEF NameBurntBy
<1>7. CASE phase = "created"
  <2>1. \A i \in 1..3 : /\ Fits(typed[i]) /\ value[i] = Residue(typed[i])
                        /\ value[i] \in 1..IMax
    BY <1>7, CreatedWasTyped DEF CreatedAsTyped
  <2>2. \A i \in 1..3 : Fits(typed[i]) /\ ~(Residue(typed[i]) > IMax)
    BY <1>5, <2>1, UMaxFacts
  <2> QED
    BY <1>7, <1>3, <2>2 DEF NameBurntBy
<1>8. CASE phase = "not_provided"
  <2>1. PICK m \in 1..3 : value[m] = 0
    BY <1>8 DEF RequestInv, CheckedInOrder
  <2>2. SUFFICES ASSUME NameBurntBy
                 PROVE  FALSE
    BY <1>8
  <2>3. /\ Fits(typed[1]) /\ Fits(typed[2]) /\ typed[3].kind = "integer"
        /\ Residue(typed[1]) # 0 /\ Residue(typed[2]) # 0
        /\ Fits(typed[3]) => Residue(typed[3]) # 0
    BY <2>2 DEF NameBurntBy
  <2>4. NumbersTried = 3
    BY <1>8 DEF NumbersTried
  <2>5. \A j \in 1..3 : j < m => Fits(typed[j])
    <3>1. \A j \in 1..3 : j < m => j # 3
      OBVIOUS
    <3> QED
      BY <1>4, <2>3, <3>1
  <2>6. value[m] = Extracted(typed[m]).value
    <3>1. m <= NumbersTried
      BY <2>4
    <3> QED
      BY <2>5, <3>1 DEF RequestInv, ReadInOrder
  <2>7. Extracted(typed[m]).value
          = IF Fits(typed[m]) THEN Residue(typed[m])
            ELSE IF typed[m].kind = "integer" THEN UMax ELSE 0
    BY <1>1, ExtractedFacts
  <2>8. Extracted(typed[m]).value # 0
    <3>1. UMax # 0
      BY UMaxFacts
    <3>2. typed[m].kind = "integer" /\ (Fits(typed[m]) => Residue(typed[m]) # 0)
      BY <1>4, <2>3 DEF Fits
    <3> QED
      BY <2>7, <3>1, <3>2
  <2> QED
    BY <2>1, <2>6, <2>8
<1> QED
  BY <1>6, <1>7, <1>8

-----------------------------------------------------------------------------
(* The requested VM is hosted only if it was created, with the RAM typed   *)
(* for it as its demand; if it is saturated that was taken.                *)
TakenInv ==
  /\ ShareTypeOK
  /\ Requested \in hosted => phase = "created"
  /\ phase = "created" => required[Requested] = value[1]
  /\ Requested \in saturated =>
       /\ asked[Requested] = required[Requested]
       /\ remaining + asked[Requested] <= Ram

(* Nobody is hosted at the beginning. *)
LEMMA WorkloadInitial == WorkloadInit => RequestInv /\ TakenInv /\ NoneTurnedDownInVain
<1> SUFFICES ASSUME WorkloadInit
             PROVE  RequestInv /\ TakenInv /\ NoneTurnedDownInVain
  OBVIOUS
<1>1. RequestInv
  BY RequestInitial DEF WorkloadInit
<1>2. ShareTypeOK
  BY ShareAssumption DEF WorkloadInit, ShareInit, ShareTypeOK
<1>3. hosted = {} /\ saturated = {} /\ refused = {} /\ phase = "line"
  BY DEF WorkloadInit, ShareInit, RequestInit
<1> QED
  BY <1>1, <1>2, <1>3 DEF TakenInv, NoneTurnedDownInVain

(* The steps of the server between the command's. *)
LEMMA SharingStep ==
  ASSUME TakenInv, Simulated
  PROVE  TakenInv'
<1> USE ShareAssumption, WorkloadAssumption
<1>1. ShareTypeOK /\ UNCHANGED requestVars
  BY DEF TakenInv, Simulated
<1>2. [ShareNext]_shareVars
  BY DEF Simulated, ShareNext
<1>3. ShareTypeOK'
  BY <1>1, <1>2, ShareTypeStep
<1>4. UNCHANGED <<required, phase, value>>
  BY <1>1 DEF Simulated, requestVars, Visit, Host, UpdateSchedule
<1>5. Requested \in hosted' => phase' = "created"
  <2>1. ASSUME NEW v \in VM, Host(v), v = Requested => phase = "created"
        PROVE  Requested \in hosted' => phase' = "created"
    BY <1>4, <2>1 DEF Host, TakenInv
  <2>2. ASSUME NEW v \in VM, Visit(v)
        PROVE  Requested \in hosted' => phase' = "created"
    BY <1>4, <2>2 DEF Visit, TakenInv
  <2>3. ASSUME UpdateSchedule
        PROVE  Requested \in hosted' => phase' = "created"
    BY <1>4, <2>3 DEF UpdateSchedule, TakenInv
  <2> QED
    BY <2>1, <2>2, <2>3 DEF Simulated
<1>6. Requested \in saturated' =>
        /\ asked'[Requested] = required'[Requested]
        /\ remaining' + asked'[Requested] <= Ram
  <2> SUFFICES ASSUME Requested \in saturated'
               PROVE  /\ asked'[Requested] = required'[Requested]
                      /\ remaining' + asked'[Requested] <= Ram
    OBVIOUS
  <2>1. ASSUME NEW v \in VM, Host(v)
        PROVE  /\ asked'[Requested] = required'[Requested]
               /\ remaining' + asked'[Requested] <= Ram
    BY <2>1 DEF Host, TakenInv
  <2>2. ASSUME NEW v \in VM, Visit(v)
        PROVE  /\ asked'[Requested] = required'[Requested]
               /\ remaining' + asked'[Requested] <= Ram
    <3>1. PICK demand \in Workload(v) :
            /\ asked' = [asked EXCEPT ![v] = demand]
            /\ \/ /\ remaining >= demand
                  /\ remaining' = remaining - demand
                  /\ saturated' = saturated \cup {v}
                  /\ UNCHANGED refused
               \/ /\ remaining < demand
                  /\ refused' = refused \cup {v}
                  /\ UNCHANGED <<remaining, saturated>>
      BY <2>2 DEF Visit
    <3>2. /\ demand \in 0..MaxDemand /\ remaining \in 0..Ram
          /\ asked \in [VM -> 0..MaxDemand] /\ Requested \in VM
      BY <1>1, WorkloadInRange DEF ShareTypeOK
    <3>3. CASE v = Requested
      <4>1. v \in todo /\ v \notin saturated
        BY <1>1, <2>2 DEF Visit, ShareTypeOK
      <4>2. remaining' = remaining - demand
        BY <3>1, <3>3, <4>1
      <4>3. demand = required[Requested]
        BY <3>1, <3>3 DEF Workload
      <4>4. asked'[Requested] = demand
        BY <3>1, <3>2, <3>3
      <4> QED
        BY <1>4, <3>2, <4>2, <4>3, <4>4
    <3>4. CASE v # Requested
      <4>1. Requested \in saturated /\ asked'[Requested] = asked[Requested]
        BY <3>1, <3>2, <3>4
      <4>2. /\ asked[Requested] = required[Requested]
            /\ remaining + asked[Requested] <= Ram
            /\ asked[Requested] \in 0..MaxDemand
        BY <3>2, <4>1 DEF TakenInv
      <4>3. remaining' = remaining - demand \/ remaining' = remaining
        BY <3>1
      <4>4. remaining' + asked[Requested] <= Ram
        BY <3>2, <4>2, <4>3
      <4> QED
        BY <1>4, <4>1, <4>2, <4>4
    <3> QED
      BY <3>3, <3>4
  <2>3. ASSUME UpdateSchedule
        PROVE  FALSE
    BY <2>3 DEF UpdateSchedule
  <2> QED
    BY <2>1, <2>2, <2>3 DEF Simulated
<1> QED
  BY <1>3, <1>4, <1>5, <1>6 DEF TakenInv

(* The steps of the command and of the server keep all three invariants.   *)
LEMMA WorkloadStep ==
  RequestInv /\ TakenInv /\ NoneTurnedDownInVain /\ [WorkloadNext]_workloadVars
    => RequestInv' /\ TakenInv' /\ NoneTurnedDownInVain'
<1> SUFFICES ASSUME RequestInv, TakenInv, NoneTurnedDownInVain, [WorkloadNext]_workloadVars
             PROVE  RequestInv' /\ TakenInv' /\ NoneTurnedDownInVain'
  OBVIOUS
<1>1. CASE (ReadLine \/ CheckNumbers) /\ UNCHANGED shareVars
  <2>1. RequestInv'
    BY <1>1, RequestStep DEF RequestNext
  <2>2. phase # "created" /\ phase' # "created"
    BY <1>1 DEF ReadLine, CheckNumbers
  <2>3. TakenInv'
    BY <1>1, <2>2 DEF TakenInv, ShareTypeOK, shareVars
  <2>4. NoneTurnedDownInVain'
    BY <1>1 DEF NoneTurnedDownInVain, shareVars
  <2> QED
    BY <2>1, <2>3, <2>4
<1>2. CASE SetWorkloadModel
  <2>1. /\ Setup
        /\ required' = [required EXCEPT ![Requested] = IF phase' = "created" THEN value[1] ELSE @]
        /\ UNCHANGED <<hosted, todo, remaining, asked, saturated, refused>>
    BY <1>2 DEF SetWorkloadModel
  <2>2. RequestInv'
    BY <2>1, RequestStep DEF RequestNext
  <2>3. phase = "sent" /\ UNCHANGED value
    BY <2>1 DEF Setup
  <2>4. /\ Requested \notin hosted /\ Requested \in VM
        /\ saturated \subseteq hosted /\ required \in [VM -> 0..MaxDemand]
    BY <2>3, ShareAssumption, WorkloadAssumption DEF TakenInv, ShareTypeOK
  <2>5. phase' = "created" => value[1] \in 0..MaxDemand
    <3> SUFFICES ASSUME phase' = "created"
                 PROVE  value[1] \in 0..MaxDemand
      OBVIOUS
    <3>1. value'[1] <= IMax /\ value' \in [1..3 -> 0..UMax]
      BY <2>2 DEF RequestInv, RequestTypeOK, CheckedInOrder
    <3>2. value'[1] \in 0..UMax
      BY <3>1
    <3> QED
      BY <2>3, <3>1, <3>2, WorkloadAssumption, ShareAssumption, UMaxFacts
  <2>6. required' \in [VM -> 0..MaxDemand]
    BY <2>1, <2>4, <2>5
  <2>7. ShareTypeOK'
    BY <2>1, <2>6 DEF TakenInv, ShareTypeOK
  <2>8. phase' = "created" => required'[Requested] = value'[1]
    BY <2>1, <2>3, <2>4
  <2>9. TakenInv'
    BY <2>1, <2>4, <2>7, <2>8 DEF TakenInv
  <2>10. NoneTurnedDownInVain'
    BY <2>1 DEF NoneTurnedDownInVain
  <2> QED
    BY <2>2, <2>9, <2>10
<1>3. CASE Simulated
  <2>1. [ShareNext]_shareVars /\ UNCHANGED requestVars
    BY <1>3 DEF Simulated, ShareNext
  <2>2. RequestInv'
    BY <2>1, RequestStep
  <2>3. NoneTurnedDownInVain'
    BY <2>1, TurnedDownStep DEF TakenInv
  <2> QED
    BY <1>3, <2>2, <2>3, SharingStep
<1>4. CASE UNCHANGED workloadVars
  <2>1. RequestInv'
    BY <1>4, RequestStep DEF workloadVars, requestVars
  <2> QED
    BY <1>4, <2>1 DEF workloadVars, TakenInv, ShareTypeOK, NoneTurnedDownInVain
<1> QED
  BY <1>1, <1>2, <1>3, <1>4 DEF WorkloadNext

(* The invariant says what the server takes. *)
LEMMA TypedThenTaken == RequestInv /\ TakenInv => TypedIsTaken
<1> SUFFICES ASSUME RequestInv, TakenInv, Requested \in saturated
             PROVE  /\ asked[Requested] = Residue(typed[1])
                    /\ Residue(typed[1]) > 0
                    /\ remaining + Residue(typed[1]) <= Ram
  BY DEF TypedIsTaken
<1>1. phase = "created"
  BY DEF TakenInv, ShareTypeOK
<1>2. value[1] = Residue(typed[1]) /\ value[1] \in 1..IMax
  BY <1>1, CreatedWasTyped DEF CreatedAsTyped
<1> QED
  BY <1>1, <1>2 DEF TakenInv

(* The three invariants together hold in every state. *)
LEMMA WorkloadInvariant == WorkloadSpec => [](RequestInv /\ TakenInv /\ NoneTurnedDownInVain)
BY WorkloadInitial, WorkloadStep, PTL DEF WorkloadSpec

(* Whatever is typed for the three numbers and whatever the word size, a   *)
(* VM that is created has the numbers that were typed, modulo the word     *)
(* size (rpc-client.cpp:37-59, constant.h:8-32).                           *)
THEOREM NumbersArriveAsTyped == WorkloadSpec => []CreatedAsTyped
BY WorkloadInvariant, CreatedWasTyped, PTL

(* A create-vm line takes its name without a VM if and only if a number in *)
(* it passes for a uint32_t, is not zero and is no int (world.cpp:126-146, *)
(* constant.h:8-32).                                                       *)
THEOREM NamesAreBurntBy == WorkloadSpec => []NameBurntExactlyWhen
BY WorkloadInvariant, NameBurntBecause, PTL

(* The RAM that a saturated VM takes from its server is the number typed   *)
(* for it, and there was that much (greedy.h:30-44).                       *)
THEOREM RamTypedIsRamTaken == WorkloadSpec => []TypedIsTaken
BY WorkloadInvariant, TypedThenTaken, PTL

LEMMA SharedWorkload == TakenInv /\ SharedInv /\ [WorkloadNext]_workloadVars => SharedInv'
<1> SUFFICES ASSUME TakenInv, SharedInv, [WorkloadNext]_workloadVars
             PROVE  SharedInv'
  OBVIOUS
<1>1. ShareTypeOK
  BY DEF TakenInv
<1>2. CASE SetWorkloadModel
  <2>1. UNCHANGED <<hosted, remaining, asked, saturated>>
    BY <1>2 DEF SetWorkloadModel
  <2> QED
    BY <2>1 DEF SharedInv, RamIsShared
<1>3. CASE ~SetWorkloadModel
  <2>1. [ShareNext]_shareVars
    BY <1>3 DEF WorkloadNext, Simulated, ShareNext, workloadVars, shareVars
  <2> QED
    BY <1>1, <2>1, SharedStep
<1> QED
  BY <1>2, <1>3

(* What holds of the greedy scheduler alone holds of it under the demands  *)
(* that the console sets: the RAM is shared out, no more of it than there  *)
(* is, and no VM is turned down in vain.                                   *)
THEOREM SharesStayRight ==
  WorkloadSpec => [](ShareTypeOK /\ NoneTurnedDownInVain /\ RamIsShared)
<1>1. TakenInv => ShareTypeOK
  BY DEF TakenInv
<1>2. WorkloadInit => SharedInv
  BY SharedInitial DEF WorkloadInit
<1>3. SharedInv => RamIsShared
  BY DEF SharedInv
<1> QED
  BY <1>1, <1>2, <1>3, WorkloadInvariant, SharedWorkload, PTL DEF WorkloadSpec

=============================================================================
