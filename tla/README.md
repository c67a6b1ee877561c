# A TLA+ model of the cloud simulator

This directory holds TLA+ modules that model the simulator engine, TLC configurations
that check them on small instances, and TLAPS proofs of theorems about them. Paths
such as `core/world.cpp` are relative to `src/src/`. `PROJECT.json` maps every
definition to the lines it stands for, and lists the runs, the mutants that show each
property can fail, the hazards and the findings.

    tlc -config MCWorldBatch.cfg MCWorld.tla      # a run
    tlapm WorldProofs.tla                         # a proof module

## 1. The system

A simulator of a cloud. The engine reads a configuration, builds a tree of resources
(cloud, data centers, servers) and a VM storage, and serves RPCs. An RPC inserts an
event in a discrete-time event loop; the `SimulateAll` RPC runs the loop until its
queue is empty. Handlers of events change the state of one actor and schedule more
events. Whenever the last event of a tick has been handled, the loop calls
`update_world()`, which runs the schedulers; these too schedule events.

| component | state | operations | talks to |
|---|---|---|---|
| Event loop (`events/event-loop.*`) | `queue_`: time to deque of events, `current_ts_` | `Insert` (at the head or the end of a deque), `SimulateNextStep`, `SimulateAll`, `SimulateUntil`, `SimulateSteps` | calls handlers and `update_world()` |
| Actor register (`events/actor-register.h`) | actors by UUID, UUIDs by name | `Make`, `GetActor`, `GetActorHandle` | everybody |
| Resource (`infrastructure/resource.*`; cloud, data center, server inherit it) | `power_state_`, `components_` | boot, shutdown, reboot and their completions | passes commands to its components, schedules its own completions |
| Server (`infrastructure/server.*`) | also `virtual_machines_` | `ProvisionVM`, `UnprovisionVM` | `kStart` to the VM |
| VM (`infrastructure/vm.*`) | `state_`, `vm_storage_handle_`, workload model, `owner_` | start, restart, stop, delete and their completions | reports to the storage |
| VM storage (`infrastructure/vm-storage.*`) | `vms_`: VM to status, `state_` | created, provision requested, scheduled, hosted, stopped, deleted | read by the scheduler |
| Cloud scheduler (`custom/cloud-schedulers/place-to-first.h`) | none | `UpdateSchedule`: every pending VM to the first server | storage, server |
| Server schedulers (`custom/server-schedulers/greedy.h`, `core/resource-scheduler.h`) | none | share a server's RAM among its VMs; the result is only logged | read servers and VMs |
| World, RPC service (`core/world.*`, `core/rpc-service.*`) | owns the above | one function per RPC | inserts events, runs the loop |
| Configuration (`core/config.*`, `simulator/simulator.cpp`) | specifications, serials | `ParseSpecs`, `ParseCloud` | `Make` |
| Client (`client/*`) | none | one command line, one RPC, then `SimulateAll` | RPC service |
| Logger (`util/logger.h`) | stack of callbacks | `Push`, `Pop`, `Log` | RPC service streams the log |
| Remote scheduler (`core/rpc-scheduler.h`) | — | never instantiated | — |

### What is hard here

* Every operation is a chain of events across actors. Placing a VM takes five
  (`kVMScheduled` to the storage, `kProvisionVM` to the server, `kStart` and
  `kStartCompleted` to the VM, `kVMHosted` to the storage), each actor keeps its own
  view, and any link may fail alone.
* Several commands may be accepted before anybody calls `SimulateAll`; their chains
  then interleave. Some events go to the head of their deque.
* `update_world()` reads the storage and schedules on its own account. What it
  schedules for the present tick keeps that tick alive: a state in which it always has
  something to schedule is a livelock.
* The clock runs ahead of the queue by a tick while `update_world()`'s events wait,
  and then steps back. `Insert` silently drops events for the past.
* An operation that fails halfway (a VM created without a workload model, a
  configuration rejected after half the cloud was made) leaves a trace.
* gRPC serves RPCs on several threads and nothing in the engine is locked: not the
  queue, the clock, the register, the UUID counter or the stack of log callbacks.
* Replies and log streams may be lost with a connection. Nothing is tried again, and
  the engine goes on with what it has accepted.
* A number typed at the console is read as `uint32_t`, sent as text and read again as
  `int`, after the VM's name has been taken.
* Server schedulers subtract unsigned numbers and call the workload model of whatever
  a server hosts; the null owner of a VM leads to a null notificator.

### What makes each component correct

* Event loop: no event is lost or handled twice, events are handled in order of time,
  simulated time does not go back, the three loops return when they should.
* Resource: a transition once begun ends; commands sent one at a time never fail a
  resource; commands reach the components.
* Storage, VMs, servers, scheduler: they agree on where a VM is; a VM is placed once;
  its status only moves forward; placement alone fails nobody; a pending VM on a
  running cloud gets hosted; `SimulateAll` returns. Under any other scheduler, a VM
  halfway into a state gets there and what is hosted has a workload.
* RPC threads: without overlap everything above holds access by access; what overlap
  can break is known exactly.
* Register: a name leads to the actor it was given to, for ever.
* Server scheduler: RAM is shared out exactly, and nobody is refused in vain.
* Client: what was accepted is simulated; a VM gets the numbers that were typed.
* Log: a client sees its own run, whole and in order.
* Configuration: the engine listens exactly with acceptable configurations, and the
  cloud it has then built is the one written.

## 2. Modules

    EventQueue                  the queue and the frame of a step
     |- Session                 clients: batches of commands, SimulateAll
     |- Resource                power states            Resource + Session = ResourceTree
     |- VMStorage <- VMLifecycle
     |     Resource + VMLifecycle = Server <- PlaceToFirst
     |     PlaceToFirst + Session = World               the whole engine
     |                              World <- AnyScheduler
     |- EventLoop    implements  Agenda
    LoopThreads      implements  Agenda                 until calls overlap
    World            implements  Ledger
    ActorRegister    implements  Directory              until calls overlap
    LogStream                   callbacks, streams, readers
    Console                     prompts and lost connections
    VMRequest + ServerShare = VMWorkload                numbers from the line to the RAM
    Startup                     reading the configuration
    MCResourceTree, MCWorld, MCAnyScheduler, MCLogStream, MCStartup, MCVMWorkload
                                instances for TLC
    *Proofs                     section 4

**EventQueue** (`queue_`, `current_ts_`). An event is its addressee and type; its
`happen_time` is the key it is filed under. `Insert` is `EventLoop::Insert`.
`EndOfStep(t, at, out, updates)` is everything `SimulateNextStep` does around a
handler that schedules `out` for time `at`: pop the head of deque `t`, file `out` with
the clock at `t`, and if the deque is empty erase it, let `update_world()` file one of
the deques of `updates`, and advance the clock by one. The handler and its frame are
one action. On one thread no other code runs in between; `LoopThreads` says how far
this holds on several.

**Session** (RPC service, client). `Accept`/`Submit` serve a command RPC,
`SimulateAll` and `SimulateAllReturns` bracket a run of the loop. A batch is the
commands accepted between two runs; `MaxBatch = 1` is one console client with a good
connection, and `Console` shows how batches arise. RPCs are served one at a time here.

**Resource** has one action per outcome of each handler of `resource.cpp`:
`StartBoot`/`BootIgnored`, `StartShutdown`/`ShutdownIgnored`, `StartReboot` (empty in
the code), `CompleteBoot`, `CompleteShutdown`. `Cascade` is the loop over
`components_` followed by the resource's own completion; all are filed for the present
plus the resource's delay. **ResourceTree** is a cloud without VMs;
`ComponentsFormForest` says what `ParseCloud` builds (a theorem, section 4): every
resource is a component of one other at most, once, and none is below itself.

**VMStorage**, **VMLifecycle**, **Server**, **PlaceToFirst** model the files of the
same names, one action per handler, those included that the program's own events never
reach (`VM::Restart`, `Server::UnprovisionVM`, `VMStorage::MoveToStopped`). `owner` is
the `owner_` of `IActor`, which nothing sets; `crashed` says that `UnprovisionVM` has
dereferenced a null notificator. `UpdateWorld` is the set of deques `update_world()`
may leave: an unordered map is visited in any order, each `kVMScheduled` goes to the
head, each `kProvisionVM` to the end.

**World** composes them: client calls as actions, and `SimulateNextStep`, which hands
the next event to its addressee. `CreateVMFails` is a creation that throws after
`Make` has registered the VM: it has no workload model and the storage never hears of
it. `NobodyStep` is an event for the null UUID, which `actors_.at()` refuses and the
loop then drops. **Ledger** is its abstract specification, without queue and messages:
the stage of every VM, what the server lists, and whether the storage works. It gives
each name once, advances a VM by one stage, lists it while it is being placed and
strikes it for good. What it leaves open once the storage has failed is which VMs the
server takes in: the scheduler then goes on sending it those still pending.

**AnyScheduler** is the world with a scheduler yet to be written. `custom/` is the
place for users' schedulers, so the handlers have to stand events
`FirstAvailableScheduler` never sends. This one is entered each time `update_world()`
is called, with what `PlaceToFirst` does done or not, and then calls `schedule_event`
any number of times (`ScheduleEvent`) until it returns: any event of `Sendable`,
which may be all of `WorldEvent`, commands, placements, completions and reports alike,
for the present tick or a later one, at the head or the end of its deque. All that is
asked (`Seen`) is that it addresses resources, the storage or VMs on the storage, and
names VMs on the storage. The calls are actions of their own; the loop goes on once
`UpdateScheduleReturns`.

**EventLoop** is the loop for arbitrary handlers and an arbitrary `update_world()`,
with its three run functions (`SimulateUntil` and `SimulateSteps` are public but have
no caller here). A handler schedules up to `MaxBatch` events, in any order, for a time
of its choice, and `update_world()` up to as many for the present. **Agenda** is its
abstract specification: a set of due events; a step handles an earliest one and never
loses one. A new event may be refused only if it is for the past: while an event is
handled, for a time before that event's; between two steps, for one not after the event
handled last (the clock is then at that event's time or one tick on, which the Agenda
does not see). `TheAgenda` is the refinement mapping: `waiting` is the set of filed
pairs of time and event, `known` the event objects made, with their `happen_time`.

**LoopThreads** is the same code at the grain of its accesses to `queue_` and
`current_ts_`, run by a thread per RPC: `World`'s read of `Now()`, the comparison with
the past, finding the deque and filing in it are four steps of `Insert`;
`SimulateNextStep` looks at `begin()` and sets the clock, takes the front (line 74),
pops (75), handles, tests for emptiness, erases, and ticks in steps of their own. A
deque is named by the event whose `Insert` created it, so that a use of an erased one
shows (`broken`). `Noted` keeps the history variables; `overlapped` are the RPCs
served while another thread's `SimulateAll` ran. `TheAgenda` maps it to `Agenda` too:
an event that is popped and not yet handled still waits, and one becomes known when its
`Insert` is done with it (`Noticed`), filed or dropped.

**ActorRegister** is `Make` on concurrent threads: read and increment the UUID counter
(`ReadSerial`, `WriteSerial`), emplace in `actors_` (`Emplace`: a second emplace of
the same UUID destroys the new object), look for the name (`CheckName`: it throws
after the actor is in), enter it (`Bind`). **Directory** is its abstract
specification, a map from names to actors that only grows.

**LogStream** has the stack of callbacks of `SimulatorLogger`, the push and pop around
a `SimulateAll`, the stream to each client and its reader; a connection may break at
any moment. `Sent` and `LogMessage` translate severities and names as
`rpc-service.cpp` does (the caller's type goes out as its name too, line 115).

**Console** is the client's loop, for several clients of one engine: a line is read,
is dropped or becomes an RPC, and an accepted RPC is followed by `SimulateAll`.
Replies and streams may be lost; the engine then keeps the command, or goes on
simulating (`orphans`).

**VMRequest** follows the three numbers of `create-vm` through `operator>>` into
`uint32_t`, the text of the RPC and `std::stoi`; `IMax` is the largest `int`, and
`Number` the integers a user may type.
**ServerShare** is `GreedyServerScheduler`, one action per VM of its loop, over an
unordered set, with constant and random workload models. **VMWorkload** composes the
two: the RAM typed is what the model of the new VM asks for.

**Startup** is `World::Setup`, `ParseSpecs` and `ParseCloud`, one action per iteration
of each loop, on configurations as sequences of nodes that are either well formed or
`Malformed`. `uint32_t` counters have `Width` bits. The names of servers are kept as
pairs of specification and serial, which is what `name + "-" + to_string(serial)`
determines uniquely, so that a data center called `a-1` and the first server of `a`
have the same name, as in the code. `StartupAssumption` says what YAML makes of a file:
a sequence or not, and counts that fit `uint32_t`.

Operators called faulty variants are the mutated forms of the definitions next to
them; no specification uses them. They show that each property fails when the code has
that bug.

## 3. Runs

| run | question | bounds | distinct states |
|---|---|---|---|
| `event_loop` | does the loop implement `Agenda`; do its functions return | 4 event objects, times 0..3, 2 events per handler and per `update_world()`, at most 2 steps per `SimulateSteps` | 78 000 |
| `tree_batch` | overlapping power commands on a tree | cloud, data center, 2 servers; 4 commands, 3 per `SimulateAll` | 43 000 |
| `world_batch` | VMs, storage, server and scheduler under batches of commands, some meant for other actors | 1 server, 2 VMs, 6 commands, 3 per `SimulateAll` | 184 000 |
| `any_scheduler` | any scheduler, creations that fail halfway | 1 server, 1 VM, 3 commands, 2 per `SimulateAll`; 2 events of the scheduler, a tick ahead at most; stop and restart take a tick | 375 000 |
| `startup` | every small configuration | 2 specifications, 2 data centers, 2 nodes, integers of 2 bits | 90 000 |
| `threads` | RPC threads, access by access | 2 commands, one of them a provision request, 2 `SimulateAll` threads, handlers that schedule one tick ahead | 183 000 |
| `log_stream` | callbacks and streams of overlapping calls | 3 calls, 2 lines | 425 000 |
| `register` | concurrent calls of `Make` | 3 threads, 2 names, 4 calls | 445 000 |
| `console` | commands that pile up, connections that break | 2 clients, 2 losses, 5 waiting commands | 40 000 |
| `vm_workload` | a VM's numbers, and the RAM they take | 3 VMs, `INT_MAX` 3, 4 units of RAM | 2 540 000 |
| `livelock`, `stopped_server` | one claim of a comment each, violated (section 5) | as short as the counterexample | |

Why the bounds are enough. `event_loop`: four events let a handler and
`update_world()` both schedule in a step that empties a deque while another deque
waits. `tree_batch`: three levels are needed for a cascade to be under way when the
next command arrives; two servers let siblings differ; four commands start a
transition from every state that earlier ones lead to. `world_batch`: the scheduler
uses one server, so one is enough; two VMs are needed for one to be pending while the
other fails the storage; boot, create, provision, stop, delete is five commands, and
one more interferes. Only one of the two VMs is stopped and deleted; the other is
created, perhaps only halfway, and provisioned at any time in the first one's life.
One command sent to the storage by mistake stands for all of them: it has one answer.
Delays are zero there, as in the program, where nothing calls their setters, except
that a deletion takes a tick: a placement can then overtake it. `any_scheduler` sets
two other delays to one, so that an event can meet a transition under way; two events
are a restart and what disturbs it, or the two ends of a deque; the theorems have no
such bound. `startup`: in two bits 3 is the largest count, so the overflow of the
loop's counter and of the serials, and every collision of names, are within the
bounds. `threads`: two commands can overlap each other and a loop, and two loops each
other; a delay of one makes the loop erase a deque and go on to a second. `register`:
a lost update needs two threads, the third overtakes them; the modulus is never
reached, as an assumption says (2^32 in the program). `log_stream`: with three calls
one is pushed and popped inside another while a third comes. `console`: a lost
connection while another client's simulation runs. `vm_workload`: `INT_MAX` is 3 and
`UINT_MAX` 7, and every number typed is next to a limit of either type; 4 units are
less than two demands.

What they show:

* `AgendaKept` (`EventLoop`): although the clock runs ahead and steps back, no event
  is refused but for the past, and none is lost, repeated or handled early.
  `AllAndStepsReturn`; `UntilReturns` with the premise it needs: on a queue with
  nothing due at the goal or later `SimulateUntil` spins for ever.
* `AgendaKept` (`LoopThreads`): the same access by access, as long as no RPC is served
  during another's `SimulateAll`, also when commands overlap each other. This is what
  justifies the large steps of all other modules. `DamageForOverlappedOnly`,
  `BackInTimeForOverlappedOnly`, `CommandsComplete`, `SimulateAllEnds`: what overlap
  does and does not do. A command served during a run may be lost, handled in the
  past, or make an earlier event be handled twice; a command answered before the run
  began is carried out in any case, unless two loops run at once or memory is damaged.
* `TransitionScheduled`: no interleaving strands a resource in a transition.
  `FailsOnlyInBatch`: resources fail only when commands overlap.
  `CommandsReachComponents`: a shutdown given alone takes all components of a resource
  down, a boot brings up those that have not failed.
* `HostedIsPlaced`, `Settled`: server, VM and storage agree while a placement is under
  way and when the loop has returned; a VM whose placement came to nothing, since its
  server was off, stays in `kProvisioning` for good but on no server. `PlacedOnce`:
  although the scheduler visits every pending VM at the end of every tick, it places a
  VM once. `PlacementNeverFailsVM`: the state checks of VMs never meet a stale
  message, while the storage works; a VM that is being deleted, or has failed, is the
  exception, and is what a placement that comes too late finds. `LedgerKept`: with all
  their messages left out, storage, scheduler and server are **Ledger**, also when the
  storage has failed. Nor then do the storage's unguarded writes meet a stale message:
  a status is followed by the next one or by deletion (`StatusMovesForward`, which
  `LedgerKept` implies, is proved and has no run of its own).
  `StorageFailureCause`: all that can fail the storage, which is for good, is a
  provision request for a VM it does not know, a deletion reported when it has already
  been entered, or a command meant for another kind of actor.
  `SimulateAllReturnsUnlessStorageFails`: only a failed storage with a pending VM
  keeps the loop from returning. `ProvisionSucceeds`: one command at a time, a pending
  VM gets hosted. `NeverCrashes`.
* `CompletionUnderWay`: under any scheduler, no VM is left halfway into running,
  restarting or stopping. `HostedHasWorkload`: a VM whose creation failed halfway
  never reaches a server, where the server scheduler would call its missing workload
  model.
* `RejectsTheRightOnes`, `BuiltAsWritten`, `StartupEnds`: startup against a reference
  definition of acceptable configurations.
* `NamesLeadToActors`: a name that was given always leads to a living actor, also when
  two threads draw the same UUID. `HarmNeedsOverlap`, `DirectoryKept`: deletion of an
  actor under its caller, and a name that leads to another's actor, need two calls at
  once; until then a refused `Make` leaves an actor behind that no name reaches, and
  nothing else.
* `WrongCallbackForOverlappedOnly`: a call that no other overlaps has the stack to
  itself. Overlapped ones do pop each other's callback, and a line may then go to a
  writer that is no more (section 5); but the stack never runs empty under a call, and
  no callback stays behind for calls to come. `ClientSeesItsRun`: a call that no
  other overlaps streams its whole run, once and in order, or a beginning of it.
* `BatchIsBounded`, `AcceptedIsSimulated`: without losses at most one command per
  client waits, and each is simulated; every loss adds at most one.
* `CreatedAsTyped`, `NameBurntExactlyWhen`, `TypedIsTaken`: a VM that is created asks
  for what was typed; a number that fits a `uint32_t` and no `int` uses up the name
  and makes no VM. `RamIsShared`, `NoneTurnedDownInVain`: the greedy loop against its
  reference.

`Settled`, `PlacedOnce` and `PlacementNeverFailsVM` are stated for a storage that
works: once failed it answers nothing, and the VMs it knew stay as they are.

Deadlock is checked in `event_loop`. In the other runs clients may stop calling, and
startup ends, so a state without a successor is legitimate; that the engine itself
does not get stuck is what the liveness properties say.

Fairness. The loop, once entered, runs on: weak fairness of a step and of the return,
one of which is always enabled in a running loop. In `ResourceTree` and `World`
clients that have sent commands eventually call `SimulateAll`, as `rpc-client.cpp`
does after every accepted command. Commands themselves are never fair. In `EventLoop`,
calls are not fair. In `LoopThreads` a thread that serves a call is scheduled again
and again, and `SimulateAll`s keep coming; a program that has broken need not go on.
In `Console` programs go on and users need not type. `LogStream`, `ActorRegister`,
`VMWorkload` and `AnyScheduler` state no fairness.

## 4. Proofs

TLAPS checks these for every value of the constants, from the named `ASSUME`s alone.
Every inductive invariant below was first an invariant of a TLC run.

* `ResourceTreeProofs`: `TreeTypeCorrect` and `TransitionsEnd`, for any resources, any
  `Components` relation (a tree or not), all delays, any number and batching of
  commands. The end of every transition under way is in the queue: one lemma says that
  a handler keeps every other event (`EndStaysScheduled`), one that a handler which
  begins a transition files its end (`EndIsScheduled`), one what a handler does to the
  power states (`HandlerPower`). Inductive together with `TreeTypeOK`, whose weight is
  that deques are never empty between steps, so that `SimulateNextStep` may take the
  front of the first one.
  `FailureTakesBatch`: under `ComponentsFormForest` (which TLC evaluates for the
  instance), `FailsOnlyInBatch`. While at most one command has been accepted
  (`AloneInv`), all that waits is of the kind of that command, each end of a
  transition finds the state that transition has set, and a resource that is yet to be
  shut down has no other event to come and nobody below it has any. The last part is
  what needs the forest: a resource reached on two ways would be shut down twice, and
  its second completion, finding it off, would fail it. Boots need no forest, as a
  second one is ignored.
  `StartupRejects`, `StartupBuilds` and `StartupBuildsForest`, for any configurations
  and any width of the counters, from `StartupAssumption`: what YAML makes of a file is
  a sequence or not, and a count fits its type. `StartupInv` relates the state to the
  configuration. What is left of each sequence is its end (`Rest`), and no node before
  it was one to be turned away (`SpecsInv`, `CentersInv`, `GoodNode`); the names and
  the components are those of what was read (`BuiltInv`); the servers of a
  specification are as many as the triples <<data center, node, number>> that have been
  passed, and have the serials up to that number (`CountInv`). A rejected configuration
  is unacceptable since the fault is in it (`ServerFault` for the servers' names, which
  collide only with a written name or when the serials have come round). The last two
  parts hold only while the count of the node at hand is below the largest (`Sane`): at
  the largest the counter wraps, the loop makes servers until a name repeats, and all
  that need be known then is that the configuration is not acceptable.
  `StartupBuildsForest` ties the two halves of the module together: any order in which
  the sets of components may be yielded is a `Components` that satisfies
  `ComponentsFormForest`.
* `EventQueueProofs`: the facts about a step these rest on, for any events:
  `StepQueueType` (a step leaves a well-typed queue), `StepKeeps` (it loses no event
  but the one it handles), `StepFiles` (it files all that the handler schedules for
  the present or later), `InsertKeeps` and `InsertNow` (the same for events scheduled
  outside a step, at any time and for the present); and, for invariants that
  count events, `StepSources` and `InsertSources`: where each position of the new
  queue comes from.
* `EventLoopProofs`: `ImplementsAgenda`, the refinement `event_loop` checks. The
  mapping turns deques into a set of pairs, which loses position, so the invariant
  (`LoopInv`) says that no event is filed twice (`Once`), that what is filed was made
  for that time and not handled, and that nothing is filed before the last time. `Pop`,
  `File` and `Drop` say what the three operations on the map do to what is filed, for
  any number of new events (`JoinedDistinct`); `StepOnMap` composes them to a step,
  `StepEffect` says which entries it gains (`NewEntries`), and `StepHandles` shows that
  it is a `Handle` of the earliest entry.
* `WorldProofs`, first part: `AnyTypeCorrect`, `WorkloadsAreThere`,
  `CompletionsComing`, for any scheduler as above, with any `Sendable`, any number of
  events and any distance ahead (its bounds are constants). The type invariant is
  inductive only with what the events carry: `Filed` says that every event in the
  queue is for somebody registered, and that reports of creation and placements are
  about VMs whose creation went through; `ActorsInv` that storage and servers only
  know such VMs. One lemma per handler (`ResourceKeeps`, `VMKeeps`, `StorageKeeps`,
  `ServerKeeps`, `NobodyKeeps`), one for calls, and one for what the scheduler
  schedules (`ScheduleEventKeeps`), which needs that the clock has moved on by then
  (`AnyInv`). `CompletionsComing` adds, per VM handler, that the completion it may
  have consumed is not needed, or is filed again (`HandledIsUnderWay`). Second part,
  for the program's own scheduler: `RunningIsListed` and `NotificatorNotRead`.
  `HostedIsPlaced` is not inductive: a VM that starts is listed because the event that
  starts it was sent by the server that had listed it, and so is a report of hosting.
  `PlaceableIn(H)` says so of every event in the queue, and also that nobody sends a
  restart and that unprovisioning goes to nobody, which is why the crash is out of
  reach.
* `PlacementProofs`: `SchedulingIsSerial`, `LoopSettles`, `StatusesComeInOrder`,
  `StorageFailsForCause`, `PlacementFailsNoVM`, `ImplementsLedger`. They share one
  invariant, `BooksInv`, whose parts about the books are stated for a storage that
  works. The events that carry a VM from creation to hosting have stages; they wait in
  the present deque only (`StagedAtOnce`), each with the status and the state of the
  VM that it will find (`AllAgree`), those about one VM in the order of the stages
  (`InOrder`), and those that place VMs before all others (`PlacingFirst`): this is
  what makes the scheduler, which looks at a VM again each time the deque empties,
  find a placement done and not under way. `Books` says what the storage has written
  of a VM in each state or what is queued to put it right, and `Idle` and
  `PendingKeepsGoing` say what is left when the loop has returned. As the order within
  a deque matters, the steps rest on `StepSources`. `PlacementFailsNoVM` needs besides
  that a VM has one completed start to come at most, and that it finds the VM starting
  unless it is being deleted or has failed (`StartsOnce`); the two make `PlacingInv`.
  `LoopSettles` needs besides that a VM which a server lists in `kProvisioning` has its
  `kStart` queued (`StartUnderWay`), of which nothing is left when the loop returns.
  `ImplementsLedger` maps each step to one of **Ledger** or to a stutter. The stage of
  a VM is its status on the books, or `announced` while the report of its creation is
  queued, or `absent` before it was made, or else `gone` (`StageOnBooks`). So the proof
  has to follow those reports, in every storage state: only `CreateVM` files one
  (`FilesOthers`, per handler), a step takes away none but the one it handles
  (`ReportsStay`), and none is queued for a VM on the books, or that name would come
  back when the VM is deleted. That the server takes in a VM in `kProvisioning` only is
  `InOrder`: were the VM still pending, its `kVMScheduled` would wait behind.
* `ActorRegisterProofs`: `NamesAlwaysLeadToActors`, `HarmTakesOverlap`,
  `ImplementsDirectory`. The first needs that an object not yet in the table is held
  by one thread only, and that a thread that may enter a name has an entry under its
  UUID, its own or another's (`OwnInv`). The others need, while calls came one by one,
  that UUIDs are the serial numbers of the objects (`SerialInv`), and that the counter
  does not come round.
* `ClientProofs`: `WaitingIsBounded`, for any set of clients, finite or not, as only
  finitely many of them are ever busy (`ConsoleInv`). `WrongCallbackNeedsOverlap`:
  every callback on the stack is of a call that was overlapped or is being served
  (`StackInv`), and there are as many as calls being served. `ClientsSeeTheirRuns`:
  while a call has not been overlapped, the stack is exactly its own callback, so what
  was logged for it is what its stream and its reader hold, in that order
  (`StreamInv`). The client's numbers: `ShareTypeCorrect` (no unsigned subtraction
  goes below zero) and `GreedyIsMaximal`; `NumbersArriveAsTyped`, `NamesAreBurntBy`
  and `RamTypedIsRamTaken`, for any largest `int` and any integers; `NoRamIsLost`. The
  invariants follow the numbers: each is read, and then checked, after the ones before
  it, and what is past has been read as the two conversions say (`RequestInv`); the VM
  asks the server for the first of them (`TakenInv`). `NoRamIsLost` is about a sum,
  which the library computes by taking out one element after the other. Its lemmas go
  by induction over the subsets of a finite set (`SubsetInduction`, from the library's
  `WFMin`, which speaks of sets and not of operators): there is one function that
  takes sums (`SummingExists`, `SummingIsOne`), it depends on the values in the set
  only (`SumDependsOn`), and any element may be taken out first (`SumWithout`), so the
  order of the loop does not matter. The VMs may be infinitely many; the hosted ones
  are finite, as one arrives at a time (`SharedInv`). `SharesStayRight` carries all
  three over to the composed module.
* `LoopThreadsProofs`: `ThreadsKeepTheAgenda`, `DamageNeedsOverlap` and
  `BackInTimeNeedsOverlap`, for any callers, provision requests, simulators and delay.
  The parts of the invariant (`ThreadsInv`) allow for different amounts of overlap.
  However the threads overlap, deques, and the events and deques that threads hold,
  are due at the times of their names (`DequesInv`, `HeldInv`), and overlap is noted
  (`NotedInv`). While one loop runs, it is not behind the last event handled unless it
  takes one of an overlapped command (`TimeInv`). While no RPC has been served during
  a loop, what a thread has found is still there, and an empty deque is looked after
  by the thread that emptied or made it (`IntactInv`). While one loop runs and no
  provision request, which goes to the head of its deque, has been served during it,
  an event is filed once, and the one popped is the one that was read (`OnceInv`). For
  the refinement, no insertion finds its time past (`NoneDropped`), and `AgendaStep`
  maps the end of an insertion (`Emplace`) to a plan, `Handle` to a handling of the
  entry that was popped, which is the earliest, and every other access to a stutter.

Only model-checked:

* all liveness (`CommandsReachComponents`, `AllAndStepsReturn`, `UntilReturns`,
  `SimulateAllReturnsUnlessStorageFails`, `ProvisionSucceeds`, `CommandsComplete`,
  `SimulateAllEnds`, `StartupEnds`, `AcceptedIsSimulated`): fairness and `ENABLED` are
  out of the prover's reach.

Every safety property of a passing run is proved.

## 5. Findings

Two are runs that TLC finds violated; `PROJECT.json` quotes the lines.

1. `livelock`: with v2 known, the batch create v1, provision v1, provision v2:
   provision requests go to the head of the deque, so v2 becomes pending and v1's
   request, handled next, fails the storage because v1 is not known yet. The failed
   storage no longer takes `kVMScheduled`, v2 stays pending, the scheduler reschedules
   it at the end of each pass, and `SimulateAll` never returns.
2. `stopped_server`: a stopped VM stays in its server's set, as `owner_` is never set
   and `kUnprovisionVM` goes to the null UUID.

Other places where the code and its comments part, seen while modelling. The modules
follow the code.

* `infrastructure/vm-storage.h:27`: VMs "that were stopped" have a status of their
  own, but no sender of `kVMStopped` exists; a stopped VM stays hosted for the storage
  and can never be provisioned again.
* `infrastructure/resource.h:20`: "Resource should be in Running state" for
  `kShutdown`; every state but off is accepted. The reboot handler of `resource.cpp`
  is empty.
* `infrastructure/vm.h:18`: "VM should be in Running state" for `kDelete`; a stopped
  one is deleted too.
* `client/client.cpp:55`: "Type 'quit' to exit"; `quit` is an unknown command
  (`Console`, `Unsent`).
* `core/rpc-service.cpp:115` sends the caller's type as its name.
* `events/event-loop.cpp:73`: "ts_queue cannot be empty"; it can when RPCs overlap
  (`LoopThreads`).
* `core/rpc-service.cpp:123`: overlapping `SimulateAll`s pop each other's callback,
  and a log line then goes to a writer that is no more (`LogStream`, `LogBreaks`).
* `events/actor-register.h:12`: the register is "responsible for owning all IActor
  objects"; two threads that draw the same UUID make it destroy one that its caller
  uses (`ActorRegister`).

## 6. What is not modelled

* `client/cli.cpp`, `cli.h`: key bindings, history, hints and colours of the line
  editor; only what a line leads to is in `Console`.
* `RPCScheduler` is never instantiated; what it would send is in `AnyScheduler`.
* Console and CSV output of the logger, and its formatting; energy accounting
  (`SpentPower`), which has no caller.
* Reading YAML and command-line arguments, and gRPC's encoding: libraries. `Startup`
  starts from nodes that are well formed or not.
* `FirstAvailableScheduler` takes the first server of the first data center without a
  look at their number; `FirstServerAssumption` excludes an empty one.
* Corruption inside a container by two unsynchronised accesses: the modules have one
  step per access, so they say what the best build can do, not the worst.
* The 2^32nd UUID.

## 7. Plan

Done: the loop and the resources; VMs and the world; startup; the threads, the log,
the register, the console and the workloads; any scheduler; eight proof modules, which
prove every safety property for any cloud, configuration and clients.

Left, in this order:

1. The VMs' own states in **Ledger**: which of them goes with which stage.
2. `Startup` composed with `World`, which would turn `FirstServerAssumption` into a
   property.
