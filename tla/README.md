# Formal model of FicsIt-Networks

FicsIt-Networks is a mod for the factory game Satisfactory. It adds programmable
computers, network cables and cards, module panels, and the reflection that lets a
Lua program read and drive the machines of a factory. This directory models the
parts of it whose correctness depends on order: who runs a Lua state when, what a
cached circuit says after the cables were changed, what a computer does while CPUs,
EEPROMs, drives, players, futures, signals, saves and loads come and go, and what its
screens and its log show meanwhile.

Paths below leave out `src/Source/FicsItNetworks/Private/` and its siblings where
the file name says enough; `PROJECT.json` gives every definition its file and lines.

| Module | What it is | Checked by | Proved in |
| --- | --- | --- | --- |
| `LuaLease` | abstract: a lease on the Lua state | as a property of `LuaScheduler` | |
| `LuaScheduler` | the tick helper of the Lua processor and the kernel life cycle around it | `LuaScheduler` | `LuaScheduler_proofs` |
| `NetworkCircuit` | nodes, cables and the circuits that cache what is connected | `NetworkCircuit`, `NetworkCircuit_loss` | `NetworkCircuit_proofs` |
| `ComputerCase` | CPUs, EEPROM, kernel, futures, save and load of one computer | `ComputerCase` | `ComputerCase_proofs` |
| `SignalQueue` | who listens to whom, hooks, and the signal queue of each computer | `SignalQueue`, `SignalQueue_save` | `SignalQueue_proofs` |
| `MessageRouting` | network messages through routers and access points | `MessageRouting`, `MessageRouting_wireless` | `MessageRouting_proofs` |
| `Storage` | drive bays, the kernel's drives, DevDevice, mounts | `Storage`, `Storage_unmount` | `Storage_proofs` |
| `ScreenBinding` | GPUs and screens that bind each other by mutual recursion | `ScreenBinding` | `ScreenBinding_proofs` |
| `ComputerLog` | the log of a computer and its copies on the clients | `ComputerLog` | `ComputerLog_proofs` |

To check: `tlc -config LuaScheduler.cfg MCLuaScheduler.tla`, and likewise for the
other configurations (`<X>.cfg` or `<X>_<run>.cfg` goes with `MC<X>.tla`). To prove:
`tlapm <X>_proofs.tla`; the longest takes some minutes from nothing.

## 1. Inventory

For each component: its state, its operations, what it interacts with, what is hard
about it and what makes it correct.

**Lua tick scheduler** (`FINLuaProcessor.cpp/.h`, `FFINLuaProcessorTick`). State:
`State` (sync, async), eight `bShould...` flags, `bDoSync`, `bWaitForSignal`, the
promises `AsyncSync` and `SyncAsync`, two mutexes, one `FAsyncTask`. Operations:
`syncTick`, `asyncTick`, `promote`, `demote`, `demoteInAsync`, `postTick`, `stop`,
`reset`, `LuaTick`, `FLuaSyncCall`, the garbage collection and save hooks. Two
threads share a Lua state that no lock protects; a promoted program that calls an
API function is suspended in the middle of a C call until the game thread grants
itself to it. Correct when the state is never used by two threads, when an API call
runs only while the game waits, when no promise is fulfilled twice, when nobody waits
for ever, and when a stopped computer runs nothing.

**Lua API** (`LuaComputerAPI.cpp`, `LuaEventAPI.cpp`). `computer.stop`, `reset`,
`panic`, `promote`, `demote`, `skip`, `event.pull`. Raises scheduler flags; a pull
suspends the program until a signal or a timeout.

**Kernel life cycle** (`FicsItKernel.cpp/.h`). State: off, running, reset, crashed;
processor, futures, drives, DevDevice. Driven by the case, by its processor and by
futures, each of which may change it while another one is in the middle of using it.
Correct when a running kernel has a processor with a program, and when every ending a
program asked for happens.

**Computer case** (`FINComputerCase.cpp/.h`). State: lists of processors, memory,
PCI devices and drive holders, the data storage (EEPROM, floppy), `InternalKernelState`.
Operations: `AddModule`, `RemoveModule`, `OnEEPROMChanged`, `Toggle`, `netFunc_*`,
`TickActor`, save and load. Keeps copies of what others own. Correct when the kernel's
processor and the processor's EEPROM are what is plugged in.

**Futures** (`FINFuture.h`, `LuaFuture.cpp`, `FicsItKernel.cpp:196`). Queue of calls
that must run on the game thread; filled by the worker at any time, handled in
`TickActor` and before a save. A future may stop the very computer that queued it. The
program holds the future of a call to await its result; a load queues those again that are
not done. Correct when no awaited call is lost or made twice.

**Network circuits, connectors, cables** (`FINNetworkCircuit.cpp`,
`FINAdvancedNetworkConnectionComponent.cpp`, `FINNetworkConnectionComponent.cpp`,
`FINNetworkCable.cpp`, `FINNetworkCableHologram.cpp`, PCI part of the case). State:
which cables and cards link which nodes, the circuit of each node, the node list of
each circuit. Correct when "same circuit" is "connected by a path", when a lookup
finds exactly what is connected, and when both sides hear of joins and splits.

**Signal queue, signal and hook subsystems** (`NetworkController.cpp`,
`FINSignalSubsystem.cpp`, `FINHookSubsystem.cpp`). Bounded queue per computer, list of
listeners per sender, hooks on actors. Pushed by game and worker threads, popped by
the program. Correct when signals keep their order, the bound holds, a list says what
the programs asked for, whoever else listens, and a save loses or doubles no signal.

**Network messages** (`FINComputerNetworkCard.cpp`, `FINNetworkRouter.cpp`,
`FINWirelessAccessPoint.cpp`). Messages flood through routers and access points;
every hop remembers the messages it has seen until its next tick. Operations: `send`,
`broadcast`, `HandleMessage` of each kind, `open`, `close`, the setters of a router's
lists, `Tick`. A flood is a nest of calls on the thread of the sending computer; several
run at once. Correct when a flood ends, a card signals a message at most once, and those
cards signal it that it is for.

**Drive bay** (`FINComputerDriveHolder.cpp`, `DevDevice.cpp`, `FINFileSystemState.cpp`).
State: the drive in each bay, its lock, `PrevFSState`; the floppy slot of the case; the
kernel's `Drives`; the entries of the DevDevice. Four lists of the same drives, each kept
by another class and told of changes by callbacks, some of them saved and some not.
Correct when the kernel has the drives that are locked in and the DevDevice lists them.

**File system** (`FicsItFS/FileSystem.cpp`, `FileSystemRoot.cpp`, `FicsItFS/Library`).
Mounts with weak references to devices, a cache of device nodes with strong ones, memory
and disk devices. Correct when a run finds nothing an earlier one left.

**Log** (`Logging.cpp`). `LogEntries`, `LogEntriesToAdd`, `bForceEntriesUpdate`.
Programs push from their threads, the case's tick publishes ten entries at a time by
multicasts, and starts from the beginning when a player asks. Correct when nothing is
lost, doubled or out of order and every player ends up with the server's log.

**Module panel** (`FINModuleSystemPanel.cpp`, `FINModuleSystemHolo.cpp`). Grid of
modules with rotation and size; `AllowedModules`; hologram.

**GPU and screen** (`FINComputerGPU*.cpp`, `FINComputerScreen.cpp`, `FINScreen.cpp`).
State: `Screen` and `OldScreenCache` of a GPU, `GPU` of a screen. Each tells the other
by calling it and is called back from inside that call. Correct when the recursion ends
and leaves both agreed. Drawing, double buffers and widgets are presentation.

**Codeable splitter and merger** (`FINCodeableSplitter.cpp`, `FINCodeableMerger.cpp`).
Item queues between belts and program.

**Vehicle scanner, indicator poles, speaker, sizeable panel; internet card;
reflection; Lua values and persistence; user interface, editor, build system,
vendored Lua/eris and Tracy.** Sequential actors with little state, engine I/O,
tables filled once, data conversion, presentation and third-party code.

Interactions. The factory tick of a case ticks its kernel, the kernel ticks the
processor, the processor's scheduler runs Lua on that thread or watches the worker.
Lua pushes futures into the kernel and pulls signals from the controller. The case
plugs cards into its connector, so a card is a node of the case's circuit. Circuit
changes are broadcast as signals, which end in controllers of other computers. The
panel tells the case of modules, the inventory tells it of EEPROMs and floppies.

The hazards, each at its line, are listed in `PROJECT.json`; those that no property
covers carry a note.

## 2. Plan

Order: what a user cannot work around comes first.

1. *(done)* `LuaScheduler` implementing `LuaLease`; proofs of its safety and of the
   refinement.
2. *(done)* `NetworkCircuit`; proofs of its safety.
3. *(done)* `ComputerCase`, with the kernel as seen from outside; proofs of its safety.
4. *(done)* `SignalQueue`, the signal and hook subsystems with the queues; proofs of its
   safety.
5. *(done)* `MessageRouting`: cards, routers, access points over any small network;
   proofs that floods do not loop, deliver once and reach exactly whom they are for.
6. *(done)* `Storage`: bays, floppy, kernel drives, DevDevice, mounts; proofs.
7. *(done)* `ScreenBinding` and `ComputerLog`; proofs.
8. *(done)* The promises of futures in `ComputerCase`: done or not, held or not, and what
   a load queues again; proof that no call is lost or made twice.
9. *(open)* The grid of `ModulePanel`, and `Computer`, composing `ComputerCase`, `Storage`
   and `SignalQueue` with the kernel operations they share.

Every safety and action property that a passing run checks is also a theorem. Liveness
under fairness stays with TLC (section 12).

No module declares a RECURSIVE operator, so all of them can be proved about.

## 3. LuaScheduler and LuaLease

### How state and actions correspond to the code

Two threads: `game` and `worker`. The game thread is the engine's game thread with
everything it calls in turn: factory tick, user, futures, garbage collection, saves.
(`Factory_Tick` may run on a pool thread, but the engine waits for it before it goes
on.) The worker is the `FAsyncTask` of the processor. A label of `pc` is a place in a
function at which the other thread can make a difference:

| Labels | Code |
| --- | --- |
| `post1`, `branch`, `sEnsure`, `sLock`, `lua`, `api`, `end`, `sPromote`, `post2` | `syncTick`, the sync half |
| `aRead`, `grant`, `awaitAsync`, `clearSync`, `restart` | `syncTick`, the async half |
| `dLock` ... `dUnlock` | `demote()` |
| `pEnsure`, `pLaunch`, `pState` | `promote()` |
| `setReset`, `procReset` | the kernel's `Reset()`, the processor's `Reset()` |
| `gc`, `persist` | a collection; `PreSaveGame` |
| `check`, `lock`, `lua`, `api`, `end`, `handoff`, `flags` | `asyncTick` |
| `release`, `await`, `relock` | `demoteInAsync` |

`kernel` is the kernel's state, `tickState` the helper's `State`, `should` the set of
raised flags, `promise` and `future` the two promises and the futures waited on,
`pullState`, `timedOut` and `signals` what a pull looks at. `AsyncSyncMutex` has no
variable: each of its critical sections is short, waits for nothing inside, and is one
action. `TickMutex` is held across Lua ticks and has one.

Choices worth knowing:

* `demote()` ends with a second `Unlock` of `TickMutex`. On pthread systems that is
  refused (EPERM) and has no effect, which is what `DemoteUnlock` does; on Windows it
  is undefined.
* `EnsureCompletion` takes a task back that no pool thread has begun and runs it on
  the caller, where `asyncTick` returns at once in the sync state (`Completable`).
* `computer.promote` and `skip`, `event.pull`, the end or failure of the program, and
  the instruction hook's yield are Lua steps. Every other API function stands for one
  of five kinds of `FLuaSyncCall`: `plain`, `stop`, `reset`, `panic`, `demote`.
* `promote` stays in `should` after a promotion: only `reset()` lowers it in the code.
* An out-of-memory crash after a yield is a free choice (`Yielded`).
* `tickHook`, `apiReturn` and the `_ERROR`, `_END` bits of the state are never reached
  from the running code and are left out.

`LuaLease` says what all this is for: the Lua state is free, with the game, with the
worker, suspended, or with the worker under a grant. `LeaseOf` maps a scheduler state
to a lease, and `ImplementsLease` says each step of the scheduler is a step of the
lease or none.

### Runs

* `LuaScheduler` (up to two queued signals; 16 thousand states, a minute). All safety
  properties, the refinement, and liveness. `NeverStuck`: the two threads never wait for
  each other, and a request for the game thread stands until it is granted or the worker
  is woken. `GameReturns`: the game thread never hangs in a lock, a promise
  or a task. `SyncCallAnswered`: a worker that asked for the game gets it or is woken.
  `PullAnswered`: a pull ends once a signal or the timeout is there, over any number of
  promotions and demotions. `EndingHonoured`: stop, reset and panic happen. Two signals are
  enough to answer a pull and leave one; the number is only compared with 0 anywhere.

### Fairness

`FairSpec` assumes no more than the engine's scheduling gives:

* weak fairness of `GameStep` and `WorkerStep`: both threads keep running;
* strong fairness of `KernelTick`: the factory keeps ticking between collections,
  saves and clicks;
* strong fairness of `DemoteLock` and `LuaTickBegin`: a thread that keeps trying gets
  `TickMutex`. The worker releases it between any two Lua ticks, so it is free again
  and again;
* strong fairness of starting a task in the async state: not every start of a task is
  overtaken by a collection, a save or a stop;
* strong fairness of `LuaYield`: the instruction hook ends every Lua tick; weak
  fairness of `LuaApi`: API functions return.

Nothing is assumed of signals, timeouts, users or the program's choices.

### Proofs

`LuaScheduler_proofs` assumes only `MaxSignalsAssumption` (a positive number).
`HandOffInv` is `TypeOK /\ HandOff` and inductive. None of the properties is inductive
alone: that the Lua state is exclusive at `sLock` depends on the worker having left at
`sEnsure`, which depends on nobody having made the state async since. `HandOff` says
just that:

1. at every `SyncPoint` of the game the state is sync, because only `promote()` leaves
   it and the game thread alone calls `promote()`;
2. a worker that is busy in the sync state has the game waiting for it;
3. a game whose grant has been answered faces a worker that is not busy;
4. where `demote()` and `promote()` return to, and what the task can be at `pLaunch`
   and `pState`;
5. a worker woken from its wait finds the state sync.

`HandOffHolds` proves it an invariant, with one lemma per family of actions;
`LuaIsExclusive`, `SyncCallsHoldGame`, `CollectionIsAlone` and `TypeCorrect` follow.

On top of it `PromiseHolds` proves a second inductive invariant in three parts: who holds
`TickMutex` at which label (`MutexHeld`), that a halted kernel has its helper in the sync
state with the worker on its way out (`HaltedIsSync`), and for each label at which a
promise may be fulfilled whether it is fulfilled already (`Answering`). From it follow
`HaltedQuietly`, `PromisesFulfilledOnce` and `DemoteAnswersWorker`. `SchedulerImplementsLease`
is the refinement: the initial states map to a free lease, and each action maps to a step of
`LuaLease` or to a stutter, by the labels the invariants allow.

Liveness is only model-checked; its safety half is proved. `WaitInv` says who owns
`TickMutex` (`MutexOwned`) and that no wake-up is lost (`Woken`): the future `syncTick` waits
on is of the promise the worker will fulfil, as `doSync` still tells it to, and a worker that
was granted the game or demoted has been woken. With the other two it is inductive
(`WaitsHold`), and `NobodyIsStuck` follows: `NeverStuck` spells the guards of the waiting steps
out, so that it needs no ENABLED. TLC checked the three inductive parts on the instance of
the run before they were proved.

## 4. NetworkCircuit

`Connector`, `Pole` and `Card` are the kinds of node. `ends` are the ends of cables,
`cables` the `ConnectedCables` of each plug, `plugged` the card's side of a PCI link,
`circuit` and `nodes` the two caches. Every call runs on the game thread, so an action
is a whole call with everything it triggers: `BuildPlug`, `BuildCard`, `RemoveCard`,
`SnapFrom` and `PlaceCable` (the two steps of the hologram), `DismantleCable`, and
`Dismantle` ... `Dismantled`, which takes a building down cable by cable. `Load`
forgets what is not saved; `LoadPlug`, `LoadCard` and `LoadCable` are the `BeginPlay`
and `PostLoadGame` calls of the actors, in any order.

`Merge`, `Recalculate`, `ConnectNodes`, `DisconnectNodes` are operators on a record of
the caches. The recursion of `AddNodeRecursive` and `IsNodeConnected_Internal` is
`Reach`, the least closed set. A circuit nobody refers to is garbage.

Runs:

* `NetworkCircuit`: two connectors (one is of a case with a card), a pole, three
  cables, one player, five circuits (one more than there are nodes, so `SpawnActor`
  never fails). Three cables on three plugs of capacity two make a cycle, so cutting
  splits a circuit sometimes and sometimes not. 31 thousand states. Shows that circuits
  are connected components, lookups exact and joins announced, also half way through a
  load and through a dismantling.
* `NetworkCircuit_loss`: "also sends signals to the componentes accordingly"
  (`FINNetworkCircuit.h:12`) fails for splits: both loops of `DisconnectNodes` skip all
  their nodes.

One player is an assumption with weight. A hologram checks the room of its first end when
it starts and not again; two players can both count on the last place. The end that is
full refuses the cable, the circuits are joined all the same, and whatever recalculates
them later sees a link from one side only. With `Player <- TwoPlayers` and `MaxCables <-
ScarceMax` (both in `MCNetworkCircuit`) TLC refutes `CircuitIsComponent` in eight steps.

Proofs (`NetworkCircuit_proofs`): for any connectors, poles, cards, cables and limits,
when one player builds (`OneBuilder`). Three layers:

1. Graphs. `Reach` is the class of a node; a graph that gains the edge of a and b joins
   their two classes and leaves the others (`JoinReach`). No induction is needed, because
   `Reach` is defined as the least closed set.
2. Caches. `Fits` says that each node's circuit lists its class and is the circuit of
   nobody else. `ConnectNodes` makes caches that fit the graph without the edge fit the
   one with it, `DisconnectNodes` the other way round (`ConnectFits`, `DisconnectFits`),
   from what `Recalculate` and operator+ do. `ConnectTold`: who is joined is told.
3. The world. `LinkInv`: a cable is listed at both ends once it began play, a card is
   plugged into its case or waits for it, every end has room (`Roomy`, which is where
   `OneBuilder` is used). Each action changes the graph by one edge or none.

`NetHolds` puts them together; `CircuitsAreComponents`, `LookupsAreExact`,
`JoinsAreAnnounced` and `NetTyped` follow. `CircuitAssumptions` holds what is assumed of
the constants, with "SpawnActor never fails" as the existence of an unused circuit.

Not modelled: replication to clients, wall adapters and poles built by the hologram
itself, connectors without a cable limit (MaxCables -1), fixed hidden links of blueprint
buildings, and dismantling the building a hologram starts at.

## 5. ComputerCase

`kernel` is a record of the kernel's state, whether it has a processor, that
processor's EEPROM and the EEPROM its program came from. `processors`, `slot`,
`futures` (`FutureQueue`) and `InternalKernelState` are the case's and the kernel's members.
A future is a name, and `Asks` says what it calls; `held` are those the running program can
still await, `done` those of them that have their result. A name is free again when nobody
waits for it, so `Future` bounds how many there are at a time, not how many there ever are.

`Stop`,
`Crash`, `Start`, `Reset`, `SetProcessor`, `SetEEPROM` and `ResetProcessor` map the
kernel before a call to the kernel after it; actions compose them as the callers do:
`BuildCpu` and `DismantleCpu` (`AddProcessor`, `RemoveProcessor`), `MoveEEPROM`
(`OnEEPROMChanged`), `Toggle`, `RemoteCall` (`netFunc_startComputer`, `-stopComputer`),
`KernelTick`, `PushFuture`, `luaFutureGC`, `HandleFuture`, `TickActor`, `TellState`, the
phases of a save, and `LoadGame`.

Choices worth knowing:

* Handling futures is taken apart, one future an action, because the worker may queue
  another one meanwhile. It is also why a save has phases: the kernel's `PreSaveGame`
  empties the queue (`save`), the processor's stops the worker and persists the program
  (`Saved`), in the order `GatherDependencies` (`FINLuaProcessor.cpp:429`) gives the engine.
  Between the two (`prepared`) the worker may queue futures again, and a future of another
  computer, whose kernel is prepared then, may start or stop this one. That such a future
  starts it after its processor was prepared is left out: the kernel would be saved as
  running, with the program of an earlier save in `StateStorage`. That the case's
  `PostLoadGame` runs before the processor's is the engine's order.
* A CPU is aimed at when the panel has none and built later: with two players a case
  can get two. All CPUs are of one class (there is one in the mod).
* An EEPROM item gets its state actor when first asked for it, too late for that
  caller (`GetEEPROM`).
* `EditCode` makes code compile or not. It is enough: what a program does is
  `KernelTick`'s `ending` and `PushFuture`.
* A load keeps what is saved: kernel, processor, program if it can be persisted.
  `Processors`, the processor's EEPROM, `InternalKernelState` and `FutureQueue` are not.
  Bringing back the program queues each future it holds that is not done
  (`LuaFuture.cpp:63-66`), in an order of eris' own; a program that cannot be brought back
  may have queued some of its futures before it failed. They are handled all the same, also
  by a kernel that has crashed meanwhile.

`FuturesOnce`: a call the program awaits waits in the queue, once, or has its result, never
both and never neither. A property that is set is the exception: its future is never done
(`FINFuture.h:76-77`), the program that awaits it never goes on, and a load sets the property
again.

Run: `ComputerCase` with three CPUs, two EEPROMs, two players and four futures, one of each
kind of call (814 thousand states): a case with no, one, two and three CPUs, an EEPROM
exchanged for another, futures behind futures that stop, start or crash their computer,
futures queued while the game is saved.

Proofs (`ComputerCase_proofs`, assuming `CaseAssumptions`): for any CPUs, EEPROMs,
players and futures, all properties of the run and `EepromFresh`. `CaseInv` is
`TypeOK`, finiteness of `processors` and `KernelFits` (a processor exactly with one CPU,
running or reset only with a processor, running exactly with a program, EEPROM of the
slot or none). Operations get lemmas of their own (what `Start`, `Execute`,
`AddProcessor`, ... do to a kernel that fits), actions cite them.

`FuturesAreOnce` is proved on top of `TypeOK`, from `FutureInv`: `FuturesOnce`, and that a
computer that does not run holds no futures. Handling takes the head of a queue without
doubles, so it is in the queue no more when it is done (`HandledOnce`); what is queued is new
to both (`QueueEnds`, `FuturesStay`); and a load drops the queue, but the futures
`Unpersisted` puts into the new one are just those that lack a result (`Requeued`).

`PowerButtonStarts` needs `EepromFresh` and the fact that `Toggle` reads the slot
again. `RunningIsPlugged` shows that the "Processor Unplugged" branch of the kernel's
tick is never taken.

## 6. SignalQueue

`Listeners`, `queue` (`SignalQueue`) and `locked` (`bLockSignalReceiving`) are members of
the subsystem and the network controllers; `hooks` are the objects with hooks attached.
`wanted`, what a program asked for, and `seen`, what it pulled or cleared, are kept for
the properties and saved with the persisted program. Actions are the API calls
(`luaListen`, `luaIgnore`, `luaIgnoreAll`, `luaKaito`, `PopSignal`, `ClearSignals`), a
broadcast taken apart into the lookup of its list (`BroadcastSignal`) and one
`HandleSignal` for each listener, `Destroy`, and a save and load in the steps the engine
makes: `PreSaveGame` of each object in any order, `Serialize`, `PostSaveGame` of each
controller, `Load`, `BeginPlay`.

Choices worth knowing:

* Factory ticks run on several threads at once (`bRunOnAnyThread`,
  `FINComputerCase.cpp:57`), and sync calls run inside the tick of their computer. So a
  list may change under a walk of it. C++ defines nothing then; the model marks the walk
  `racy` and lets it hand its signal to anybody who was or is in the list, or to nobody.
  Two unlocked changes of the map at the same time are not modelled. Users, saves and
  destruction wait for the factory ticks (`TickEnded`).
* A worker triggers signals when its program writes files (`FFINKernelListener`), also
  while the game saves, until `PreSaveGame` of its processor stops it.
* Of a trace only both ends matter: `==` compares the end (`FINNetworkTrace.cpp:231`),
  `event.ignore` the start. Handles start at the computer, but for those of `Singleton`.
* A game object signals through its hooks only. Ignoring takes them away with the last
  listener; an empty list has none.
* The queue holds triggers: number, thread, and whether the walk was racy.

Runs:

* `SignalQueue`: two computers, one game object, two factory threads, three signals on
  queues of two, no saves (a million states, with symmetry; a minute). A third signal finds a
  full queue, two walks interleave, and one computer ignores while the other listens.
* `SignalQueue_save`: one computer whose program writes files, its case and a game
  object, one factory thread, two signals, any number of saves and loads (700 thousand
  states). `SaveKeepsSignals` rests on the order of a save: a signal that is
  popped after `Serialize` would be in both halves, and nothing runs then.

`event.ignore` is "basically the opposite of listen" (`Event.adoc:43`), but not for
`computer.media`, whose trace starts at the subsystem: once listened to, it stays so.
`ListensToWanted` excepts objects of `Singleton` from its second half; without the exception
TLC refutes it with `Object <- WithMedia` and `Singleton <- JustMedia`.

Proofs (`SignalQueue_proofs`, assuming `SignalAssumptions`, which name sets that must not
overlap and types of the constants): for any computers, objects, threads, queue sizes and
numbers of signals, all properties of both runs. `SignalInv` is inductive, and TLC checked it on
both instances first. Its parts, each kept by a lemma that goes through the actions:

* `TypeOK`, with lists that hold nobody twice: a walk of a list with a double would deliver
  twice. `Ignore` and `Cleanup` are `Without`, of which `WithoutProperties` says what is left.
* `ListenedIsHooked` (`HookStep`), `ListensToWanted` (`AgreeStep`) and, so that `Load` may
  bring them back, the same agreement of what is on disk (`DiskAgrees`).
* `QueueInv` (`QueueStep`). Order alone is not inductive: that a signal may be appended
  rests on `WalkIsLast`. A broadcast is the last of its thread, and whoever has its signal
  already stands before the place the walk has reached. With lists without doubles, the next
  listener has not got it. A walk whose list changed promises nothing, and its signals are
  excepted by `Before`.
* `Persisted` and `DiskInOrder` (`PersistedStep`, `DiskStep`): a processor that was
  persisted has seen nothing since, so `Serialize` writes two halves that fit, whatever the
  order of the `PreSaveGame` calls and whatever workers not yet stopped do between them.

What `Without` leaves is shown by induction over the list. The induction theorems of the
library take a predicate as parameter, which the provers cannot instantiate; here the
predicate is a set (`InductionBySet`), and that a set of naturals has a least element is
derived from cardinalities (`LeastOfFinite`).

## 7. MessageRouting

A message that a card sends is handed from circuit to circuit by nested calls of
`HandleMessage`, all on the thread that runs the sending computer. `flood[c]` is the
message of card `c` with that nest: a frame is a loop over what is left to be called, with
the components of one circuit (`todo`) and, for an access point, the access points it goes
on to afterwards (`links`). `circuit`, `powered` and `links` are the network; `filter`,
`OpenPorts` and `HandledMessages` are the members of those names. `received` and `promised`
are kept for the properties. `Send` is `netFunc_send` or `netFunc_broadcast`;
`HandleCard`, `HandleRouter`, `FromCircuit`, `FromWireless` and `Unpowered` are the calls a
loop makes, `Return` the end of a loop; `SetFilter`, `SetPorts` are calls of other
computers, `Tick` the actors' ticks.

Choices worth knowing:

* The network is chosen at the start and stays: how circuits change is `NetworkCircuit`'s
  subject. `FindComponent` is `receiver \in GetComponents(...)`.
* The order of the components of a circuit is that of a `TSet`: any.
* A router is noted before it looks at its lists, in one action: nobody can tell a change
  of the lists between the two from one before both.
* Actors tick when all factory ticks have ended. That is the engine's order and not in
  this repository. `AtMostOnce` depends on it: were a router or a card to forget a message
  while it is under way, a copy that comes back would be let in again.
* Receivers that are not cards, connectors of cases (`HandleMessage` does nothing there),
  values a message may hold and the range of ports are left out. So are unlocked changes
  of a list while another thread reads it, which C++ does not define: a filter or the set of
  ports changes as a whole.

`AtMostOnce`: a card signals a message once. `NoMessageLoop`: calls nest no deeper than
there are hops. `ExactlyReached`: after `send` returned, the cards that signalled the
message are those it was for, by a definition that does not flood: open port, receiver or
broadcast, and in the least set of circuits that is closed under routers that let the
message pass and powered access points in range. It is not claimed of a message under which
a port or list was changed.

Runs:

* `MessageRouting`: one card in each of three circuits, two routers whose connectors are
  anywhere (chains, circles, both ends in one circuit), one port on or off each list, one
  message and one change, before or under the message (a million states, with symmetry).
  Three circuits are enough for a message that passes two routers in a row, meets both from
  one side, or comes back.
* `MessageRouting_wireless`: two cards, a router, an access point in the sender's or
  receiver's circuit and two anywhere, all ranges and power (140 thousand states). Three
  access points are enough for a relay through the air, which must go on and may lead back
  to a circuit the message has been in. `SendReturns` assumes weak fairness of `FloodStep`:
  a thread that is inside a call keeps running. Nothing is assumed of anybody else.
  `SendsEnd` says why: a step of a send leaves it less to do, and nobody gives it more (below).

In both runs one message is sent. Several at once meet only in `HandledMessages`, which
holds them apart by their ids, and in `Tick`; the theorems are about any number of them.

Proofs (`MessageRouting_proofs`, assuming `RoutingAssumptions`: finitely many routers and
access points, no thing of two kinds, and `None` nothing of the network): for networks of
any size and shape and any number of messages, `TypeCorrect`, `DeliveredOnce`, `NoLoops`
and `FloodsAreExact`. None of these properties is inductive.
`RoutingInv` adds `Remembered` (no card has seen an id not yet given, and a card remembers
each message in flight that it signalled) and `NestsByNotes` (the nest of a message is no
deeper than the number of hops that remember it, plus one). A loop begins only where a hop
notes the message that did not know it, so both sides grow together; a `Tick` empties the
memories, and is possible only when no message is under way.

`FloodsAreExact` proves `ExactlyReached` from `FloodInv`, which says of a message that
nobody disturbed, while it is under way, that `promised` is still whom it is for, and:
`Spread`: the circuits it entered are among those it can get to; in each circuit it
entered, and from each powered access point that remembers it, everything it is for was
called or is in some loop. `Signalled`: the cards that signalled it are those that remember
it, have the port open and are the receiver, if there is one. Each call takes one thing out
of a loop and either changes nothing, because that thing knows the message, or notes it and
puts what it enters into a loop of its own (`Entered` grows by what the loop holds). When
the last loop ends nothing is left to call, so the circuits entered are closed under
crossing, hence all that the message can get to (`SpreadIsExact`). `OwnIds` keeps the
messages of other cards out of this.

`SendsRunOut` proves why every send returns, if the cards are finitely many: `SendsEnd`.
`Work(c)` is four numbers: the routers and access points to which the message is new, the
depth of its nest, whether the innermost loop goes on to the air, and what that loop has
still to call. Every step of the flood makes them smaller in lexicographic order: a call
that begins a loop notes the message, any other call takes one thing out of its loop, and
the end of a loop makes the nest shallower or turns what goes to the air into the loop. No
step of anybody else makes them larger, other floods and changed lists included, since only
`Tick` forgets. What is left to TLC of `SendReturns` is that the thread takes these steps.

## 8. Storage

A drive in use is known to four parties: the bay (`slot`, `locked`, `PrevFSState`), the
kernel (`drives`), the DevDevice that lists it for the program (`Devices`), and whatever
the program mounted (`mounts`) or looked at (`cache`). Actions are what users do to bays
and the floppy slot (`slot` and lock changes, building and dismantling), what happens to
the kernel (start, stop, crash, reset, capacity of the file system aside), the file system
calls of a program (`initFileSystem`, `makeFileSystem`, `removeFileSystem`, `mount`,
`unmount`), garbage, save, and a load whose callbacks come in any order (`loading`).
`ran`, `made`, `refused` and `sneaked` are history for the properties.

Choices worth knowing:

* File system calls are sync calls and answer only while the kernel runs, so each is one
  step. Paths are flat, files are left out; a device is alive as long as something holds
  it (`Lives`), because mounts hold devices weakly and cached nodes strongly.
* Forgetting the nodes below a path erases from a map with `erase(i--)`; when that hits the
  first entry C++ leaves the rest undefined, so `Forget` keeps any of the others.
* `unmount` of a mount whose device is gone dereferences a null pointer. No step is
  defined for it.
* `unmount` looks for the DevDevice under the path as it is spelled (`FileSystem.cpp:14-19`)
  and makes it absolute only then (`FileSystemRoot.cpp:262`): spelled another way, the path of
  the DevDevice unmounts it, after which the program may mount it again.

`DrivesListed`: the kernel's drives are the drives its DevDevice lists. `FreshRun`: a run
never finds mounts or file systems of an earlier one. `LockedIsUsable`: a locked drive is
one the kernel has, unless its name was taken (`refused`) or a change of the bay while it
was locked removed it (`sneaked`). The exceptions are real, see section 11.

Runs: `Storage` with two drives, one bay and the floppy slot, a tmpfs and two paths (524
thousand states, with symmetry). Two drives are enough to swap one for the other, to have
one in each place, and to list one under a name the other takes. `Storage_unmount` has a
property of its own, `TakenIsUnmounted`, and refutes it.

Proofs (`Storage_proofs`): for any numbers of drives, bays, paths and file systems, all three
properties of the passing run. `StorageInv` is `TypeOK`, `DrivesListed`, `UsableInv` (what a
load has still to replay included) and `FreshRun`.

## 9. ScreenBinding

`BindScreen` of a GPU, `BindGPU` of a screen and `UpdateScreen` call each other, and each
assigns before, between and after its calls. `calls[t]` is the stack of a thread: a call is
a label, an object and an argument, and each action runs to the next call or the return.
Programs bind (`Threads`, see below), everything else happens on `Game`: buildings
are destroyed (a GPU then binds nothing, a screen binds no GPU), and a load remembers the
GPUs' screens only, so that each GPU binds its screen again when it begins play.

`MutuallyBound`: when no call is under way, a GPU has a screen exactly when that screen has
the GPU, whoever bound over whom. `CallsReturn`: every nest of calls ends. It assumes weak
fairness of `CallStep` (a thread that is inside a call keeps running) and of `Destroyed`.

Run: three GPUs and three screens, one thread of programs, a stack of six (46 thousand
states). Binding over a binding involves at most four objects; with three of each there is
a bystander on both sides.

`Threads` are the threads that handle the futures of programs. `bindScreen` has runtime 0
(`FINComputerGPU.h:99`), which is synchronous (`FINUReflectionSource.h:9`, `.cpp:289-290`), so
calling it makes a future (`LuaRef.cpp:73-77`) that the case handles in `TickActor`
(`FINComputerCase.cpp:117-124`), on the game thread. There is one such thread, in the run and
in the proofs (`OneThread`), and it is never inside these calls when `Game` is. It matters:
nothing locks the two sides, and were `bindScreen` called in factory ticks, which run on any
thread, two programs could bind one screen at once; with two threads TLC refutes
`MutuallyBound`.

A vanilla sign gets a screen of its own from the computer subsystem when it is bound, and
loses it when the GPU is bound to nothing (`FINComputerGPU.cpp:100-110`). This is left out: for
the recursion it is one more screen.

Proofs (`ScreenBinding_proofs`, for any GPUs, screens and stack, under `OneThread`):
`BindInv` lists the stacks that can arise and says for each which object is
between two bindings and what `Agree` still holds of the others. It is inductive
(`BindHolds`), `ScreensMutuallyBound` and `NestsAtMostFour` follow.

`BindingsEnd` proves why the calls return: `StepsLeft(t)` never exceeds seventeen and every
step of a call lowers it (`CallsEnd`). `StepsOf` says what each call may still cost. A
`BindScreen` that finds its GPU bound as asked costs one step; telling a screen to let go
costs seven, because that screen tells its GPU, which may tell the screen again, whose
`GPU` is then empty already. The descent is not in the calls alone. It needs what the
innermost call meets (`Meets`): the GPU that a screen lets go of holds nothing any more, or
the screen is the one it last told; the GPU that a screen takes holds that screen already.
`Calling` carries this for every stack of `BindInv`, and waiting calls cost the same
whatever the steps above them do (`StepsOfStack`). What is left to TLC of `CallsReturn` is
that a thread takes those steps, which is its fairness.

## 10. ComputerLog

`LogEntries` is what was published, `LogEntriesToAdd` what was pushed and waits,
`bForceEntriesUpdate` that somebody asked for everything. The tick publishes a chunk, or,
when asked, takes all back, tells every client to forget, and begins again. `calls` are the
multicasts under way to each client, in order, since they are reliable; `shown` is what a
client has. An entry is its number. The limits (`MaxLogEntries`, ten a tick) are constants.

`NothingLost`: what is published, followed by what waits, is the end of what was pushed.
`ClientsAgree`: a client that asked shows the server's log once nothing waits and nothing is
under way. `PlayerSeesLog` says it gets there, under weak fairness of the tick, the publishing
and the delivery of calls, if programs log no more and nobody else joins.

Run: two players, logs of three, chunks of two, four entries, three calls under way (182
thousand states). Four entries overflow the log once and need two chunks.

Proofs (`ComputerLog_proofs`, for any limits and players): `LogLosesNothing` and
`PlayersAgree`. `LogInv` says that published and waiting entries together are a tail of
what was pushed, no shorter than the log's size; `TailOf` and `PublishKeeps` are what
publishing does to such a tail. For the clients, `ClientsWillAgree` says that the calls
under way lead a client that was answered to the server's log: from the last restart
among them or, if there is none, from what it shows. `RestartLeads`, `ChunkLeads` and
`ArrivalLeads` are what the three kinds of step do to that. Liveness is only model-checked.

Worth knowing: entries that wait are not saved; `getLog` sees a part of the log while it is
published again; and a program that logs in every tick keeps a restart of the publishing
from ending, as do players who keep joining, which is why `PlayerSeesLog` has its premise.

## 11. What disagrees with the documentation

Two violation runs are findings: `LossAnnounced` (section 4) and `TakenIsUnmounted`: "Unmounts
the given device from the filesystem" (`FileSystem.h:22`), but it unmounts one path of it.
Met on the way, without a run of their own:

* `computer.demote()` is to "allow switching back to the normal tick rate"
  (`Computer.adoc:60`); it only constructs an `FLuaSyncCall`, whose destructor
  (`FINLuaProcessor.h:254-267`) raises `bShouldPromote` again, and the next tick promotes.
* `MaxCables` is "The maximum amount of cables you can connect to this connector"
  (`FINNetworkConnectionComponent.h:26`); two players can exceed it, see section 4.
* `ComputerStateChanged` "triggers when the computers state changes"
  (`FINComputerCase.h:175`), but `TickActor` compares states once a tick, so a start and a
  stop between two ticks tell nobody. After a load of a running computer one is sent
  although nothing changed, and `netFunc_startComputer` compares with that stale state
  before it empties the log.
* `event.ignore` and `computer.media`, see section 6.
* `bindScreen` of a GPU is documented as a function that may run in parallel
  (`Reflection.adoc:3358-3372`); it is a synchronous one, see section 9.
* A property that is set is a future that never says it is done, see section 5.
* `FicsItKernel.h:131-153` promises a hard reset in `SetCapacity` and `SetProcessor`;
  neither resets, the second stops the kernel. `FicsItKernel.h:244-248`: `Stop` is said to
  report whether it stopped; it is always true.
* `DriveHolder.adoc:25`: "Only if a drive is locked it will be added"; a load adds it
  whether or not it is locked. `FileSystem.h:77-89` says that a load restores mounts; what
  it would mount, `DevDeviceMountPoint`, is never assigned.
* A locked drive is refused when a file system has its name, even one left from the run
  before. A drive swapped while its bay is locked leaves the old one with the kernel, and
  unlocking then removes what `PrevFSState` names, even if it is locked elsewhere by now.
* `FileSystem.adoc:106`: after `removeFileSystem` "All mounts of the device will run
  invalid"; a cached node keeps the device alive and the mounts working.

## 12. Only model-checked, and not modelled

Liveness under fairness is out of the prover's reach and stays with TLC: `GameReturns`,
`SyncCallAnswered`, `PullAnswered`, `EndingHonoured`, `SendReturns`, `CallsReturn` and
`PlayerSeesLog`. The safety halves of `CallsReturn` and `SendReturns`, that the
steps of these calls run out, are proved: `BindingsEnd` and `SendsRunOut`. `SendsEnd` is also
checked by a run; `CallsEnd` is not a property of any.

Not modelled, as far as `PROJECT.json` marks components `not_modelled` or `partly`:

* Most lines of the repository are vendored (Tracy, Lua, eris), tables that register
  functions for reflection, or presentation. They have no behaviour over time to model.
* Files, directories and streams; the memory figures; what a Lua program computes between
  two calls; replication other than the log's.
* What a future returns, and `await` and `get`, which only read it.
* The grid of the module panel: geometry, computed once for each hologram.
* Codeable splitters and mergers: two short queues. `transferItem` may run in parallel with
  the factory tick and the belts that use the same arrays (`FINCodeableSplitter.cpp:96`,
  `FINCodeableMerger.cpp:91`); C++ defines nothing of that, and without it nothing is left
  but an append and a removal.

Definitions whose name has an underscore are mutations of the definition they stand
before: each names a bug that the property listed with it in `PROJECT.json` notices.
