----------------------------- MODULE SignalQueue -----------------------------
(***************************************************************************)
(* Signals: which computer listens to which object (AFINSignalSubsystem),  *)
(* the hooks that make a game object signal at all (AFINHookSubsystem),    *)
(* and the queue in which a computer keeps what it received until its      *)
(* program pulls it (UFINKernelNetworkController).                         *)
(*                                                                         *)
(* Listening and ignoring are sync calls, served inside the factory tick   *)
(* of the computer.  Factory ticks run on several threads at once, and the *)
(* worker of a program triggers signals too, when it writes files.  No     *)
(* lock protects the lists: the walk of a broadcast is a sequence of       *)
(* steps, and one whose list changes under it reads freed or shifted       *)
(* memory, and may hand the signal to anybody who is or was in the list.   *)
(*                                                                         *)
(* A trace is reduced to the two ends the code looks at: the object a      *)
(* program holds, and where the trace of it starts.                        *)
(***************************************************************************)
EXTENDS Naturals, Sequences, FiniteSets, SequencesExt

CONSTANTS
  Computer,        \* the connectors of computers with a running program
  Object,          \* what can be listened to
  Native,          \* objects of the game, which signal only through hooks
  Singleton,       \* objects handed out with a trace of their own
  Case,            \* objects that signal what a program does with its files
  Factory,         \* threads that tick factories, the game thread being one
  Writer,          \* computers whose program writes files
  MaxSignalCount,  \* size of a queue
  MaxEmissions,    \* bound: signals triggered
  MaySave,         \* bound: whether games are saved
  None

\* Threads that trigger signals.  A worker is named by its computer.
Thread  == Factory \cup Writer
Signal  == [n : 1 .. MaxEmissions, by : Thread, racy : BOOLEAN]
\* A broadcast of an object: the list it walks, how far it is, its signal.
Walk    == [from : Object, list : Seq(Computer), at : Nat \ {0},
            n : 1 .. MaxEmissions, racy : BOOLEAN]
\* What a saved game keeps, and what each computer had had when it was saved.
Saved   == [alive : SUBSET (Computer \cup Object),
            Listeners : [Object -> Seq(Computer)],
            queue : [Computer -> Seq(Signal)], seen : [Computer -> SUBSET Signal],
            wanted : [Computer -> SUBSET Object], emitted : 0 .. MaxEmissions,
            had : [Computer -> SUBSET Signal]]

ASSUME SignalAssumptions ==
  /\ Native \subseteq Object /\ Singleton \subseteq Object
  /\ Case \subseteq Object \ Native /\ Writer \subseteq Computer
  /\ MaxSignalCount \in Nat \ {0} /\ MaxEmissions \in Nat
  /\ MaySave \in BOOLEAN
  /\ Computer \cap (Object \cup Factory) = {}
  /\ None \notin Computer \cup Object \cup Walk \cup Saved

VARIABLES
  alive,      \* the computers and objects of the world
  Listeners,  \* Listeners of AFINSignalSubsystem, as the end of each trace
  hooks,      \* the objects with hooks attached
  queue,      \* SignalQueue of each computer
  locked,     \* bLockSignalReceiving of each computer
  seen,       \* what each program has pulled or cleared
  wanted,     \* what each program has asked to listen to
  walk,       \* the broadcast each thread is in
  emitted,    \* signals triggered so far
  phase,      \* play, save, saved, load
  presaved,   \* the objects whose PreSaveGame was called
  storage,    \* StateStorage of each processor: seen, when it was persisted
  disk        \* the last saved game

signalVars == <<Listeners, hooks, wanted>>
queueVars  == <<queue, seen>>
saveVars   == <<locked, phase, presaved, storage, disk>>
vars == <<alive, signalVars, queueVars, saveVars, walk, emitted>>

Proc(c) == <<"processor", c>>
Net(c)  == <<"network", c>>
Saver(C) == {<<"signals">>} \cup {Proc(c) : c \in C} \cup {Net(c) : c \in C}

TypeOK ==
  /\ alive \subseteq Computer \cup Object
  /\ Listeners \in [Object -> Seq(Computer)]
  /\ \A o \in Object : IsInjective(Listeners[o])
  /\ hooks \subseteq Object
  /\ queue \in [Computer -> Seq(Signal)]
  /\ \A c \in Computer : Len(queue[c]) <= MaxSignalCount
  /\ locked \in [Computer -> BOOLEAN]
  /\ seen \in [Computer -> SUBSET Signal]
  /\ wanted \in [Computer -> SUBSET Object]
  /\ walk \in [Thread -> Walk \cup {None}]
  /\ \A t \in Thread : walk[t] # None => walk[t].at <= Len(walk[t].list)
  /\ emitted \in 0 .. MaxEmissions
  /\ phase \in {"play", "save", "saved", "load"}
  /\ presaved \subseteq Saver(Computer)
  /\ storage \in [Computer -> SUBSET Signal]
  /\ disk \in Saved \cup {None}

Init ==
  /\ alive = Computer \cup Object
  /\ Listeners = [o \in Object |-> <<>>]
  /\ hooks = {}
  /\ queue = [c \in Computer |-> <<>>]
  /\ locked = [c \in Computer |-> FALSE]
  /\ seen = [c \in Computer |-> {}]
  /\ wanted = [c \in Computer |-> {}]
  /\ walk = [t \in Thread |-> None]
  /\ emitted = 0
  /\ phase = "play"
  /\ presaved = {}
  /\ storage = [c \in Computer |-> {}]
  /\ disk = None

----------------------------------------------------------------------------
(* The signal subsystem: who listens.                                      *)

\* The lists become new; a broadcast that walks a changed list goes astray.
Relist(new) ==
  /\ Listeners' = new
  /\ walk' = [t \in Thread |->
       IF walk[t] # None /\ new[walk[t].from] # Listeners[walk[t].from]
       THEN [walk[t] EXCEPT !.racy = TRUE] ELSE walk[t]]

Runs_Unstopped(c) == c \in alive /\ phase \in {"play", "save"}

\* A program runs on its worker, which PreSaveGame of its processor stops.
Runs(c) == /\ c \in alive
           /\ phase = "play" \/ (phase = "save" /\ Proc(c) \notin presaved)

\* A sync call: the factory tick of the computer serves it, on some thread and
\* next to whatever the other threads broadcast.
Served(c) == c \in alive /\ phase = "play"

\* The game thread goes on once every factory was ticked.
TickEnded == \A t \in Factory : walk[t] = None

AddUnique(list, c) == IF Contains(list, c) THEN list ELSE Append(list, c)

\* event.listen(o): Listen adds the computer and attaches the hooks anew.
luaListen(c, o) ==
  /\ Served(c) /\ o \in alive
  /\ Relist([Listeners EXCEPT ![o] = AddUnique(@, c)])
  /\ hooks' = hooks \cup (Native \cap {o})
  /\ wanted' = [wanted EXCEPT ![c] = @ \cup {o}]
  /\ UNCHANGED <<alive, queueVars, saveVars, emitted>>

\* The start of the trace a program holds of o, which event.ignore takes for
\* the computer.
StartOf(c, o) == IF o \in Singleton THEN o ELSE c

\* RemoveAt of each listener in R, from the first to the last.
Without(list, R) ==
  LET kept[i \in 0 .. Len(list)] ==
        IF i = 0 THEN <<>>
        ELSE IF list[i] \in R THEN kept[i - 1] ELSE Append(kept[i - 1], list[i])
  IN  kept[Len(list)]

Unhooked_Always(S, new) == hooks \ S

\* The hooks left after Ignore emptied lists in S.  An empty list has none.
Unhooked(S, new) == hooks \ {o \in S : Listeners[o] # <<>> /\ new[o] = <<>>}

luaIgnore_FirstOfList(c, o) ==
  /\ Served(c) /\ o \in alive
  /\ LET new == [Listeners EXCEPT ![o] = IF @ = <<>> THEN @ ELSE Tail(@)]
     IN  Relist(new) /\ hooks' = Unhooked({o}, new)
  /\ wanted' = [wanted EXCEPT ![c] = @ \ {o}]
  /\ UNCHANGED <<alive, queueVars, saveVars, emitted>>

\* event.ignore(o)
luaIgnore(c, o) ==
  /\ Served(c) /\ o \in alive
  /\ LET new == [Listeners EXCEPT ![o] = Without(@, {StartOf(c, o)})]
     IN  Relist(new) /\ hooks' = Unhooked({o}, new)
  /\ wanted' = [wanted EXCEPT ![c] = @ \ {o}]
  /\ UNCHANGED <<alive, queueVars, saveVars, emitted>>

\* event.ignoreAll(): Ignore for every sender there is a list of.
luaIgnoreAll(c) ==
  /\ Served(c)
  /\ LET new == [o \in Object |-> Without(Listeners[o], {c})]
     IN  Relist(new) /\ hooks' = Unhooked(Object, new)
  /\ wanted' = [wanted EXCEPT ![c] = {}]
  /\ UNCHANGED <<alive, queueVars, saveVars, emitted>>

Component == (Object \ Singleton) \cap alive

\* event.kaito(): listen to every component, on the worker, not as a sync call.
luaKaito(c) ==
  /\ Runs(c)
  /\ Relist([o \in Object |->
       IF o \in Component THEN AddUnique(Listeners[o], c) ELSE Listeners[o]])
  /\ hooks' = hooks \cup (Native \cap Component)
  /\ wanted' = [wanted EXCEPT ![c] = @ \cup Component]
  /\ UNCHANGED <<alive, queueVars, saveVars, emitted>>

\* A building is dismantled.
Destroy(x) ==
  /\ phase = "play" /\ TickEnded /\ x \in alive
  /\ alive' = alive \ {x}
  /\ queue' = [c \in Computer |-> IF c = x THEN <<>> ELSE queue[c]]
  /\ UNCHANGED <<signalVars, seen, saveVars, walk, emitted>>

----------------------------------------------------------------------------
(* Broadcasting and the queue.                                             *)

PushSignal_OffByOne(c, s) ==
  IF c \in alive /\ ~locked[c] /\ Len(queue[c]) <= MaxSignalCount
  THEN [queue EXCEPT ![c] = Append(@, s)] ELSE queue

\* PushSignal: a full queue, and one that is being saved, drops the signal.
PushSignal(c, s) ==
  IF c \in alive /\ ~locked[c] /\ Len(queue[c]) < MaxSignalCount
  THEN [queue EXCEPT ![c] = Append(@, s)] ELSE queue

\* Factories do not tick while the game saves; workers go on until stopped,
\* and signal for their computer only.
MayTrigger(t, o) == IF t \in Factory THEN phase = "play" ELSE Runs(t) /\ o \in Case

\* BroadcastSignal looks the list up.  A native object only signals through
\* its hooks; one nobody listens to has no list.
BroadcastSignal(t, o) ==
  /\ MayTrigger(t, o) /\ walk[t] = None /\ o \in alive
  /\ o \in Native => o \in hooks
  /\ Listeners[o] # <<>> /\ emitted < MaxEmissions
  /\ emitted' = emitted + 1
  /\ walk' = [walk EXCEPT ![t] =
       [from |-> o, list |-> Listeners[o], at |-> 1, n |-> emitted + 1,
        racy |-> FALSE]]
  /\ UNCHANGED <<alive, signalVars, queueVars, saveVars>>

\* The next listener of the walk is handed the signal.
HandleSignal(t) ==
  /\ walk[t] # None
  /\ LET w == walk[t]
         s == [n |-> w.n, by |-> t, racy |-> w.racy]
     IN  /\ \/ ~w.racy /\ queue' = PushSignal(w.list[w.at], s)
            \/ w.racy /\ \E c \in ToSet(w.list \o Listeners[w.from]) :
                 queue' = PushSignal(c, s)
            \/ w.racy /\ UNCHANGED queue
         /\ walk' = [walk EXCEPT ![t] =
              IF w.at = Len(w.list) THEN None ELSE [w EXCEPT !.at = @ + 1]]
  /\ UNCHANGED <<alive, signalVars, seen, saveVars, emitted>>

PopSignal_Last(c) ==
  /\ Runs(c) /\ queue[c] # <<>>
  /\ queue' = [queue EXCEPT ![c] = Front(@)]
  /\ seen' = [seen EXCEPT ![c] = @ \cup {Last(queue[c])}]
  /\ UNCHANGED <<alive, signalVars, saveVars, walk, emitted>>

\* event.pull() with a signal in the queue.
PopSignal(c) ==
  /\ Runs(c) /\ queue[c] # <<>>
  /\ queue' = [queue EXCEPT ![c] = Tail(@)]
  /\ seen' = [seen EXCEPT ![c] = @ \cup {Head(queue[c])}]
  /\ UNCHANGED <<alive, signalVars, saveVars, walk, emitted>>

\* event.clear()
ClearSignals(c) ==
  /\ Runs(c) /\ queue[c] # <<>>
  /\ queue' = [queue EXCEPT ![c] = <<>>]
  /\ seen' = [seen EXCEPT ![c] = @ \cup ToSet(queue[c])]
  /\ UNCHANGED <<alive, signalVars, saveVars, walk, emitted>>

----------------------------------------------------------------------------
(* Saving and loading.                                                     *)

SaveStarts ==
  /\ MaySave /\ phase = "play" /\ TickEnded
  /\ phase' = "save" /\ presaved' = {}
  /\ UNCHANGED <<alive, signalVars, queueVars, locked, storage, disk, walk,
                 emitted>>

\* The objects whose PreSaveGame the save calls.
ToPresave == Saver(Computer \cap alive)

PreSaves(x) ==
  /\ phase = "save" /\ x \in ToPresave \ presaved
  /\ presaved' = presaved \cup {x}

\* PreSaveGame of the network controller.
PreSaveNetwork(c) ==
  /\ PreSaves(Net(c))
  /\ locked' = [locked EXCEPT ![c] = TRUE]
  /\ UNCHANGED <<alive, signalVars, queueVars, phase, storage, disk, walk,
                 emitted>>

\* PreSaveGame of the processor: the worker is stopped, the program persisted.
PreSaveProcessor(c) ==
  /\ PreSaves(Proc(c)) /\ (c \in Writer => walk[c] = None)
  /\ storage' = [storage EXCEPT ![c] = seen[c]]
  /\ UNCHANGED <<alive, signalVars, queueVars, locked, phase, disk, walk,
                 emitted>>

\* Cleanup: senders and receivers that are gone are removed, hooks stay.
Cleaned == [o \in Object |->
  IF o \in alive THEN Without(Listeners[o], Computer \ alive) ELSE <<>>]

PreSaveSignals ==
  /\ PreSaves(<<"signals">>)
  /\ Relist(Cleaned)
  /\ UNCHANGED <<alive, hooks, wanted, queueVars, locked, phase, storage,
                 disk, emitted>>

\* All is serialized once every object was prepared and every worker stopped.
Serialize ==
  /\ phase = "save" /\ presaved = ToPresave
  /\ disk' = [alive |-> alive, Listeners |-> Listeners, queue |-> queue,
              seen |-> storage, wanted |-> wanted, emitted |-> emitted,
              had |-> [c \in Computer |-> seen[c] \cup ToSet(queue[c])]]
  /\ phase' = "saved"
  /\ UNCHANGED <<alive, signalVars, queueVars, locked, presaved, storage,
                 walk, emitted>>

\* PostSaveGame of the network controller.  The last one ends the save.
PostSaveGame(c) ==
  /\ phase = "saved" /\ locked[c]
  /\ locked' = [locked EXCEPT ![c] = FALSE]
  /\ phase' = IF \E d \in Computer : locked'[d] THEN "saved" ELSE "play"
  /\ UNCHANGED <<alive, signalVars, queueVars, presaved, storage, disk, walk,
                 emitted>>

\* The game ends, by leaving or by a crash, and the save is loaded: the
\* objects are made anew, PreLoadGame locks the queues, hooks are not saved.
Load ==
  /\ disk # None
  /\ alive' = disk.alive /\ Listeners' = disk.Listeners
  /\ queue' = disk.queue /\ seen' = disk.seen /\ wanted' = disk.wanted
  /\ emitted' = disk.emitted /\ storage' = disk.seen
  /\ hooks' = {} /\ presaved' = {}
  /\ locked' = [c \in Computer |-> TRUE]
  /\ walk' = [t \in Thread |-> None]
  /\ phase' = "load"
  /\ UNCHANGED disk

BeginPlay_NoHooks ==
  /\ phase = "load"
  /\ locked' = [c \in Computer |-> FALSE]
  /\ phase' = "play"
  /\ UNCHANGED <<alive, signalVars, queueVars, presaved, storage, disk, walk,
                 emitted>>

\* BeginPlay of the signal subsystem attaches the hooks of every sender; each
\* network controller has had its PostLoadGame.
BeginPlay ==
  /\ phase = "load"
  /\ hooks' = {o \in Native \cap alive : Listeners[o] # <<>>}
  /\ locked' = [c \in Computer |-> FALSE]
  /\ phase' = "play"
  /\ UNCHANGED <<alive, Listeners, wanted, queueVars, presaved, storage, disk,
                 walk, emitted>>

Next ==
  \/ \E c \in Computer : luaIgnoreAll(c) \/ luaKaito(c) \/ PopSignal(c)
                         \/ ClearSignals(c)
  \/ \E c \in Computer, o \in Object : luaListen(c, o) \/ luaIgnore(c, o)
  \/ \E x \in Computer \cup Object : Destroy(x)
  \/ \E t \in Thread, o \in Object : BroadcastSignal(t, o)
  \/ \E t \in Thread : HandleSignal(t)
  \/ SaveStarts \/ PreSaveSignals \/ Serialize \/ Load \/ BeginPlay
  \/ \E c \in Computer : PreSaveNetwork(c) \/ PreSaveProcessor(c)
                         \/ PostSaveGame(c)

Spec == Init /\ [][Next]_vars

----------------------------------------------------------------------------
(* Properties                                                              *)

\* Unless their order is anybody's guess, r was triggered before s.
Before(r, s) == r.by = s.by /\ ~r.racy /\ ~s.racy => r.n < s.n

\* What a program has seen lies before what its queue holds, and the queue is
\* in the order each thread triggered the signals: none is delivered twice or
\* overtaken, whoever listens again, and whenever the game is saved and
\* loaded.  Nothing holds of a broadcast whose list was changed under it.
SignalsInOrder ==
  \A c \in Computer :
    /\ \A i, j \in DOMAIN queue[c] : i < j => Before(queue[c][i], queue[c][j])
    /\ \A r \in seen[c], s \in ToSet(queue[c]) : Before(r, s)

\* A computer is in the list of an object exactly if its program asked to
\* listen to it and did not ask to ignore it since, whatever other computers
\* asked for, and across a load: event.ignore is the opposite of event.listen.
\* An object with a trace of its own cannot be ignored: it stays listened to.
ListensToWanted ==
  \A c \in Computer \cap alive, o \in Object \cap alive :
    /\ o \in wanted[c] => Contains(Listeners[o], c)
    /\ Contains(Listeners[o], c) /\ o \notin Singleton => o \in wanted[c]

\* A game object somebody listens to has its hooks: they are shared by all
\* listeners, detached by the last one, and not saved.
ListenedIsHooked ==
  phase # "load" =>
    \A o \in Native \cap alive : Listeners[o] # <<>> => o \in hooks

\* A saved game is a consistent cut: the persisted program and the saved queue
\* hold together every signal the computer had received and not lost, and no
\* signal is in both.
SaveKeepsSignals ==
  disk # None => \A c \in Computer \cap disk.alive :
    /\ disk.seen[c] \cup ToSet(disk.queue[c]) = disk.had[c]
    /\ \A s \in disk.seen[c] \cap ToSet(disk.queue[c]) : s.racy
=============================================================================
