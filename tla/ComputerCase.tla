---------------------------- MODULE ComputerCase ----------------------------
(***************************************************************************)
(* A computer case: the CPU modules built into it, the EEPROM in its slot, *)
(* the kernel that is started, stopped, reset and crashed, and what a save *)
(* and a load make of them.                                                *)
(*                                                                         *)
(* The kernel is changed from sides that know nothing of each other: the   *)
(* module panel (CPUs come and go), the inventory (EEPROMs come and go),   *)
(* the power button and the network functions, the futures and the end of  *)
(* the running program.  The case keeps copies of what it needs of each:   *)
(* the kernel's processor, the processor's EEPROM, the kernel state it has *)
(* last told the network of.                                               *)
(*                                                                         *)
(* The game thread runs these calls one after the other, so an action is a *)
(* whole call; only the handling of futures is taken apart, because the    *)
(* program's worker may queue another one meanwhile.  How a program is     *)
(* scheduled is LuaScheduler.tla.                                          *)
(*                                                                         *)
(* A definition whose name has an underscore is a mutation of the one it   *)
(* stands before.                                                          *)
(***************************************************************************)
EXTENDS Naturals, FiniteSets, Sequences

CONSTANTS
  Cpu,         \* processor modules
  Eeprom,      \* EEPROM items
  Player,      \* players that build
  Future,      \* names for the futures that wait or are held at one time
  Asks,        \* the call of each future
  None

KernelState == {"SHUTOFF", "RUNNING", "RESET", "CRASHED"}

\* The kernel: its state, whether it has a processor, that processor's EEPROM,
\* and the EEPROM the running program was loaded from.
Kernel == [state : KernelState, plugged : BOOLEAN,
           eeprom : Eeprom \cup {None}, program : Eeprom \cup {None}]

\* What a future of a program can do to the program's own computer: start it
\* (which means nothing to a computer that runs, as most calls do), stop it or
\* crash it by an exception.  A property it sets is none of the computer's.
FutureCall == {"startComputer", "stopComputer", "throw", "setProperty"}

ASSUME CaseAssumptions ==
  /\ IsFiniteSet(Future) /\ Asks \in [Future -> FutureCall]
  /\ None \notin Eeprom

\* What the program can end with in a tick, by the flags postTick looks at.
Ending == {"none", "crash", "stop", "reset"}

VARIABLES
  kernel,
  processors,           \* Processors of the case
  slot,                 \* the item in slot 0 of DataStorage
  written,              \* EEPROM items that have a state actor
  broken,               \* EEPROM items whose code does not compile
  futures,              \* FutureQueue
  held,                 \* futures the program that runs can still await
  done,                 \* those of them whose bDone is set
  phase,                \* what the game thread is in the middle of
  InternalKernelState,  \* the state last told to the network
  aimed                 \* players whose hologram of a CPU was found valid

inventory == <<slot, written, broken>>
told == <<InternalKernelState>>
awaited == <<held, done>>
vars == <<kernel, processors, inventory, futures, awaited, phase, told, aimed>>

TypeOK ==
  /\ kernel \in Kernel
  /\ processors \subseteq Cpu
  /\ slot \in Eeprom \cup {None}
  /\ written \subseteq Eeprom
  /\ broken \subseteq Eeprom
  /\ futures \in Seq(Future) /\ held \subseteq Future /\ done \subseteq held
  /\ phase \in {"idle", "tick", "save", "prepared", "saved"}
  /\ InternalKernelState \in KernelState
  /\ aimed \subseteq Player

Init ==
  /\ kernel = [state |-> "SHUTOFF", plugged |-> FALSE, eeprom |-> None,
               program |-> None]
  /\ processors = {} /\ slot = None /\ written = {} /\ broken = {}
  /\ futures = <<>> /\ held = {} /\ done = {} /\ phase = "idle"
  /\ InternalKernelState = "SHUTOFF"
  /\ aimed = {}

-----------------------------------------------------------------------------
(* The kernel's own operations, from the kernel before a call to the one   *)
(* after it.                                                               *)

Stop(k) == [k EXCEPT !.state = "SHUTOFF", !.program = None]

Crash(k) ==
  IF k.state = "RUNNING" THEN [k EXCEPT !.state = "CRASHED", !.program = None]
                         ELSE k

\* Reset() of the processor: a new Lua state with the code of the EEPROM.
ResetProcessor(k) ==
  IF k.eeprom = None \/ k.eeprom \in broken
  THEN Crash(k) ELSE [k EXCEPT !.program = k.eeprom]

\* A running kernel that may be reset is stopped, then started.
Start(k, inReset) ==
  LET started == [k EXCEPT !.state = "RUNNING"]
  IN  IF k.state = "RUNNING" /\ ~inReset THEN k
      ELSE IF ~k.plugged THEN Crash(started)
      ELSE ResetProcessor(started)

Reset(k) == [Stop(k) EXCEPT !.state = "RESET"]

SetEEPROM(k, e) == IF k.plugged THEN [k EXCEPT !.eeprom = e] ELSE k

\* The kernel is stopped before its processor is exchanged or taken away.  A
\* new processor has no EEPROM.
SetProcessor_NoStop(k, present) == [k EXCEPT !.plugged = present, !.eeprom = None]

SetProcessor(k, present) ==
  [Stop(k) EXCEPT !.plugged = present, !.eeprom = None]

\* The kernel becomes k, and of the futures fs that are held each gets its
\* result.  What a program holds goes with the program.
Kept(k, fs) == IF k.state = "RUNNING" THEN fs ELSE {}
Answer(k, fs) ==
  /\ kernel' = k
  /\ held' = Kept(k, held)
  /\ done' = Kept(k, done \cup (held \cap fs))
Become(k) == Answer(k, {})

-----------------------------------------------------------------------------
(* CPUs and EEPROMs come and go.                                           *)

\* GetEEPROM(): an item without state gets one, too late for this caller.
GetEEPROM(item, states) == IF item \in states THEN item ELSE None
Touched(item) == written \cup ({item} \ {None})

\* AddProcessor() of what is now the n-th CPU.  The kernel keeps a processor it
\* has already, as it does after a load: all CPUs are of one class.
AddProcessor_Always(k, n, e) ==
  IF n = 1 THEN SetEEPROM(SetProcessor(k, TRUE), e)
           ELSE SetProcessor(k, FALSE)

AddProcessor_KeepFirst(k, n, e) ==
  IF n = 1 THEN SetEEPROM(IF k.plugged THEN k ELSE SetProcessor(k, TRUE), e)
           ELSE k

AddProcessor(k, n, e) ==
  IF n = 1 THEN SetEEPROM(IF k.plugged THEN k ELSE SetProcessor(k, TRUE), e)
           ELSE SetProcessor(k, FALSE)

\* RemoveProcessor() with n CPUs left: the last one gets no EEPROM.
RemoveProcessor(k, n) == SetProcessor(k, n = 1)

\* A hologram of a CPU snaps to the panel: AllowedModules lists CPUs only as
\* long as the case has none.  Construct() does not look again.
Aim(p) ==
  /\ phase = "idle" /\ processors = {}
  /\ aimed' = aimed \cup {p}
  /\ UNCHANGED <<kernel, processors, inventory, futures, awaited, phase, told>>

BuildCpu(p, c) ==
  /\ phase = "idle" /\ p \in aimed /\ c \notin processors
  /\ aimed' = aimed \ {p}
  /\ processors' = processors \cup {c}
  /\ Become(AddProcessor(kernel, Cardinality(processors) + 1,
                         GetEEPROM(slot, written)))
  /\ written' = IF processors = {} THEN Touched(slot) ELSE written
  /\ UNCHANGED <<slot, broken, futures, phase, told>>

DismantleCpu(c) ==
  /\ phase = "idle" /\ c \in processors
  /\ processors' = processors \ {c}
  /\ Become(RemoveProcessor(kernel, Cardinality(processors) - 1))
  /\ UNCHANGED <<inventory, futures, phase, told, aimed>>

\* OnEEPROMChanged(), when an item was put into the slot or taken out of it.
OnEEPROMChanged_WhenOff(item) ==
  /\ Become(IF kernel.state = "RUNNING" THEN kernel
            ELSE SetEEPROM(kernel, GetEEPROM(item, written)))
  /\ written' = Touched(item)

OnEEPROMChanged(item) ==
  /\ Become(SetEEPROM(kernel, GetEEPROM(item, written)))
  /\ written' = Touched(item)

MoveEEPROM(item) ==
  /\ phase = "idle" /\ slot' = item
  /\ slot # item /\ None \in {slot, item}
  /\ OnEEPROMChanged(item)
  /\ UNCHANGED <<processors, broken, futures, phase, told, aimed>>

\* The code of an EEPROM is edited, in the game or by a program.
EditCode(e) ==
  /\ phase = "idle" /\ e \in written
  /\ broken' = IF e \in broken THEN broken \ {e} ELSE broken \cup {e}
  /\ UNCHANGED <<kernel, processors, slot, written, futures, awaited, phase,
                 told, aimed>>

-----------------------------------------------------------------------------
(* Power button, network functions, ticks, futures.                        *)

\* Toggle() reads the slot again before it starts the kernel.
Toggle_NoReread ==
  /\ phase = "idle"
  /\ Become(CASE kernel.state = "SHUTOFF" -> Start(kernel, FALSE)
              [] kernel.state = "CRASHED" -> Start(kernel, TRUE)
              [] OTHER -> Stop(kernel))
  /\ UNCHANGED <<processors, inventory, futures, phase, told, aimed>>

Toggle ==
  /\ phase = "idle"
  /\ LET k == SetEEPROM(kernel, GetEEPROM(slot, written))
     IN  Become(CASE k.state = "SHUTOFF" -> Start(k, FALSE)
                  [] k.state = "CRASHED" -> Start(k, TRUE)
                  [] OTHER -> Stop(k))
  /\ written' = IF kernel.plugged THEN Touched(slot) ELSE written
  /\ UNCHANGED <<processors, slot, broken, futures, phase, told, aimed>>

\* netFunc_startComputer() and netFunc_stopComputer(), as another computer's
\* future calls them; throw is the exception of a future.  That may also be while
\* the other computer's kernel is prepared for a save.
Execute(k, call) ==
  CASE call = "startComputer" -> Start(k, FALSE)
    [] call = "stopComputer" -> Stop(k)
    [] call = "throw" -> Crash(k)
    [] call = "setProperty" -> k

RemoteCall(call) ==
  /\ phase \in {"idle", "prepared"}
  /\ call \in {"startComputer", "stopComputer"}
  /\ Become(Execute(kernel, call))
  /\ UNCHANGED <<processors, inventory, futures, phase, told, aimed>>

\* Tick() of the kernel, and in it the end of the program's tick.
KernelTick(ending) ==
  /\ phase = "idle" /\ kernel.state \in {"RESET", "RUNNING"}
  /\ LET k == IF kernel.state = "RESET" THEN Start(kernel, TRUE) ELSE kernel
     IN  Become(IF k.state # "RUNNING" THEN k
                ELSE IF ~k.plugged \/ ending = "crash" THEN Crash(k)
                ELSE IF ending = "stop" THEN Stop(k)
                ELSE IF ending = "reset" THEN Reset(k)
                ELSE k)
  /\ UNCHANGED <<processors, inventory, futures, phase, told, aimed>>

\* PushFuture(), in a tick of the game or by the worker at any time.  The
\* program keeps what a call returns to it or not, and luaFutureGC() ends it.
\* Neither runs any more when the processor is prepared for a save.
Queued(q) == {q[i] : i \in DOMAIN q}

PushFuture(f, keeps) ==
  /\ phase # "saved" /\ kernel.state = "RUNNING"
  /\ f \notin Queued(futures) \cup held
  /\ futures' = Append(futures, f)
  /\ held' = IF keeps THEN held \cup {f} ELSE held
  /\ UNCHANGED <<kernel, processors, inventory, done, phase, told, aimed>>

luaFutureGC(f) ==
  /\ phase # "saved" /\ f \in held
  /\ held' = held \ {f} /\ done' = done \ {f}
  /\ UNCHANGED <<kernel, processors, inventory, futures, phase, told, aimed>>

\* Execute() of a future sets bDone unless it throws or has set a property.
Finishes(f) == Asks[f] \notin {"throw", "setProperty"}

\* HandleFutures() takes one future after the other until there is none; it
\* goes on when one of them has stopped or crashed the kernel.
HandleFuture ==
  /\ phase \in {"tick", "save"} /\ futures # <<>>
  /\ LET f == Head(futures)
     IN  /\ futures' = Tail(futures)
         /\ Answer(Execute(kernel, Asks[f]), IF Finishes(f) THEN {f} ELSE {})
  /\ UNCHANGED <<processors, inventory, phase, told, aimed>>

TickActor ==
  /\ phase = "idle" /\ phase' = "tick"
  /\ UNCHANGED <<kernel, processors, inventory, futures, awaited, told, aimed>>

\* The rest of TickActor(): netSig_ComputerStateChanged tells the network.
TellState ==
  /\ phase = "tick" /\ futures = <<>> /\ phase' = "idle"
  /\ InternalKernelState' = kernel.state
  /\ UNCHANGED <<kernel, processors, inventory, futures, awaited, aimed>>

-----------------------------------------------------------------------------
(* Saving and loading.                                                     *)

\* PreSaveGame() of the kernel handles the futures there are.
PreSaveGame ==
  /\ phase = "idle" /\ phase' = "save"
  /\ UNCHANGED <<kernel, processors, inventory, futures, awaited, told, aimed>>

Prepared ==
  /\ phase = "save" /\ futures = <<>> /\ phase' = "prepared"
  /\ UNCHANGED <<kernel, processors, inventory, futures, awaited, told, aimed>>

\* PreSaveGame() of the processor, which persists the program, comes after the
\* kernel's; until it stops the worker, that may queue futures again.
Saved ==
  /\ phase = "prepared" /\ phase' = "saved"
  /\ UNCHANGED <<kernel, processors, inventory, futures, awaited, told, aimed>>

PostSaveGame ==
  /\ phase = "saved" /\ phase' = "idle"
  /\ UNCHANGED <<kernel, processors, inventory, futures, awaited, told, aimed>>

\* AddModules() with the n CPUs on the panel.
AddModules(k, n, e) ==
  IF n = 0 THEN k
  ELSE IF n = 1 THEN AddProcessor(k, 1, e)
  ELSE AddProcessor(AddProcessor(k, 1, e), 2, e)

\* PostLoadGame() of a running processor: it is reset, then the program is put
\* back if it could be persisted.
Resume(k, program, persisted) ==
  LET reset == ResetProcessor(k)
  IN  IF k.state # "RUNNING" THEN k
      ELSE IF reset.state = "RUNNING" /\ persisted
      THEN [reset EXCEPT !.program = program] ELSE reset

\* Loading a program queues the futures it holds again that are not done.
Unpersisted_All(hs, ds) == hs

Unpersisted(hs, ds) == hs \ ds

\* The queues that hold each of fs once.
Queues(fs) ==
  {q \in [1 .. Cardinality(fs) -> fs] :
     /\ fs \subseteq Queued(q)
     /\ \A i, j \in DOMAIN q : q[i] = q[j] => i = j}

\* The saved game is loaded.  The kernel and its processor are saved, Processors,
\* InternalKernelState, the processor's EEPROM and FutureQueue are not.  Only the
\* futures that the persisted program holds come back, in any order, also when
\* the kernel has crashed meanwhile; some of them when it fails half-way.
LoadGame(persisted) ==
  /\ phase = "saved" /\ phase' = "idle"
  /\ LET loaded == AddModules([kernel EXCEPT !.eeprom = None],
                              Cardinality(processors), GetEEPROM(slot, written))
         resumed == Resume(loaded, kernel.program, persisted)
         left == IF loaded.state = "RUNNING" THEN Unpersisted(held, done) ELSE {}
     IN  /\ kernel' = resumed
         /\ \E fs \in SUBSET left :
              (persisted => fs = left) /\ futures' \in Queues(fs)
         /\ held' = IF persisted THEN Kept(resumed, held) ELSE {}
         /\ done' = IF persisted THEN Kept(resumed, done) ELSE {}
  /\ written' = IF processors = {} THEN written ELSE Touched(slot)
  /\ InternalKernelState' = "SHUTOFF"
  /\ aimed' = {}
  /\ UNCHANGED <<processors, slot, broken>>

-----------------------------------------------------------------------------
Next ==
  \/ \E p \in Player : Aim(p) \/ \E c \in Cpu : BuildCpu(p, c)
  \/ \E c \in Cpu : DismantleCpu(c)
  \/ \E item \in Eeprom \cup {None} : MoveEEPROM(item)
  \/ \E e \in Eeprom : EditCode(e)
  \/ Toggle
  \/ \E call \in FutureCall : RemoteCall(call)
  \/ \E f \in Future : luaFutureGC(f) \/ \E keeps \in BOOLEAN : PushFuture(f, keeps)
  \/ \E ending \in Ending : KernelTick(ending)
  \/ HandleFuture \/ TickActor \/ TellState
  \/ PreSaveGame \/ Prepared \/ Saved \/ PostSaveGame
  \/ \E persisted \in BOOLEAN : LoadGame(persisted)

Spec == Init /\ [][Next]_vars

-----------------------------------------------------------------------------
(* Properties.                                                             *)

\* The kernel has a processor exactly when the case has one CPU: "You need
\* exactly one processor for the computer case to work."
PluggedIffOneCpu == kernel.plugged <=> Cardinality(processors) = 1

\* A computer that runs, or is about to run again, has a processor; what runs
\* is a program.  The "Processor Unplugged" crash of the tick never happens.
RunningIsPlugged ==
  /\ kernel.state \in {"RUNNING", "RESET"} => kernel.plugged
  /\ kernel.state = "RUNNING" <=> kernel.program # None

\* HandleFutures(), the program's futures and a load between the two PreSaveGame
\* of kernel and processor: a call a program awaits is neither lost nor made
\* twice.  It waits in the queue, once, or has its result; a property that is
\* set never has one (FINFuture.h:77).
FuturesOnce ==
  /\ \A i, j \in DOMAIN futures : futures[i] = futures[j] => i = j
  /\ Queued(futures) \cap done = {}
  /\ \A f \in held \ done : f \in Queued(futures) \/ Asks[f] = "setProperty"

\* The processor's copy of the EEPROM is the item in the slot or missing; it is
\* never an item that was taken out, through every change of CPUs and loads.
EepromFresh == kernel.eeprom \in {slot, None}

\* Whoever starts or restarts the computer, it boots from the slot.
BootsFromSlot ==
  [][kernel.state # "RUNNING" /\ kernel'.state = "RUNNING"
       => kernel'.program = slot']_vars

\* The power button starts a computer that has one CPU and an EEPROM that
\* compiles, however the CPU and the EEPROM came to be there.
PowerButtonStarts ==
  [][Toggle /\ kernel.state \in {"SHUTOFF", "CRASHED"}
       /\ Cardinality(processors) = 1 /\ slot \notin broken \cup {None}
       => kernel'.state = "RUNNING"]_vars

\* A save and a load leave the computer in its state; only a running program
\* whose EEPROM is gone or does not compile any more is crashed.
LoadKeepsState ==
  [][(\E persisted \in BOOLEAN : LoadGame(persisted))
       /\ Cardinality(processors) = 1
       => \/ kernel'.state = kernel.state
          \/ /\ kernel.state = "RUNNING" /\ kernel'.state = "CRASHED"
             /\ slot \in broken \cup {None}]_vars
=============================================================================
