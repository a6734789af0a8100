------------------------ MODULE ComputerCase_proofs ------------------------
(***************************************************************************)
(* Proofs about the computer case, for any CPUs, EEPROMs, players and      *)
(* futures.                                                                *)
(*                                                                         *)
(* The invariants hold together: what the kernel may do next depends on    *)
(* its processor, and both on the CPUs and the slot.  KernelFits joins     *)
(* them for one kernel, one number of CPUs and one item in the slot, so    *)
(* that each operation of the kernel has a lemma of its own; the proof of  *)
(* a step then only says which operations the action is made of.           *)
(***************************************************************************)
EXTENDS ComputerCase, FiniteSetTheorems, TLAPS

KernelFits(k, n, item) ==
  /\ k \in Kernel
  /\ k.plugged <=> n = 1
  /\ k.state \in {"RUNNING", "RESET"} => k.plugged
  /\ k.state = "RUNNING" <=> k.program # None
  /\ k.eeprom \in {item, None}
  /\ ~k.plugged => k.eeprom = None

\* The inductive invariant.  An item in the slot always has its state: whoever
\* puts it there reads it.
CaseInv ==
  /\ TypeOK
  /\ IsFiniteSet(processors)
  /\ KernelFits(kernel, Cardinality(processors), slot)
  /\ slot \in written \cup {None}

-----------------------------------------------------------------------------
(* The operations of the kernel.                                           *)

\* Stop() and Reset() of a kernel that fits its case.
LEMMA StopFits ==
  ASSUME NEW k, NEW n, NEW item, KernelFits(k, n, item)
  PROVE  /\ KernelFits(Stop(k), n, item)
         /\ Stop(k).state = "SHUTOFF"
         /\ k.plugged => KernelFits(Reset(k), n, item)
BY DEF KernelFits, Stop, Reset, Kernel, KernelState

\* Crash() of a kernel that fits its case.
LEMMA CrashFits ==
  ASSUME NEW k, NEW n, NEW item, KernelFits(k, n, item)
  PROVE  KernelFits(Crash(k), n, item) /\ Crash(k).plugged = k.plugged
BY DEF KernelFits, Crash, Kernel, KernelState

\* Start() boots the item in the slot or crashes; with a processor that has an
\* EEPROM that compiles it boots.
LEMMA StartFits ==
  ASSUME NEW k, NEW n, NEW item, NEW inReset \in BOOLEAN, KernelFits(k, n, item)
  PROVE  /\ KernelFits(Start(k, inReset), n, item)
         /\ Start(k, inReset).plugged = k.plugged
         /\ k.state # "RUNNING" /\ Start(k, inReset).state = "RUNNING"
              => Start(k, inReset).program = item
         /\ k.state # "RUNNING" /\ k.plugged /\ k.eeprom \notin broken \cup {None}
              => Start(k, inReset).state = "RUNNING"
BY CaseAssumptions
   DEF KernelFits, Start, ResetProcessor, Crash, Kernel, KernelState, CaseAssumptions

\* What a future does to its own computer.
LEMMA ExecuteFits ==
  ASSUME NEW k, NEW n, NEW item, NEW call \in FutureCall, KernelFits(k, n, item)
  PROVE  /\ KernelFits(Execute(k, call), n, item)
         /\ k.state # "RUNNING" /\ Execute(k, call).state = "RUNNING"
              => Execute(k, call).program = item
<1>1. CASE call = "startComputer"
  BY <1>1, StartFits DEF Execute
<1>2. CASE call = "stopComputer"
  BY <1>2, StopFits DEF Execute
<1>3. CASE call = "throw"
  BY <1>3, CrashFits DEF Execute, Crash, KernelFits, Kernel
<1>4. CASE call = "setProperty"
  BY <1>4 DEF Execute
<1> QED
  BY <1>1, <1>2, <1>3, <1>4 DEF FutureCall

\* SetProcessor() makes any kernel fit the number of CPUs it is told of.
LEMMA SetProcessorFits ==
  ASSUME NEW k \in Kernel, NEW n, NEW item
  PROVE  /\ KernelFits(SetProcessor(k, n = 1), n, item)
         /\ SetProcessor(k, n = 1).state = "SHUTOFF"
BY DEF KernelFits, SetProcessor, Stop, Kernel, KernelState

\* SetEEPROM() makes a kernel that fitted another item fit the new one.
LEMMA SetEEPROMFits ==
  ASSUME NEW k, NEW n, NEW old, NEW item \in Eeprom \cup {None}, NEW e \in {item, None},
         KernelFits(k, n, old)
  PROVE  /\ KernelFits(SetEEPROM(k, e), n, item)
         /\ SetEEPROM(k, e).state = k.state
         /\ SetEEPROM(k, e).plugged = k.plugged
         /\ k.plugged => SetEEPROM(k, e).eeprom = e
BY DEF KernelFits, SetEEPROM, Kernel, KernelState

\* AddProcessor() of the n-th CPU to a kernel that fitted one CPU less.
LEMMA AddProcessorFits ==
  ASSUME NEW k, NEW m, NEW n \in Nat, NEW item \in Eeprom \cup {None},
         NEW e \in {item, None}, m + 1 = n, m \in Nat, KernelFits(k, m, item)
  PROVE  /\ KernelFits(AddProcessor(k, n, e), n, item)
         /\ AddProcessor(k, n, e).state # "RUNNING"
<1>1. k \in Kernel
  BY DEF KernelFits
<1>2. CASE n = 1
  <2>1. ~k.plugged
    BY <1>2 DEF KernelFits
  <2>2. /\ KernelFits(SetProcessor(k, TRUE), n, item)
        /\ SetProcessor(k, TRUE).state = "SHUTOFF"
    BY <1>1, <1>2, SetProcessorFits
  <2>3. AddProcessor(k, n, e) = SetEEPROM(SetProcessor(k, TRUE), e)
    BY <1>2, <2>1 DEF AddProcessor
  <2>4. /\ KernelFits(SetEEPROM(SetProcessor(k, TRUE), e), n, item)
        /\ SetEEPROM(SetProcessor(k, TRUE), e).state = "SHUTOFF"
    BY <2>2, SetEEPROMFits
  <2> QED
    BY <2>3, <2>4
<1>3. CASE n # 1
  BY <1>1, <1>3, SetProcessorFits DEF AddProcessor
<1> QED
  BY <1>2, <1>3

\* What becomes of the program's futures with the kernel.
LEMMA AnswerTyped ==
  ASSUME TypeOK, NEW k, NEW fs, Answer(k, fs)
  PROVE  kernel' = k /\ held' \subseteq Future /\ done' \subseteq held'
BY DEF Answer, Kept, TypeOK

-----------------------------------------------------------------------------
(* The steps.                                                              *)

LEMMA InitCase == Init => CaseInv
<1> SUFFICES ASSUME Init PROVE CaseInv
  OBVIOUS
<1>1. IsFiniteSet(processors) /\ Cardinality(processors) = 0
  BY FS_EmptySet DEF Init
<1>2. TypeOK
  <2>1. kernel \in Kernel
    BY DEF Init, Kernel, KernelState
  <2>2. futures \in Seq(Future)
    BY DEF Init
  <2> QED
    BY <2>1, <2>2 DEF Init, TypeOK, KernelState
<1>3. KernelFits(kernel, Cardinality(processors), slot)
  BY <1>1 DEF Init, KernelFits, Kernel, KernelState
<1> QED
  BY <1>1, <1>2, <1>3 DEF CaseInv, Init

\* A step that changes neither the CPUs nor the slot, and the kernel only by
\* an operation that keeps it fitting.
LEMMA KernelStep ==
  ASSUME CaseInv, NEW k, NEW fs, Answer(k, fs),
         KernelFits(k, Cardinality(processors), slot),
         UNCHANGED <<processors, slot, broken, told, aimed>>,
         futures' \in Seq(Future),
         phase' \in {"idle", "tick", "save", "prepared", "saved"},
         written' \in {written, Touched(slot)}
  PROVE  CaseInv'
<1>1. TypeOK'
  <2>1. k \in Kernel
    BY DEF KernelFits
  <2>2. kernel' \in Kernel /\ held' \subseteq Future /\ done' \subseteq held'
    BY <2>1, AnswerTyped DEF CaseInv
  <2> QED
    BY <2>2 DEF CaseInv, TypeOK, Touched, told
<1>2. slot' \in written' \cup {None}
  BY DEF CaseInv, Touched
<1>3. KernelFits(kernel, Cardinality(processors), slot)'
  BY DEF Answer, KernelFits
<1> QED
  BY <1>1, <1>2, <1>3 DEF CaseInv

\* A CPU is built into the case or taken out of it.
LEMMA CpuStep ==
  ASSUME CaseInv,
         \/ \E p \in Player, c \in Cpu : BuildCpu(p, c)
         \/ \E c \in Cpu : DismantleCpu(c)
  PROVE  CaseInv'
<1> DEFINE n == Cardinality(processors)
<1>1. n \in Nat /\ kernel \in Kernel /\ slot \in Eeprom \cup {None}
  BY FS_CardinalityType DEF CaseInv, TypeOK
<1>2. ASSUME NEW p \in Player, NEW c \in Cpu, BuildCpu(p, c) PROVE CaseInv'
  <2> DEFINE k == AddProcessor(kernel, n + 1, GetEEPROM(slot, written))
  <2>1. IsFiniteSet(processors') /\ Cardinality(processors') = n + 1
    BY <1>2, FS_AddElement DEF CaseInv, BuildCpu
  <2>2. GetEEPROM(slot, written) \in {slot, None}
    BY DEF GetEEPROM
  <2>3. KernelFits(kernel, n, slot)
    BY DEF CaseInv
  <2>4. KernelFits(k, n + 1, slot)
    BY <1>1, <2>2, <2>3, AddProcessorFits
  <2>5. KernelFits(kernel, Cardinality(processors), slot)'
    BY <1>2, <2>1, <2>4 DEF BuildCpu, Become, Answer
  <2>6. TypeOK'
    <3>1. kernel' \in Kernel /\ held' \subseteq Future /\ done' \subseteq held'
      BY <1>2, <2>5, AnswerTyped DEF KernelFits, BuildCpu, Become, CaseInv
    <3>2. written' \subseteq Eeprom
      BY <1>2 DEF BuildCpu, Touched, CaseInv, TypeOK
    <3> QED
      BY <1>2, <3>1, <3>2 DEF BuildCpu, CaseInv, TypeOK, told
  <2>7. slot' \in written' \cup {None}
    BY <1>2 DEF BuildCpu, Touched, CaseInv
  <2> QED
    BY <2>1, <2>5, <2>6, <2>7 DEF CaseInv
<1>3. ASSUME NEW c \in Cpu, DismantleCpu(c) PROVE CaseInv'
  <2> DEFINE k == SetProcessor(kernel, n - 1 = 1)
  <2>1. IsFiniteSet(processors') /\ Cardinality(processors') = n - 1
    BY <1>3, FS_RemoveElement DEF CaseInv, DismantleCpu
  <2>2. KernelFits(k, n - 1, slot)
    BY <1>1, SetProcessorFits
  <2>3. KernelFits(kernel, Cardinality(processors), slot)'
    BY <1>3, <2>1, <2>2 DEF DismantleCpu, RemoveProcessor, Become, Answer, inventory
  <2>4. TypeOK'
    <3>1. kernel' \in Kernel /\ held' \subseteq Future /\ done' \subseteq held'
      BY <1>3, <2>3, AnswerTyped DEF KernelFits, DismantleCpu, Become, CaseInv
    <3> QED
      BY <1>3, <3>1 DEF DismantleCpu, CaseInv, TypeOK, inventory, told
  <2> QED
    BY <1>3, <2>1, <2>3, <2>4 DEF CaseInv, DismantleCpu, inventory
<1> QED
  BY <1>2, <1>3

\* An EEPROM is put into the slot or taken out of it.
LEMMA SlotStep ==
  ASSUME CaseInv, NEW item \in Eeprom \cup {None}, MoveEEPROM(item)
  PROVE  CaseInv'
<1> DEFINE e == GetEEPROM(item, written)
<1>1. e \in {item, None}
  BY DEF GetEEPROM
<1>2. KernelFits(SetEEPROM(kernel, e), Cardinality(processors), item)
  BY <1>1, SetEEPROMFits DEF CaseInv
<1>3. KernelFits(kernel, Cardinality(processors), slot)'
  BY <1>2 DEF MoveEEPROM, OnEEPROMChanged, Become, Answer
<1>4. TypeOK'
  <2>1. kernel' \in Kernel /\ held' \subseteq Future /\ done' \subseteq held'
    BY <1>3, AnswerTyped
       DEF KernelFits, MoveEEPROM, OnEEPROMChanged, Become, CaseInv
  <2>2. written' \subseteq Eeprom
    BY DEF MoveEEPROM, OnEEPROMChanged, Touched, CaseInv, TypeOK
  <2> QED
    BY <2>1, <2>2 DEF MoveEEPROM, CaseInv, TypeOK, told
<1>5. slot' \in written' \cup {None}
  BY DEF MoveEEPROM, OnEEPROMChanged, Touched
<1> QED
  BY <1>3, <1>4, <1>5 DEF CaseInv, MoveEEPROM

\* The saved game is loaded: what AddModules() makes of the saved kernel fits,
\* and so does the program that is resumed on it.
LEMMA LoadFits ==
  ASSUME CaseInv, NEW persisted \in BOOLEAN
  PROVE  LET loaded == AddModules([kernel EXCEPT !.eeprom = None],
                                  Cardinality(processors), GetEEPROM(slot, written))
             resumed == Resume(loaded, kernel.program, persisted)
         IN  /\ KernelFits(resumed, Cardinality(processors), slot)
             /\ Cardinality(processors) = 1
                  => \/ resumed.state = kernel.state
                     \/ /\ kernel.state = "RUNNING" /\ resumed.state = "CRASHED"
                        /\ slot \in broken \cup {None}
<1> DEFINE n == Cardinality(processors)
           e == GetEEPROM(slot, written)
           saved == [kernel EXCEPT !.eeprom = None]
           loaded == AddModules(saved, n, e)
           resumed == Resume(loaded, kernel.program, persisted)
<1>1. n \in Nat /\ kernel \in Kernel /\ slot \in Eeprom \cup {None}
  BY FS_CardinalityType DEF CaseInv, TypeOK
<1>2. e \in {slot, None} /\ (slot # None => e = slot)
  BY DEF GetEEPROM, CaseInv
<1>3. KernelFits(saved, n, slot) /\ saved.state = kernel.state
  BY <1>1 DEF CaseInv, KernelFits, Kernel
<1>4. /\ KernelFits(loaded, n, slot)
      /\ n = 1 => /\ loaded.state = kernel.state
                  /\ loaded.eeprom = e
                  /\ loaded.program = saved.program
  <2>1. CASE n = 0
    BY <1>3, <2>1 DEF AddModules
  <2>2. CASE n = 1
    <3>1. saved.plugged
      BY <1>3, <2>2 DEF KernelFits
    <3>2. loaded = SetEEPROM(saved, e)
      BY <2>2, <3>1 DEF AddModules, AddProcessor
    <3>3. KernelFits(SetEEPROM(saved, e), n, slot)
      BY <1>1, <1>2, <1>3, SetEEPROMFits
    <3>4. /\ SetEEPROM(saved, e).state = saved.state
          /\ SetEEPROM(saved, e).eeprom = e
          /\ SetEEPROM(saved, e).program = saved.program
      BY <1>3, <3>1 DEF SetEEPROM, KernelFits, Kernel
    <3> QED
      BY <1>3, <3>2, <3>3, <3>4
  <2>3. CASE n > 1
    <3>1. ~saved.plugged
      BY <1>3, <2>3 DEF KernelFits
    <3>2. KernelFits(saved, 0, slot)
      BY <1>3, <3>1 DEF KernelFits
    <3>3. KernelFits(AddProcessor(saved, 1, e), 1, slot)
      <4>1. 0 \in Nat /\ 1 \in Nat /\ 0 + 1 = 1
        OBVIOUS
      <4> HIDE DEF saved, e
      <4> QED
        BY <1>1, <1>2, <3>2, <4>1, AddProcessorFits
    <3>4. KernelFits(AddProcessor(AddProcessor(saved, 1, e), 2, e), 2, slot)
      BY <1>1, <1>2, <3>3, AddProcessorFits
    <3>5. loaded = AddProcessor(AddProcessor(saved, 1, e), 2, e)
      BY <2>3, <1>1 DEF AddModules
    <3>6. KernelFits(loaded, 2, slot)
      BY <3>4, <3>5
    <3>7. KernelFits(loaded, n, slot)
      BY <3>6, <2>3, <1>1 DEF KernelFits
    <3> QED
      BY <3>7, <2>3
  <2> QED
    BY <1>1, <2>1, <2>2, <2>3
<1>5. CASE loaded.state # "RUNNING"
  <2>1. resumed = loaded
    BY <1>5 DEF Resume
  <2> QED
    BY <1>4, <2>1
<1>6. CASE loaded.state = "RUNNING"
  <2> DEFINE booted == ResetProcessor(loaded)
  <2>1. loaded.plugged /\ n = 1
    BY <1>4, <1>6 DEF KernelFits
  <2>2. kernel.program \in Eeprom
    BY <1>4, <1>6, <2>1, <1>1 DEF CaseInv, KernelFits, Kernel
  <2>3. /\ KernelFits(booted, n, slot)
        /\ booted.state # "RUNNING" => /\ booted.state = "CRASHED"
                                       /\ e \in broken \cup {None}
    BY <1>4, <1>6, <2>1, CaseAssumptions
       DEF ResetProcessor, Crash, KernelFits, Kernel, KernelState, CaseAssumptions
  <2>4. CASE booted.state = "RUNNING" /\ persisted
    <3>1. resumed = [booted EXCEPT !.program = kernel.program]
      BY <1>6, <2>4 DEF Resume
    <3>2. KernelFits([booted EXCEPT !.program = kernel.program], n, slot)
      BY <2>2, <2>3, <2>4, CaseAssumptions
         DEF KernelFits, Kernel, CaseAssumptions
    <3>3. resumed.state = "RUNNING"
      BY <2>3, <2>4, <3>1 DEF KernelFits, Kernel
    <3> QED
      BY <1>4, <1>6, <2>1, <3>1, <3>2, <3>3
  <2>5. CASE ~(booted.state = "RUNNING" /\ persisted)
    <3>1. resumed = booted
      BY <1>6, <2>5 DEF Resume
    <3> QED
      BY <1>2, <1>4, <1>6, <2>1, <2>3, <3>1
  <2> QED
    BY <2>4, <2>5
<1> QED
  BY <1>5, <1>6

\* What a load queues: futures the program held that are not done, each once;
\* all of them if the program itself is back.
LEMMA Requeued ==
  ASSUME TypeOK, NEW persisted \in BOOLEAN, LoadGame(persisted)
  PROVE  /\ futures' \in Seq(Future)
         /\ Queued(futures') \subseteq held \ done
         /\ \A i, j \in DOMAIN futures' : futures'[i] = futures'[j] => i = j
         /\ held' # {} => /\ held' = held /\ done' = done
                          /\ Queued(futures') = held \ done
<1> DEFINE loaded == AddModules([kernel EXCEPT !.eeprom = None],
                                Cardinality(processors), GetEEPROM(slot, written))
           left == IF loaded.state = "RUNNING" THEN Unpersisted(held, done) ELSE {}
<1>1. PICK fs \in SUBSET left : (persisted => fs = left) /\ futures' \in Queues(fs)
  BY DEF LoadGame
<1>2. fs \subseteq held \ done /\ fs \subseteq Future
  BY DEF Unpersisted, TypeOK
<1>3. IsFiniteSet(fs) /\ Cardinality(fs) \in Nat
  BY <1>2, CaseAssumptions, FS_Subset, FS_CardinalityType DEF CaseAssumptions
<1>4. /\ futures' \in [1 .. Cardinality(fs) -> fs] /\ fs \subseteq Queued(futures')
      /\ \A i, j \in DOMAIN futures' : futures'[i] = futures'[j] => i = j
  BY <1>1 DEF Queues
<1>5. futures' \in Seq(Future)
  BY <1>2, <1>3, <1>4
<1>6. Queued(futures') = fs
  BY <1>4 DEF Queued
<1>7. ASSUME held' # {}
      PROVE  held' = held /\ done' = done /\ fs = held \ done
  <2> DEFINE resumed == Resume(loaded, kernel.program, persisted)
  <2>1. persisted /\ resumed.state = "RUNNING" /\ held' = held /\ done' = done
    BY <1>7 DEF LoadGame, Kept
  <2>2. loaded.state = "RUNNING"
    <3> HIDE DEF loaded
    <3> QED
      BY <2>1 DEF Resume
  <2> QED
    BY <1>1, <2>1, <2>2 DEF Unpersisted
<1> QED
  BY <1>2, <1>4, <1>5, <1>6, <1>7

LEMMA LoadStep ==
  ASSUME CaseInv, NEW persisted \in BOOLEAN, LoadGame(persisted)
  PROVE  CaseInv'
<1> DEFINE loaded == AddModules([kernel EXCEPT !.eeprom = None],
                                Cardinality(processors), GetEEPROM(slot, written))
           resumed == Resume(loaded, kernel.program, persisted)
<1>1. KernelFits(resumed, Cardinality(processors), slot)
  BY LoadFits
<1>2. kernel' = resumed /\ processors' = processors /\ slot' = slot
  BY DEF LoadGame
<1>3. KernelFits(kernel, Cardinality(processors), slot)'
  <2> HIDE DEF resumed
  <2> QED
    BY <1>1, <1>2
<1>4. TypeOK'
  <2>1. kernel' \in Kernel
    BY <1>3 DEF KernelFits
  <2>2. futures' \in Seq(Future)
    BY Requeued DEF CaseInv
  <2>5. held' \subseteq Future /\ done' \subseteq held'
    BY DEF LoadGame, Kept, CaseInv, TypeOK
  <2>3. written' \subseteq Eeprom
    BY DEF LoadGame, Touched, CaseInv, TypeOK
  <2>4. /\ phase' = "idle" /\ InternalKernelState' = "SHUTOFF" /\ aimed' = {}
        /\ UNCHANGED <<processors, slot, broken>>
    BY DEF LoadGame
  <2> QED
    BY <2>1, <2>2, <2>3, <2>4, <2>5 DEF CaseInv, TypeOK, KernelState
<1>5. slot' \in written' \cup {None}
  BY DEF LoadGame, Touched, CaseInv
<1> QED
  BY <1>2, <1>3, <1>4, <1>5 DEF CaseInv

LEMMA NextCase == CaseInv /\ [Next]_vars => CaseInv'
<1> SUFFICES ASSUME CaseInv, [Next]_vars PROVE CaseInv'
  OBVIOUS
<1> DEFINE n == Cardinality(processors)
<1>a. KernelFits(kernel, n, slot)
  BY DEF CaseInv
<1>b. /\ futures \in Seq(Future)
      /\ phase \in {"idle", "tick", "save", "prepared", "saved"}
  BY DEF CaseInv, TypeOK
<1>1. CASE UNCHANGED vars
  BY <1>1 DEF vars, inventory, told, awaited, CaseInv, TypeOK, KernelFits
<1>2. ASSUME NEW p \in Player, Aim(p) PROVE CaseInv'
  BY <1>2 DEF Aim, inventory, told, awaited, CaseInv, TypeOK, KernelFits
<1>3. ASSUME NEW e \in Eeprom, EditCode(e) PROVE CaseInv'
  BY <1>3 DEF EditCode, told, awaited, CaseInv, TypeOK, KernelFits
<1>4. CASE Toggle
  <2> DEFINE read == SetEEPROM(kernel, GetEEPROM(slot, written))
             k == CASE read.state = "SHUTOFF" -> Start(read, FALSE)
                    [] read.state = "CRASHED" -> Start(read, TRUE)
                    [] OTHER -> Stop(read)
  <2>1. GetEEPROM(slot, written) \in {slot, None} /\ slot \in Eeprom \cup {None}
    BY DEF GetEEPROM, CaseInv, TypeOK
  <2>2. KernelFits(read, n, slot)
    BY <1>a, <2>1, SetEEPROMFits
  <2>3. KernelFits(k, n, slot)
    <3>1. /\ KernelFits(Start(read, FALSE), n, slot)
          /\ KernelFits(Start(read, TRUE), n, slot)
          /\ KernelFits(Stop(read), n, slot)
      BY <2>2, StartFits, StopFits
    <3> HIDE DEF read
    <3> QED
      BY <3>1
  <2>4. Become(k) /\ written' \in {written, Touched(slot)}
    BY <1>4 DEF Toggle
  <2>5. UNCHANGED <<processors, slot, broken, futures, phase, told, aimed>>
    BY <1>4 DEF Toggle
  <2> HIDE DEF k
  <2> QED
    BY <1>b, <2>3, <2>4, <2>5, KernelStep DEF Become
<1>5. ASSUME NEW call \in FutureCall, RemoteCall(call) PROVE CaseInv'
  <2>1. KernelFits(Execute(kernel, call), n, slot)
    BY <1>a, ExecuteFits
  <2>2. Become(Execute(kernel, call))
    BY <1>5 DEF RemoteCall
  <2>3. UNCHANGED <<processors, slot, written, broken, futures, phase, told, aimed>>
    BY <1>5 DEF RemoteCall, inventory
  <2> QED
    BY <1>b, <2>1, <2>2, <2>3, KernelStep DEF Become
<1>6. ASSUME NEW f \in Future, luaFutureGC(f) \/ \E keeps \in BOOLEAN : PushFuture(f, keeps)
      PROVE  CaseInv'
  <2>1. futures' \in Seq(Future) /\ held' \subseteq Future /\ done' \subseteq held'
    BY <1>6, <1>b DEF PushFuture, luaFutureGC, CaseInv, TypeOK
  <2> QED
    BY <1>6, <2>1 DEF PushFuture, luaFutureGC, inventory, told, CaseInv, TypeOK, KernelFits
<1>7. ASSUME NEW ending \in Ending, KernelTick(ending) PROVE CaseInv'
  <2> DEFINE up == IF kernel.state = "RESET" THEN Start(kernel, TRUE) ELSE kernel
             k == IF up.state # "RUNNING" THEN up
                  ELSE IF ~up.plugged \/ ending = "crash" THEN Crash(up)
                  ELSE IF ending = "stop" THEN Stop(up)
                  ELSE IF ending = "reset" THEN Reset(up)
                  ELSE up
  <2>1. KernelFits(up, n, slot)
    BY <1>a, StartFits
  <2>2. KernelFits(k, n, slot)
    <3>1. /\ KernelFits(Crash(up), n, slot)
          /\ KernelFits(Stop(up), n, slot)
          /\ up.plugged => KernelFits(Reset(up), n, slot)
      BY <2>1, CrashFits, StopFits
    <3> HIDE DEF up
    <3> QED
      BY <2>1, <3>1
  <2>3. Become(k)
    BY <1>7 DEF KernelTick
  <2>4. UNCHANGED <<processors, slot, written, broken, futures, phase, told, aimed>>
    BY <1>7 DEF KernelTick, inventory
  <2> HIDE DEF k
  <2> QED
    BY <1>b, <2>2, <2>3, <2>4, KernelStep DEF Become
<1>8. CASE HandleFuture
  <2> DEFINE f == Head(futures)
             k == Execute(kernel, Asks[f])
             fs == IF Finishes(f) THEN {f} ELSE {}
  <2>1. Asks[f] \in FutureCall /\ futures' \in Seq(Future)
    BY <1>8, <1>b, CaseAssumptions DEF HandleFuture, CaseAssumptions
  <2>2. KernelFits(k, n, slot)
    BY <1>a, <2>1, ExecuteFits
  <2>3. Answer(k, fs)
    BY <1>8 DEF HandleFuture
  <2>4. UNCHANGED <<processors, slot, written, broken, phase, told, aimed>>
    BY <1>8 DEF HandleFuture, inventory
  <2> HIDE DEF k, fs
  <2> QED
    BY <1>b, <2>1, <2>2, <2>3, <2>4, KernelStep
<1>9. CASE TickActor \/ TellState
  BY <1>9 DEF TickActor, TellState, inventory, told, awaited, CaseInv, TypeOK, KernelFits, Kernel
<1>10. CASE PreSaveGame \/ Prepared \/ Saved \/ PostSaveGame
  BY <1>10 DEF PreSaveGame, Prepared, Saved, PostSaveGame, inventory, told, awaited, CaseInv, TypeOK, KernelFits
<1> QED
  BY <1>1, <1>2, <1>3, <1>4, <1>5, <1>6, <1>7, <1>8, <1>9, <1>10,
     CpuStep, SlotStep, LoadStep DEF Next

\* The inductive invariant holds in every reachable state.
LEMMA CaseHolds == Spec => []CaseInv
  BY InitCase, NextCase, PTL DEF Spec

-----------------------------------------------------------------------------
(* The futures.                                                            *)

Once(q) == \A i, j \in DOMAIN q : q[i] = q[j] => i = j

\* A computer that does not run holds no futures.
FutureInv == FuturesOnce /\ (kernel.state # "RUNNING" => held = {})

\* A queue of futures that are all different, before and after a call of one of
\* its ends.
LEMMA QueueEnds ==
  ASSUME NEW q \in Seq(Future), Once(q)
  PROVE  /\ q # <<>> => /\ Head(q) \in Future
                       /\ Once(Tail(q))
                       /\ Queued(Tail(q)) = Queued(q) \ {Head(q)}
         /\ \A f \in Future \ Queued(q) :
              Once(Append(q, f)) /\ Queued(Append(q, f)) = Queued(q) \cup {f}
<1>1. ASSUME q # <<>>
      PROVE  /\ Head(q) \in Future /\ Once(Tail(q))
             /\ Queued(Tail(q)) = Queued(q) \ {Head(q)}
  <2>1. /\ Len(q) \in Nat \ {0} /\ DOMAIN q = 1 .. Len(q) /\ Head(q) = q[1]
        /\ DOMAIN Tail(q) = 1 .. Len(q) - 1
        /\ \A i \in 1 .. Len(q) - 1 : Tail(q)[i] = q[i + 1]
    BY <1>1
  <2>2. Head(q) \in Future
    BY <2>1
  <2>3. Once(Tail(q))
    <3>1. ASSUME NEW i \in DOMAIN Tail(q), NEW j \in DOMAIN Tail(q),
                 Tail(q)[i] = Tail(q)[j]
          PROVE  i = j
      <4>1. q[i + 1] = q[j + 1] /\ i + 1 \in DOMAIN q /\ j + 1 \in DOMAIN q
        BY <2>1, <3>1
      <4> QED
        BY <2>1, <4>1 DEF Once
    <3> QED
      BY <3>1 DEF Once
  <2>4. ASSUME NEW f \in Queued(Tail(q)) PROVE f \in Queued(q) \ {Head(q)}
    <3>1. PICK i \in 1 .. Len(q) - 1 : f = q[i + 1]
      BY <2>1 DEF Queued
    <3>2. i + 1 \in DOMAIN q /\ 1 \in DOMAIN q /\ i + 1 # 1
      BY <2>1
    <3>3. f # q[1]
      BY <3>1, <3>2 DEF Once
    <3> QED
      BY <2>1, <3>1, <3>2, <3>3 DEF Queued
  <2>5. ASSUME NEW f \in Queued(q) \ {Head(q)} PROVE f \in Queued(Tail(q))
    <3>1. PICK i \in 1 .. Len(q) : f = q[i]
      BY <2>1 DEF Queued
    <3>2. i # 1 /\ i - 1 \in 1 .. Len(q) - 1 /\ (i - 1) + 1 = i
      BY <2>1, <2>5, <3>1
    <3>3. Tail(q)[i - 1] = q[i]
      BY <2>1, <3>2
    <3> QED
      BY <2>1, <3>1, <3>2, <3>3 DEF Queued
  <2> QED
    BY <2>2, <2>3, <2>4, <2>5
<1>2. ASSUME NEW f \in Future \ Queued(q)
      PROVE  Once(Append(q, f)) /\ Queued(Append(q, f)) = Queued(q) \cup {f}
  <2>1. /\ Len(q) \in Nat /\ DOMAIN q = 1 .. Len(q)
        /\ DOMAIN Append(q, f) = 1 .. Len(q) + 1
        /\ Append(q, f)[Len(q) + 1] = f
        /\ \A i \in 1 .. Len(q) : Append(q, f)[i] = q[i]
    OBVIOUS
  <2>2. \A i \in 1 .. Len(q) : q[i] # f
    BY <1>2, <2>1 DEF Queued
  <2> QED
    BY <2>1, <2>2 DEF Once, Queued
<1> QED
  BY <1>1, <1>2

\* The kernel changes, the queue does not.
LEMMA FuturesStay ==
  ASSUME TypeOK, FutureInv, NEW k, Become(k), futures' = futures
  PROVE  FutureInv'
BY DEF FutureInv, FuturesOnce, Become, Answer, Kept, Queued, TypeOK

\* HandleFutures() takes a future: it has its result, or has set a property, or
\* has ended the program that could have awaited it.
LEMMA HandledOnce ==
  ASSUME TypeOK, FutureInv, HandleFuture
  PROVE  FutureInv'
<1> DEFINE f == Head(futures)
           k == Execute(kernel, Asks[f])
           fs == IF Finishes(f) THEN {f} ELSE {}
<1>1. /\ f \in Future /\ futures' = Tail(futures)
      /\ Once(futures') /\ Queued(futures') = Queued(futures) \ {f}
  BY QueueEnds DEF HandleFuture, TypeOK, FutureInv, FuturesOnce, Once
<1>2. kernel' = k /\ held' = Kept(k, held) /\ done' = Kept(k, done \cup (held \cap fs))
  BY DEF HandleFuture, Answer
<1>3. kernel'.state # "RUNNING" => held' = {} /\ done' = {}
  BY <1>2 DEF Kept
<1>4. CASE kernel'.state = "RUNNING"
  <2>1. held' = held /\ done' = done \cup (held \cap fs)
    BY <1>2, <1>4 DEF Kept
  <2>2. Asks[f] # "throw"
    <3>1. Crash(kernel).state # "RUNNING"
      BY DEF Crash, TypeOK, Kernel
    <3> QED
      BY <1>2, <1>4, <3>1 DEF Execute
  <2>3. Asks[f] = "setProperty" \/ f \in fs
    BY <2>2 DEF Finishes
  <2>4. Queued(futures') \cap done' = {}
    BY <1>1, <2>1 DEF FutureInv, FuturesOnce
  <2>5. ASSUME NEW g \in held' \ done'
        PROVE  g \in Queued(futures') \/ Asks[g] = "setProperty"
    <3> HIDE DEF f, fs
    <3> QED
      BY <1>1, <2>1, <2>3 DEF FutureInv, FuturesOnce
  <2> QED
    BY <1>1, <1>4, <2>4, <2>5 DEF FutureInv, FuturesOnce, Once
<1>5. CASE kernel'.state # "RUNNING"
  BY <1>1, <1>3, <1>5 DEF FutureInv, FuturesOnce, Once
<1> QED
  BY <1>4, <1>5

LEMMA NextFutures == TypeOK /\ FutureInv /\ [Next]_vars => FutureInv'
<1> SUFFICES ASSUME TypeOK, FutureInv, [Next]_vars PROVE FutureInv'
  OBVIOUS
<1>1. CASE UNCHANGED <<kernel, futures, awaited>>
  BY <1>1 DEF FutureInv, FuturesOnce, Queued, awaited
<1>2. CASE futures' = futures /\ \E k : Become(k)
  BY <1>2, FuturesStay
<1>3. CASE HandleFuture
  BY <1>3, HandledOnce
<1>4. ASSUME NEW f \in Future, luaFutureGC(f) PROVE FutureInv'
  BY <1>4 DEF luaFutureGC, FutureInv, FuturesOnce, Queued
<1>5. ASSUME NEW f \in Future, NEW keeps \in BOOLEAN, PushFuture(f, keeps)
      PROVE  FutureInv'
  <2>1. Once(futures') /\ Queued(futures') = Queued(futures) \cup {f}
    BY <1>5, QueueEnds DEF PushFuture, TypeOK, FutureInv, FuturesOnce, Once
  <2>2. /\ f \notin done /\ kernel' = kernel /\ kernel.state = "RUNNING"
        /\ held \subseteq held' /\ held' \subseteq held \cup {f} /\ done' = done
    BY <1>5 DEF PushFuture, TypeOK
  <2>3. Queued(futures') \cap done' = {}
    BY <2>1, <2>2 DEF FutureInv, FuturesOnce
  <2>4. \A g \in held' \ done' : g \in Queued(futures') \/ Asks[g] = "setProperty"
    BY <2>1, <2>2 DEF FutureInv, FuturesOnce
  <2> QED
    BY <2>1, <2>2, <2>3, <2>4 DEF FutureInv, FuturesOnce, Once
<1>6. ASSUME NEW persisted \in BOOLEAN, LoadGame(persisted) PROVE FutureInv'
  <2>1. /\ Queued(futures') \subseteq held \ done /\ Once(futures')
        /\ held' # {} => /\ held' = held /\ done' = done
                         /\ Queued(futures') = held \ done
    BY <1>6, Requeued DEF Once
  <2>2. done' \subseteq held' /\ (kernel'.state # "RUNNING" => held' = {})
    BY <1>6 DEF LoadGame, Kept, TypeOK
  <2> QED
    BY <2>1, <2>2 DEF FutureInv, FuturesOnce, Once
<1>7. CASE \/ \E p \in Player, c \in Cpu : BuildCpu(p, c)
           \/ \E c \in Cpu : DismantleCpu(c)
           \/ \E item \in Eeprom \cup {None} : MoveEEPROM(item)
           \/ Toggle
           \/ \E call \in FutureCall : RemoteCall(call)
           \/ \E ending \in Ending : KernelTick(ending)
  <2>1. futures' = futures /\ \E k : Become(k)
    BY <1>7 DEF BuildCpu, DismantleCpu, MoveEEPROM, OnEEPROMChanged, Toggle,
       RemoteCall, KernelTick
  <2> QED
    BY <1>2, <2>1
<1>8. CASE \/ \E p \in Player : Aim(p)
           \/ \E e \in Eeprom : EditCode(e)
           \/ TickActor \/ TellState \/ PreSaveGame \/ Prepared \/ Saved \/ PostSaveGame
           \/ UNCHANGED vars
  <2>1. UNCHANGED <<kernel, futures, awaited>>
    BY <1>8 DEF Aim, EditCode, TickActor, TellState, PreSaveGame, Prepared, Saved,
       PostSaveGame, vars
  <2> QED
    BY <1>1, <2>1
<1> QED
  BY <1>3, <1>4, <1>5, <1>6, <1>7, <1>8 DEF Next

\* What a program awaits is queued or done, whatever is handled, saved, loaded,
\* stopped or crashed meanwhile.
THEOREM FuturesAreOnce == Spec => []FuturesOnce
<1>1. Init => FutureInv
  BY DEF Init, FutureInv, FuturesOnce, Queued
<1>2. CaseInv => TypeOK
  BY DEF CaseInv
<1>3. FutureInv => FuturesOnce
  BY DEF FutureInv
<1> QED
  BY <1>1, <1>2, <1>3, NextFutures, CaseHolds, PTL DEF Spec

-----------------------------------------------------------------------------
(* The theorems.                                                           *)

\* Every variable keeps its type.
THEOREM TypeCorrect == Spec => []TypeOK
<1>1. CaseInv => TypeOK
  BY DEF CaseInv
<1> QED
  BY <1>1, CaseHolds, PTL

\* AddProcessor(), RemoveProcessor() and AddModules() keep the kernel's
\* processor in step with the CPUs of the case.
THEOREM ProcessorFollowsCpus == Spec => []PluggedIffOneCpu
<1>1. CaseInv => PluggedIffOneCpu
  BY DEF CaseInv, KernelFits, PluggedIffOneCpu
<1> QED
  BY <1>1, CaseHolds, PTL

\* A kernel never runs without a processor: the "Processor Unplugged" branch of
\* Tick() is dead code.
THEOREM NeverUnplugged == Spec => []RunningIsPlugged
<1>1. CaseInv => RunningIsPlugged
  BY DEF CaseInv, KernelFits, RunningIsPlugged
<1> QED
  BY <1>1, CaseHolds, PTL

\* SetEEPROM() is called wherever the slot changes.
THEOREM EepromIsFresh == Spec => []EepromFresh
<1>1. CaseInv => EepromFresh
  BY DEF CaseInv, KernelFits, EepromFresh
<1> QED
  BY <1>1, CaseHolds, PTL

\* A save and a load never stop, start or revive a computer; a running one is
\* crashed only if it could not boot either.
THEOREM LoadsKeepState == Spec => LoadKeepsState
<1>1. ASSUME CaseInv, NEW persisted \in BOOLEAN, LoadGame(persisted),
             Cardinality(processors) = 1
      PROVE  \/ kernel'.state = kernel.state
             \/ /\ kernel.state = "RUNNING" /\ kernel'.state = "CRASHED"
                /\ slot \in broken \cup {None}
  <2> DEFINE resumed == Resume(AddModules([kernel EXCEPT !.eeprom = None],
                                          Cardinality(processors),
                                          GetEEPROM(slot, written)),
                               kernel.program, persisted)
  <2>1. kernel' = resumed
    BY <1>1 DEF LoadGame
  <2>2. \/ resumed.state = kernel.state
        \/ /\ kernel.state = "RUNNING" /\ resumed.state = "CRASHED"
           /\ slot \in broken \cup {None}
    BY <1>1, LoadFits
  <2> HIDE DEF resumed
  <2> QED
    BY <2>1, <2>2
<1>2. CaseInv /\ [Next]_vars
        => [(\E persisted \in BOOLEAN : LoadGame(persisted))
              /\ Cardinality(processors) = 1
            => \/ kernel'.state = kernel.state
               \/ /\ kernel.state = "RUNNING" /\ kernel'.state = "CRASHED"
                  /\ slot \in broken \cup {None}]_vars
  BY <1>1
<1> QED
  BY <1>2, CaseHolds, PTL DEF Spec, LoadKeepsState

\* With one CPU the processor and the EEPROM are where the power button needs
\* them, so that it starts the computer.
THEOREM PowerButtonWorks == Spec => PowerButtonStarts
<1>1. ASSUME CaseInv, Toggle, kernel.state \in {"SHUTOFF", "CRASHED"},
             Cardinality(processors) = 1, slot \notin broken \cup {None}
      PROVE  kernel'.state = "RUNNING"
  <2> DEFINE read == SetEEPROM(kernel, GetEEPROM(slot, written))
  <2>1. GetEEPROM(slot, written) = slot /\ slot \in Eeprom \cup {None}
    BY <1>1 DEF GetEEPROM, CaseInv, TypeOK
  <2>2. KernelFits(kernel, 1, slot) /\ kernel.plugged
    BY <1>1 DEF CaseInv, KernelFits
  <2>3. /\ KernelFits(read, 1, slot) /\ read.state = kernel.state
        /\ read.plugged /\ read.eeprom = slot
    BY <2>1, <2>2, SetEEPROMFits
  <2>4. /\ Start(read, FALSE).state = "RUNNING"
        /\ Start(read, TRUE).state = "RUNNING"
    BY <1>1, <2>3, StartFits
  <2>5. kernel' = CASE read.state = "SHUTOFF" -> Start(read, FALSE)
                    [] read.state = "CRASHED" -> Start(read, TRUE)
                    [] OTHER -> Stop(read)
    BY <1>1 DEF Toggle, Become, Answer
  <2> HIDE DEF read
  <2> QED
    BY <1>1, <2>3, <2>4, <2>5
<1>2. CaseInv /\ [Next]_vars
        => [Toggle /\ kernel.state \in {"SHUTOFF", "CRASHED"}
              /\ Cardinality(processors) = 1 /\ slot \notin broken \cup {None}
            => kernel'.state = "RUNNING"]_vars
  BY <1>1
<1> QED
  BY <1>2, CaseHolds, PTL DEF Spec, PowerButtonStarts

\* Only Start() sets a kernel running, on the button, a call, a future or a
\* reset, and it boots what the processor holds: the item in the slot.
THEOREM BootsTheSlot == Spec => BootsFromSlot
<1> DEFINE Boots == kernel.state # "RUNNING" /\ kernel'.state = "RUNNING"
                      => kernel'.program = slot'
           n == Cardinality(processors)
<1>1. ASSUME CaseInv, Next PROVE Boots
  <2>a. KernelFits(kernel, n, slot) /\ slot \in Eeprom \cup {None}
    BY <1>1 DEF CaseInv, TypeOK
  <2>b. n \in Nat /\ kernel \in Kernel
    BY <1>1, FS_CardinalityType DEF CaseInv, TypeOK
  <2>1. ASSUME NEW p \in Player, NEW c \in Cpu, BuildCpu(p, c) PROVE Boots
    <3>1. GetEEPROM(slot, written) \in {slot, None}
      BY DEF GetEEPROM
    <3>2. /\ KernelFits(AddProcessor(kernel, n + 1, GetEEPROM(slot, written)), n + 1, slot)
          /\ AddProcessor(kernel, n + 1, GetEEPROM(slot, written)).state # "RUNNING"
      BY <2>a, <2>b, <3>1, AddProcessorFits
    <3> QED
      BY <2>1, <3>2 DEF BuildCpu, Become, Answer
  <2>2. ASSUME NEW c \in Cpu, DismantleCpu(c) PROVE Boots
    <3>1. SetProcessor(kernel, n - 1 = 1).state = "SHUTOFF"
      BY <2>b, SetProcessorFits
    <3> QED
      BY <2>2, <3>1 DEF DismantleCpu, RemoveProcessor, Become, Answer
  <2>3. ASSUME NEW item \in Eeprom \cup {None}, MoveEEPROM(item) PROVE Boots
    <3>1. GetEEPROM(item, written) \in {item, None}
      BY DEF GetEEPROM
    <3>2. SetEEPROM(kernel, GetEEPROM(item, written)).state = kernel.state
      BY <2>a, <3>1, SetEEPROMFits
    <3> QED
      BY <2>3, <3>2 DEF MoveEEPROM, OnEEPROMChanged, Become, Answer
  <2>4. CASE Toggle
    <3> DEFINE read == SetEEPROM(kernel, GetEEPROM(slot, written))
    <3>1. GetEEPROM(slot, written) \in {slot, None}
      BY DEF GetEEPROM
    <3>2. KernelFits(read, n, slot) /\ read.state = kernel.state
      BY <2>a, <3>1, SetEEPROMFits
    <3>3. /\ kernel' = CASE read.state = "SHUTOFF" -> Start(read, FALSE)
                         [] read.state = "CRASHED" -> Start(read, TRUE)
                         [] OTHER -> Stop(read)
          /\ slot' = slot
      BY <2>4 DEF Toggle, Become, Answer
    <3>4. /\ Start(read, FALSE).state = "RUNNING" /\ kernel.state # "RUNNING"
               => Start(read, FALSE).program = slot
          /\ Start(read, TRUE).state = "RUNNING" /\ kernel.state # "RUNNING"
               => Start(read, TRUE).program = slot
      BY <3>2, StartFits
    <3>5. KernelFits(Stop(read), n, slot) /\ Stop(read).state = "SHUTOFF"
      BY <3>2, StopFits
    <3> HIDE DEF read
    <3> QED
      BY <3>3, <3>4, <3>5
  <2>5. ASSUME NEW call \in FutureCall, RemoteCall(call) PROVE Boots
    BY <2>5, <2>a, ExecuteFits DEF RemoteCall, Become, Answer, inventory
  <2>6. ASSUME NEW ending \in Ending, KernelTick(ending) PROVE Boots
    <3> DEFINE up == Start(kernel, TRUE)
    <3>1. CASE kernel.state = "RESET"
      <4>1. KernelFits(up, n, slot) /\ (up.state = "RUNNING" => up.program = slot)
        BY <2>a, <3>1, StartFits
      <4>2. /\ Crash(up).state # "RUNNING" /\ Stop(up).state # "RUNNING"
            /\ Reset(up).state # "RUNNING"
        BY <4>1 DEF Crash, Stop, Reset, KernelFits, Kernel
      <4>3. kernel' \in {up, Crash(up), Stop(up), Reset(up)} /\ slot' = slot
        BY <2>6, <3>1 DEF KernelTick, Become, Answer, inventory
      <4> HIDE DEF up
      <4> QED
        BY <4>1, <4>2, <4>3
    <3>2. CASE kernel.state = "RUNNING"
      BY <3>2
    <3> QED
      BY <2>6, <3>1, <3>2 DEF KernelTick
  <2>7. CASE HandleFuture
    <3>1. Asks[Head(futures)] \in FutureCall
      BY <1>1, <2>7, CaseAssumptions DEF HandleFuture, CaseInv, TypeOK, CaseAssumptions
    <3> DEFINE k == Execute(kernel, Asks[Head(futures)])
    <3>2. /\ KernelFits(k, n, slot)
          /\ kernel.state # "RUNNING" /\ k.state = "RUNNING" => k.program = slot
      BY <2>a, <3>1, ExecuteFits
    <3>3. kernel' = k /\ slot' = slot
      BY <2>7 DEF HandleFuture, Answer, inventory
    <3> HIDE DEF k
    <3> QED
      BY <3>2, <3>3
  <2>8. ASSUME NEW persisted \in BOOLEAN, LoadGame(persisted)
        PROVE  Boots
    <3> DEFINE resumed == Resume(AddModules([kernel EXCEPT !.eeprom = None],
                                            Cardinality(processors),
                                            GetEEPROM(slot, written)),
                                 kernel.program, persisted)
    <3>1. /\ KernelFits(resumed, n, slot)
          /\ n = 1 => resumed.state = kernel.state \/ kernel.state = "RUNNING"
      BY <1>1, LoadFits
    <3>2. kernel' = resumed
      BY <2>8 DEF LoadGame
    <3> HIDE DEF resumed
    <3> QED
      BY <3>1, <3>2 DEF KernelFits
  <2>9. CASE \/ \E p \in Player : Aim(p)
             \/ \E e \in Eeprom : EditCode(e)
             \/ \E f \in Future : luaFutureGC(f) \/ \E keeps \in BOOLEAN : PushFuture(f, keeps)
             \/ TickActor \/ TellState \/ PreSaveGame \/ Prepared \/ Saved \/ PostSaveGame
    BY <2>9 DEF Aim, EditCode, luaFutureGC, PushFuture, TickActor, TellState, PreSaveGame, Prepared,
       Saved, PostSaveGame
  <2> QED
    BY <1>1, <2>1, <2>2, <2>3, <2>4, <2>5, <2>6, <2>7, <2>8, <2>9 DEF Next
<1>2. CaseInv /\ [Next]_vars => [Boots]_vars
  BY <1>1
<1> QED
  BY <1>2, CaseHolds, PTL DEF Spec, BootsFromSlot
=============================================================================
