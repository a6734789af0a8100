---------------------------- MODULE LuaScheduler ----------------------------
(***************************************************************************)
(* The tick helper of the Lua processor (FFINLuaProcessorTick) together    *)
(* with the kernel life cycle that drives it.                              *)
(*                                                                         *)
(* Two threads of control share one Lua state:                             *)
(*                                                                         *)
(*   - the game: factory tick, user input, futures, garbage collection and *)
(*     saving.  The engine runs these one after the other, so they are one *)
(*     thread here (UFINKernelSystem::Tick is driven by Factory_Tick,      *)
(*     HandleFutures and the rest by the main thread, which waits for the  *)
(*     factory tick to end);                                               *)
(*   - the worker: the FAsyncTask that runs FLuaTickRunnable::DoWork for a *)
(*     promoted ("async") program.                                         *)
(*                                                                         *)
(* A promoted program that needs the game thread (FLuaSyncCall) suspends   *)
(* itself in the middle of a Lua call, the next syncTick grants it the     *)
(* game thread and waits until its Lua tick is over.  The two promises of  *)
(* that hand-off, the flags and TickMutex are modelled step by step.       *)
(*                                                                         *)
(* A definition whose name has an underscore is a mutation of the one it   *)
(* stands before, with a bug a property of this module must notice.        *)
(***************************************************************************)
EXTENDS Naturals, FiniteSets

CONSTANT MaxSignals  \* bound on queued signals; the code's bound is 1000

ASSUME MaxSignalsAssumption == MaxSignals \in Nat \ {0}

Game   == "game"
Worker == "worker"
Thread == {Game, Worker}

KernelState == {"SHUTOFF", "RUNNING", "CRASHED", "RESET"}

\* The bShould... flags that postTick turns into a kernel transition.
Ending == {"crash", "stop", "reset"}
Request == Ending \cup {"promote", "demote"}

\* The API functions of interest whose body runs under an FLuaSyncCall.
ApiCall == {"plain", "stop", "reset", "panic", "demote"}

GameLabel == {"idle", "post1", "branch", "sEnsure", "sLock", "lua", "api",
              "end", "sPromote", "aRead", "grant", "awaitAsync", "clearSync",
              "restart", "post2", "pEnsure", "pLaunch", "pState", "dLock",
              "dFlags", "dEnsure", "dUnlock", "setReset", "procReset", "gc",
              "persist"}

\* "none": there is no asyncTask; "done": it is complete.
WorkerLabel == {"none", "done", "queued", "check", "lock", "lua", "api",
                "release", "await", "relock", "end", "handoff", "flags"}

VARIABLES
  kernel,       \* UFINKernelSystem::State
  tickState,    \* FFINLuaProcessorTick::State
  pc,           \* where each thread is
  ret,          \* where the game continues after demote() or promote()
  after,        \* where the game continues after Start()
  mutex,        \* the owner of TickMutex
  should,       \* the set of raised bShould... flags
  doSync,       \* bDoSync
  waitSignal,   \* bWaitForSignal
  seenWait,     \* syncTick's local copy of bWaitForSignal
  promise,      \* the promises AsyncSync and SyncAsync
  future,       \* what each thread sees of the future it waits on
  overfulfilled,\* history: a fulfilled promise was fulfilled again
  call,         \* the API call each thread is in and its bShouldPromote
  pullState,    \* PullState
  timedOut,     \* PullTimeoutReached()
  signals,      \* GetSignalCount()
  wasPromoted   \* bWasPriorToGCPromoted

handVars   == <<doSync, promise, future, overfulfilled>>
helperVars == <<tickState, should, handVars>>
gameVars   == <<after, seenWait, wasPromoted>>
pullVars   == <<pullState, timedOut, signals>>
luaVars    == <<call, waitSignal, pullVars>>
restVars   == <<kernel, helperVars, ret, gameVars, luaVars>>
vars       == <<restVars, pc, mutex>>

\* `linked`: a thread holds the future of this very promise and waits on it.
Promise == [done : BOOLEAN, linked : BOOLEAN]

NoCall == [kind |-> "plain", promote |-> FALSE]

ThreadTypeOK ==
  /\ pc \in [Thread -> GameLabel \cup WorkerLabel]
  /\ pc[Game] \in GameLabel /\ pc[Worker] \in WorkerLabel
  /\ ret \in GameLabel /\ after \in GameLabel
  /\ mutex \in Thread \cup {"none"}
  /\ call \in [Thread -> [kind : ApiCall, promote : BOOLEAN]]
  /\ future \in [Thread -> {"none", "pending", "ready"}]

TickTypeOK ==
  /\ kernel \in KernelState
  /\ tickState \in {"SYNC", "ASYNC"}
  /\ should \subseteq Request
  /\ doSync \in BOOLEAN /\ overfulfilled \in BOOLEAN
  /\ promise \in [{"AsyncSync", "SyncAsync"} -> Promise]

PullTypeOK ==
  /\ waitSignal \in BOOLEAN /\ seenWait \in BOOLEAN
  /\ pullState \in 0..2
  /\ timedOut \in BOOLEAN /\ wasPromoted \in BOOLEAN
  /\ signals \in 0..MaxSignals

TypeOK == ThreadTypeOK /\ TickTypeOK /\ PullTypeOK

\* A promise that was fulfilled when it was made, as reset() leaves both.
Fulfilled == [done |-> TRUE, linked |-> FALSE]

Init ==
  /\ kernel = "SHUTOFF" /\ tickState = "SYNC"
  /\ pc = [t \in Thread |-> IF t = Game THEN "idle" ELSE "none"]
  /\ ret = "idle" /\ after = "idle"
  /\ mutex = "none" /\ should = {}
  /\ doSync = FALSE /\ waitSignal = FALSE /\ seenWait = FALSE
  /\ promise = [p \in {"AsyncSync", "SyncAsync"} |-> Fulfilled]
  /\ future = [t \in Thread |-> "none"]
  /\ overfulfilled = FALSE
  /\ call = [t \in Thread |-> NoCall]
  /\ pullState = 0 /\ timedOut = TRUE /\ signals = 0
  /\ wasPromoted = FALSE

-----------------------------------------------------------------------------
(* Building blocks.                                                        *)

At(t, l)   == pc[t] = l
Goto(t, l) == pc' = [pc EXCEPT ![t] = l]

\* A step that changes nothing else, and one that also releases TickMutex.
Jump(t, l, next)   == /\ At(t, l) /\ Goto(t, next)
                      /\ UNCHANGED <<restVars, mutex>>
Unlock(t, l, next) == /\ At(t, l) /\ Goto(t, next)
                      /\ mutex' = "none" /\ UNCHANGED restVars

\* A local variable that is out of scope has its initial value again.
Return == Goto(Game, ret) /\ ret' = "idle"

\* A promise assigned anew: any future of the old one is orphaned.
Fresh(linked) == [done |-> FALSE, linked |-> linked]

\* EmplaceValue on the promise `p` of the thread `t` that may wait on it.
\* `old` is the promise before the call, `fut` the futures before it.
Ready(old, fut, t) == IF old.linked THEN [fut EXCEPT ![t] = "ready"] ELSE fut

\* FAsyncTask::EnsureCompletion: a task that no pool thread has taken yet is
\* retracted and run by the caller, where asyncTick returns at once because
\* the state is not async.
TaskIdle == pc[Worker] \in {"none", "done"}
Completable == TaskIdle \/ (At(Worker, "queued") /\ tickState = "SYNC")

\* shouldPromote(): ignored once the program is about to end.
WithPromote(set) == IF set \cap Ending = {} THEN set \cup {"promote"} ELSE set

-----------------------------------------------------------------------------
(* The game thread: stop(), demote() and promote().                        *)

\* stop(): a demote when the state is async; the game goes on at `next`.
StopTick(next) ==
  IF tickState = "ASYNC" THEN Goto(Game, "dLock") /\ ret' = next
                         ELSE Goto(Game, next) /\ UNCHANGED ret

\* demote() takes TickMutex, sets the state and releases TickMutex.
DemoteLock ==
  /\ At(Game, "dLock") /\ mutex = "none"
  /\ IF tickState = "SYNC" THEN Return
                           ELSE Goto(Game, "dFlags") /\ UNCHANGED ret
  /\ tickState' = "SYNC"
  /\ UNCHANGED <<kernel, should, handVars, gameVars, mutex, luaVars>>

\* demote() wakes a worker that waits for the game thread.
DemoteFlags_NoWake == Jump(Game, "dFlags", "dEnsure")

DemoteFlags ==
  /\ At(Game, "dFlags") /\ Goto(Game, "dEnsure")
  /\ IF doSync
     THEN /\ promise' = [promise EXCEPT !["SyncAsync"] = Fresh(FALSE),
                                        !["AsyncSync"] = Fulfilled]
          /\ future' = Ready(promise["AsyncSync"], future, Worker)
          /\ overfulfilled' = (overfulfilled \/ promise["AsyncSync"].done)
     ELSE UNCHANGED <<promise, future, overfulfilled>>
  /\ UNCHANGED <<kernel, tickState, should, doSync, ret, gameVars, mutex,
                 luaVars>>

\* demote() waits until the task has ended.
DemoteEnsure_NoWait == Jump(Game, "dEnsure", "dUnlock")

DemoteEnsure ==
  /\ At(Game, "dEnsure") /\ Completable
  /\ pc' = [pc EXCEPT ![Game] = "dUnlock", ![Worker] = "done"]
  /\ UNCHANGED <<restVars, mutex>>

\* demote() ends with an Unlock of TickMutex that nobody locked.  A pthread
\* mutex refuses it (EPERM), which is the outcome modelled.
DemoteUnlock ==
  /\ At(Game, "dUnlock") /\ Return
  /\ mutex' = IF mutex = Game THEN "none" ELSE mutex
  /\ UNCHANGED <<kernel, helperVars, gameVars, luaVars>>

\* promote(), called with the return label `next`.
Promote(next) ==
  IF tickState = "ASYNC" \/ should \cap Ending # {}
  THEN Goto(Game, next) /\ UNCHANGED ret
  ELSE Goto(Game, "pEnsure") /\ ret' = next

\* An old task is completed and dropped before a new one is made.
PromoteEnsure ==
  /\ At(Game, "pEnsure") /\ Completable
  /\ pc' = [pc EXCEPT ![Game] = "pLaunch", ![Worker] = "none"]
  /\ UNCHANGED <<restVars, mutex>>

\* The task is queued before the state says async: a pool thread that is fast
\* enough still sees the sync state and ends.
PromoteLaunch ==
  /\ At(Game, "pLaunch") /\ mutex = "none"
  /\ pc' = [pc EXCEPT ![Game] = "pState", ![Worker] = "queued"]
  /\ mutex' = Game
  /\ UNCHANGED restVars

PromoteState ==
  /\ At(Game, "pState") /\ Return
  /\ tickState' = "ASYNC" /\ mutex' = "none"
  /\ UNCHANGED <<kernel, should, handVars, gameVars, luaVars>>

-----------------------------------------------------------------------------
(* The game thread: the kernel.                                            *)

\* Start(): the processor's Reset() begins with tickHelper.stop().
Start(next) ==
  /\ kernel' = "RUNNING" /\ after' = next
  /\ StopTick("procReset")

\* Stop() and Crash(): the state changes first, then the processor is stopped.
Halt_NoStop(state, next) ==
  /\ kernel' = state
  /\ Goto(Game, next) /\ UNCHANGED ret

Halt(state, next) ==
  /\ kernel' = state
  /\ StopTick(next)

\* Kernel::Tick up to the first postTick of syncTick.
KernelTick ==
  /\ At(Game, "idle") /\ kernel \in {"RESET", "RUNNING"}
  /\ IF kernel = "RESET"
     THEN Start("post1")
     ELSE Goto(Game, "post1") /\ UNCHANGED <<kernel, ret, after>>
  /\ UNCHANGED <<helperVars, seenWait, wasPromoted, mutex, luaVars>>

\* AFINComputerCase::Toggle and netFunc_startComputer.
UserStart ==
  /\ At(Game, "idle") /\ kernel # "RUNNING"
  /\ Start("idle")
  /\ UNCHANGED <<helperVars, seenWait, wasPromoted, mutex, luaVars>>

\* Toggle and netFunc_stopComputer; a processor that is unplugged stops too.
UserStop ==
  /\ At(Game, "idle")
  /\ Halt("SHUTOFF", "idle")
  /\ UNCHANGED <<helperVars, gameVars, mutex, luaVars>>

\* HandleFutures: the exception of a future crashes the kernel.
FutureCrash ==
  /\ At(Game, "idle") /\ kernel = "RUNNING"
  /\ Halt("CRASHED", "idle")
  /\ UNCHANGED <<helperVars, gameVars, mutex, luaVars>>

\* postTick(), before and after the body of syncTick.
PostTick_CrashOnly(l, next) ==
  /\ At(Game, l)
  /\ IF kernel = "RUNNING" /\ "crash" \in should
     THEN Halt("CRASHED", "idle")
     ELSE /\ Goto(Game, IF kernel = "RUNNING" THEN next ELSE "idle")
          /\ UNCHANGED <<kernel, ret>>
  /\ UNCHANGED <<helperVars, gameVars, mutex, luaVars>>

PostTick(l, next) ==
  /\ At(Game, l)
  /\ IF kernel # "RUNNING"
     THEN Goto(Game, "idle") /\ UNCHANGED <<kernel, ret>>
     ELSE \/ /\ "crash" \in should
             /\ Halt("CRASHED", "idle")
          \/ /\ "crash" \notin should /\ "stop" \in should
             /\ Halt("SHUTOFF", "idle")
          \/ /\ should \cap Ending = {"reset"}
             /\ Halt("SHUTOFF", "setReset")
          \/ /\ should \cap Ending = {}
             /\ Goto(Game, next) /\ UNCHANGED <<kernel, ret>>
  /\ UNCHANGED <<helperVars, gameVars, mutex, luaVars>>

SetReset ==
  /\ At(Game, "setReset") /\ Goto(Game, "idle")
  /\ kernel' = "RESET"
  /\ UNCHANGED <<helperVars, ret, gameVars, mutex, luaVars>>

\* reset(): the helper's initial state.  bWaitForSignal is not among it.
ResetTick ==
  /\ tickState' = "SYNC" /\ should' = {} /\ doSync' = FALSE
  /\ promise' = [p \in {"AsyncSync", "SyncAsync"} |-> Fulfilled]

\* UFINLuaProcessor::Reset() closes the Lua state and makes a new one.
\* Without a valid EEPROM, or when its code does not compile, the kernel
\* crashes and tickHelper.reset() is not reached.
ProcessorReset ==
  /\ At(Game, "procReset")
  /\ pullState' = 0 /\ timedOut' = TRUE
  /\ \/ /\ ResetTick /\ Goto(Game, after) /\ UNCHANGED <<kernel, ret>>
     \/ /\ Halt("CRASHED", "idle")
        /\ UNCHANGED <<tickState, should, doSync, promise>>
  /\ after' = "idle"
  /\ UNCHANGED <<future, overfulfilled, seenWait, wasPromoted, mutex, call,
                 waitSignal, signals>>

-----------------------------------------------------------------------------
(* The game thread: garbage collection and saving.                         *)

\* OnPreGarbageCollection.
PreGarbageCollection_NoDemote == Jump(Game, "idle", "gc")

PreGarbageCollection ==
  /\ At(Game, "idle")
  /\ wasPromoted' = (tickState = "ASYNC")
  /\ StopTick("gc")
  /\ UNCHANGED <<kernel, helperVars, after, seenWait, mutex, luaVars>>

\* The collection itself, then OnPostGarbageCollection.
PostGarbageCollection ==
  /\ At(Game, "gc")
  /\ IF wasPromoted THEN Promote("idle")
                    ELSE Goto(Game, "idle") /\ UNCHANGED ret
  /\ wasPromoted' = FALSE
  /\ UNCHANGED <<kernel, helperVars, after, seenWait, mutex, luaVars>>

\* UFINLuaProcessor::PreSaveGame: stop the worker, then persist the Lua state.
PreSaveGame ==
  /\ At(Game, "idle") /\ kernel = "RUNNING"
  /\ StopTick("persist")
  /\ UNCHANGED <<kernel, helperVars, gameVars, mutex, luaVars>>

Persist == Jump(Game, "persist", "idle")

-----------------------------------------------------------------------------
(* The game thread: the body of syncTick.                                  *)

Branch ==
  Jump(Game, "branch", IF tickState = "SYNC" THEN "sEnsure" ELSE "aRead")

\* In the sync state a task that is not idle is completed and dropped.
SyncEnsure ==
  /\ At(Game, "sEnsure") /\ Completable
  /\ pc' = [pc EXCEPT ![Game] = "sLock",
                      ![Worker] = IF @ = "done" THEN "done" ELSE "none"]
  /\ UNCHANGED <<restVars, mutex>>

\* After LuaTick: bShouldPromote stays raised, so every later sync tick
\* promotes again.
SyncPromote ==
  /\ At(Game, "sPromote")
  /\ IF "promote" \in should THEN Promote("post2")
                             ELSE Goto(Game, "post2") /\ UNCHANGED ret
  /\ UNCHANGED <<kernel, helperVars, gameVars, mutex, luaVars>>

\* The two flags, read under AsyncSyncMutex; the second only matters when the
\* first is lowered.
AsyncRead ==
  /\ At(Game, "aRead")
  /\ Goto(Game, IF doSync THEN "grant" ELSE "restart")
  /\ seenWait' = (waitSignal /\ ~doSync)
  /\ UNCHANGED <<kernel, helperVars, ret, after, wasPromoted, mutex, luaVars>>

\* The game thread is granted to the worker, under AsyncSyncMutex.
Grant ==
  /\ At(Game, "grant") /\ Goto(Game, "awaitAsync")
  /\ promise' = [promise EXCEPT !["SyncAsync"] = Fresh(TRUE),
                                !["AsyncSync"] = Fulfilled]
  /\ future' = [Ready(promise["AsyncSync"], future, Worker)
                  EXCEPT ![Game] = "pending"]
  /\ overfulfilled' = (overfulfilled \/ promise["AsyncSync"].done)
  /\ should' = should \cup {"demote"}
  /\ tickState' = "SYNC"
  /\ UNCHANGED <<kernel, doSync, ret, gameVars, mutex, luaVars>>

\* Future.Wait() of syncTick.
AwaitAsync_NoWait ==
  /\ At(Game, "awaitAsync") /\ Goto(Game, "clearSync")
  /\ future' = [future EXCEPT ![Game] = "none"]
  /\ UNCHANGED <<kernel, tickState, should, doSync, promise, overfulfilled,
                 ret, gameVars, mutex, luaVars>>

AwaitAsync ==
  /\ At(Game, "awaitAsync") /\ future[Game] = "ready"
  /\ Goto(Game, "clearSync")
  /\ future' = [future EXCEPT ![Game] = "none"]
  /\ UNCHANGED <<kernel, tickState, should, doSync, promise, overfulfilled,
                 ret, gameVars, mutex, luaVars>>

ClearSync ==
  /\ At(Game, "clearSync") /\ Goto(Game, "post2")
  /\ doSync' = FALSE
  /\ UNCHANGED <<kernel, tickState, should, promise, future, overfulfilled,
                 ret, gameVars, mutex, luaVars>>

\* What lets a worker that waits for a signal run again.
MayRestart_NoSignal == ~seenWait \/ timedOut
MayRestart == ~seenWait \/ signals > 0 \/ timedOut

Restart ==
  /\ At(Game, "restart")
  /\ IF At(Worker, "done") /\ MayRestart
     THEN /\ waitSignal' = FALSE
          /\ pc' = [pc EXCEPT ![Game] = "post2", ![Worker] = "queued"]
     ELSE /\ Goto(Game, "post2") /\ UNCHANGED waitSignal
  /\ seenWait' = FALSE
  /\ UNCHANGED <<kernel, helperVars, ret, after, wasPromoted, mutex, call,
                 pullVars>>

-----------------------------------------------------------------------------
(* LuaTick, run by either thread while it holds TickMutex.                 *)

\* Taking TickMutex and the head of LuaTick: a pulling program is resumed by
\* a signal or by its timeout, any other program goes on where it yielded.
LuaTickBegin(t, l) ==
  /\ At(t, l) /\ mutex = "none" /\ mutex' = t
  /\ \/ /\ pullState = 0
        /\ Goto(t, "lua") /\ UNCHANGED <<pullState, waitSignal, signals>>
     \/ /\ pullState # 0 /\ signals > 0
        /\ signals' = signals - 1 /\ pullState' = 0 /\ waitSignal' = FALSE
        /\ Goto(t, "lua")
     \/ /\ pullState # 0 /\ signals = 0
        /\ IF pullState = 2 \/ ~timedOut
           THEN Goto(t, "end") /\ UNCHANGED <<pullState, waitSignal>>
           ELSE Goto(t, "lua") /\ pullState' = 0 /\ waitSignal' = FALSE
        /\ UNCHANGED signals
  /\ UNCHANGED <<kernel, helperVars, ret, gameVars, call, timedOut>>

\* lua_resume returned LUA_YIELD (`set` are the flags by then): garbage is
\* collected and the memory recalculated, which may raise bShouldCrash.
Yielded(t, set) ==
  /\ Goto(t, "end")
  /\ should' \in {set, set \cup {"crash"}}

\* The instruction hook: the program yields whatever it does.
LuaYield(t) ==
  /\ At(t, "lua") /\ Yielded(t, should)
  /\ UNCHANGED <<kernel, tickState, handVars, ret, gameVars, mutex, luaVars>>

\* The program ends, or fails.
LuaEnd(t) ==
  /\ At(t, "lua") /\ Goto(t, "end")
  /\ \E r \in {"stop", "crash"} : should' = should \cup {r}
  /\ UNCHANGED <<kernel, tickState, handVars, ret, gameVars, mutex, luaVars>>

\* computer.promote() and computer.skip().
LuaPromote(t) ==
  /\ At(t, "lua") /\ should' = WithPromote(should)
  /\ UNCHANGED <<kernel, tickState, handVars, pc, ret, gameVars, mutex,
                 luaVars>>

\* event.pull(): with a signal at hand it returns, else the program yields
\* until one comes.  Called without a timeout, Timeout is 0 and so reached.
LuaPull(t) ==
  /\ At(t, "lua")
  /\ IF signals > 0
     THEN /\ signals' = signals - 1 /\ pullState' = 0
          /\ UNCHANGED <<should, pc, waitSignal, timedOut>>
     ELSE /\ \E p \in 1..2 : pullState' = p /\ timedOut' = (p = 2)
          /\ waitSignal' = (waitSignal \/ tickState = "ASYNC")
          /\ Yielded(t, should)
          /\ UNCHANGED signals
  /\ UNCHANGED <<kernel, tickState, handVars, ret, gameVars, mutex, call>>

\* demoteInAsync, under AsyncSyncMutex: both promises are renewed and the game
\* thread is asked for.
DemoteInAsync_StalePromise(t) ==
  /\ promise' = [promise EXCEPT !["SyncAsync"] = Fresh(FALSE)]
  /\ future' = [future EXCEPT ![t] = "ready"]
  /\ doSync' = TRUE /\ Goto(t, "release")

DemoteInAsync(t) ==
  /\ promise' = [promise EXCEPT !["AsyncSync"] = Fresh(TRUE),
                                !["SyncAsync"] = Fresh(FALSE)]
  /\ future' = [future EXCEPT ![t] = "pending"]
  /\ doSync' = TRUE /\ Goto(t, "release")

\* The constructor of FLuaSyncCall.
LuaCall(t, k) ==
  /\ At(t, "lua")
  /\ call' = [call EXCEPT ![t] = [kind |-> k,
                promote |-> "promote" \in should \/ tickState = "ASYNC"]]
  /\ IF tickState = "ASYNC"
     THEN DemoteInAsync(t)
     ELSE Goto(t, "api") /\ UNCHANGED <<promise, future, doSync>>
  /\ UNCHANGED <<kernel, tickState, should, overfulfilled, ret, gameVars,
                 mutex, waitSignal, pullVars>>

\* The body of the API function and the destructor of its FLuaSyncCall.
\* reset, stop and panic raise their flag and yield.
ApiFlag(k) == IF k = "stop" THEN {"stop"}
              ELSE IF k = "reset" THEN {"reset"}
              ELSE IF k = "panic" THEN {"crash"} ELSE {}

LuaApi(t) ==
  LET k   == call[t].kind
      set == should \cup ApiFlag(k)
      fin == IF call[t].promote THEN WithPromote(set) ELSE set
  IN  /\ At(t, "api")
      /\ IF ApiFlag(k) = {} THEN Goto(t, "lua") /\ should' = fin
                            ELSE Yielded(t, fin)
      /\ call' = [call EXCEPT ![t] = NoCall]
      /\ UNCHANGED <<kernel, tickState, handVars, ret, gameVars, mutex,
                     waitSignal, pullVars>>

\* syncTick releases TickMutex after LuaTick.
SyncUnlock == Unlock(Game, "end", "sPromote")

-----------------------------------------------------------------------------
(* The worker: FLuaTickRunnable::DoWork and asyncTick.                     *)

WorkerStart == Jump(Worker, "queued", "check")

\* The state is read without TickMutex: it may change before the lock.
WorkerCheck ==
  Jump(Worker, "check", IF tickState = "ASYNC" THEN "lock" ELSE "done")

\* demoteInAsync releases TickMutex, waits for AsyncSync and takes it again.
WorkerRelease == Unlock(Worker, "release", "await")

\* Future.Wait() of demoteInAsync.
WorkerAwait ==
  /\ At(Worker, "await") /\ future[Worker] = "ready"
  /\ Goto(Worker, "relock")
  /\ future' = [future EXCEPT ![Worker] = "none"]
  /\ UNCHANGED <<kernel, tickState, should, doSync, promise, overfulfilled,
                 ret, gameVars, mutex, luaVars>>

WorkerRelock ==
  /\ At(Worker, "relock") /\ mutex = "none" /\ mutex' = Worker
  /\ Goto(Worker, "api")
  /\ UNCHANGED restVars

WorkerUnlock == Unlock(Worker, "end", "handoff")

\* The game thread is handed back, under AsyncSyncMutex.
HandBack ==
  /\ promise' = [promise EXCEPT !["SyncAsync"] = Fulfilled]
  /\ future' = Ready(promise["SyncAsync"], future, Game)
  /\ overfulfilled' = (overfulfilled \/ promise["SyncAsync"].done)

WorkerHandoff_KeepSync ==
  /\ At(Worker, "handoff") /\ Goto(Worker, "flags")
  /\ IF doSync THEN HandBack /\ UNCHANGED doSync ELSE UNCHANGED handVars
  /\ UNCHANGED <<kernel, tickState, should, ret, gameVars, mutex, luaVars>>

WorkerHandoff_Silent ==
  /\ At(Worker, "handoff") /\ Goto(Worker, "flags")
  /\ doSync' = FALSE /\ UNCHANGED <<promise, future, overfulfilled>>
  /\ UNCHANGED <<kernel, tickState, should, ret, gameVars, mutex, luaVars>>

WorkerHandoff ==
  /\ At(Worker, "handoff") /\ Goto(Worker, "flags")
  /\ IF doSync THEN HandBack /\ doSync' = FALSE ELSE UNCHANGED handVars
  /\ UNCHANGED <<kernel, tickState, should, ret, gameVars, mutex, luaVars>>

\* A demoted or ending program leaves the async state; one that waits for a
\* signal only ends its task; any other goes on with the next tick.
WorkerFlags ==
  /\ At(Worker, "flags")
  /\ IF should \cap (Ending \cup {"demote"}) # {}
     THEN /\ mutex = "none"
          /\ tickState' = "SYNC" /\ Goto(Worker, "done")
          /\ should' = should \ {"demote"}
     ELSE /\ Goto(Worker, IF waitSignal THEN "done" ELSE "check")
          /\ UNCHANGED <<tickState, should>>
  /\ UNCHANGED <<kernel, handVars, ret, gameVars, mutex, luaVars>>

-----------------------------------------------------------------------------
(* The environment: signals from other actors, and time.                   *)

SignalArrives ==
  /\ signals < MaxSignals /\ signals' = signals + 1
  /\ UNCHANGED <<kernel, helperVars, pc, ret, gameVars, mutex, call,
                 waitSignal, pullState, timedOut>>

TimeoutExpires ==
  /\ ~timedOut /\ timedOut' = TRUE
  /\ UNCHANGED <<kernel, helperVars, pc, ret, gameVars, mutex, call,
                 waitSignal, pullState, signals>>

-----------------------------------------------------------------------------
GameEntry == KernelTick \/ UserStart \/ UserStop \/ FutureCrash
               \/ PreGarbageCollection \/ PreSaveGame

GameStep ==
  \/ PostTick("post1", "branch") \/ PostTick("post2", "idle") \/ SetReset
  \/ ProcessorReset \/ PostGarbageCollection \/ Persist
  \/ DemoteLock \/ DemoteFlags \/ DemoteEnsure \/ DemoteUnlock
  \/ PromoteEnsure \/ PromoteLaunch \/ PromoteState
  \/ Branch \/ SyncEnsure \/ SyncPromote \/ AsyncRead \/ Grant \/ AwaitAsync
  \/ ClearSync \/ Restart \/ SyncUnlock

WorkerStep == WorkerStart \/ WorkerCheck \/ WorkerRelease \/ WorkerAwait
                \/ WorkerRelock \/ WorkerUnlock \/ WorkerHandoff \/ WorkerFlags

LuaStep(t) == LuaYield(t) \/ LuaEnd(t) \/ LuaPromote(t) \/ LuaPull(t)
                \/ LuaApi(t) \/ \E k \in ApiCall : LuaCall(t, k)

Next == \/ GameEntry \/ GameStep \/ WorkerStep
        \/ LuaTickBegin(Game, "sLock") \/ LuaTickBegin(Worker, "lock")
        \/ \E t \in Thread : LuaStep(t)
        \/ SignalArrives \/ TimeoutExpires

Spec == Init /\ [][Next]_vars

\* The engine keeps ticking the factory, both threads keep running, the
\* instruction hook ends every Lua tick, a thread that keeps trying gets
\* TickMutex (a worker that polls releases it between any two ticks), and a
\* started task is not overtaken by a collection, save or stop every time.
FairSpec ==
  /\ Spec
  /\ SF_vars(KernelTick) /\ WF_vars(GameStep) /\ WF_vars(WorkerStep)
  /\ SF_vars(DemoteLock) /\ SF_vars(LuaTickBegin(Game, "sLock"))
  /\ SF_vars(LuaTickBegin(Worker, "lock"))
  /\ SF_vars(tickState = "ASYNC" /\ WorkerStart)
  /\ SF_vars(tickState = "ASYNC" /\ WorkerCheck)
  /\ \A t \in Thread : SF_vars(LuaYield(t)) /\ WF_vars(LuaApi(t))

-----------------------------------------------------------------------------
(* Properties.                                                             *)

\* The Lua state is in use by the worker, also while it is suspended in an
\* API call, or by the game, which also closes, opens and saves it.
WorkerUsesLua == pc[Worker] \in {"lua", "api", "end", "release", "await", "relock"}
GameUsesLua   == pc[Game] \in {"lua", "api", "end", "procReset", "persist"}

\* The game thread waits for the worker to end its Lua tick.
GameWaits == pc[Game] \in {"awaitAsync", "dFlags", "dEnsure"}

\* The Lua state is never run, closed or saved by one thread while the other
\* is inside lua_resume: syncTick, Reset() and PreSaveGame all rely on stop()
\* and EnsureCompletion for that, none of them takes a lock of the Lua state.
LuaStateExclusive == ~(WorkerUsesLua /\ GameUsesLua)

\* The body of an FLuaSyncCall on the worker, and any Lua it runs after it in
\* the same tick, only runs while the game thread waits for that tick.
SyncCallHoldsGame ==
  (pc[Worker] = "api" \/ (WorkerUsesLua /\ tickState = "SYNC")) => GameWaits

\* When the game is back from stopping a computer (stop, crash, reset) no
\* worker is left that could execute its program, and none can be started by
\* the next tick.
HaltedIsQuiet ==
  (pc[Game] = "idle" /\ kernel # "RUNNING") =>
     tickState = "SYNC" /\ ~WorkerUsesLua /\ ~doSync

\* While garbage is collected the worker touches no object: it is not inside a
\* Lua tick and a task that is still about ends without starting one.
CollectedAlone ==
  pc[Game] = "gc" => /\ tickState = "SYNC" /\ ~WorkerUsesLua
                     /\ pc[Worker] \notin {"lock", "handoff"}

\* AsyncSync and SyncAsync are fulfilled at most once each: EmplaceValue on a
\* fulfilled TPromise is a failed check().
FulfilledOnce == ~overfulfilled

\* demote() uses bDoSync and both promises without AsyncSyncMutex; it may,
\* because a worker that has asked for the game thread is suspended by then.
DemoteOwnsHandOff ==
  (pc[Game] = "dFlags" /\ doSync) => pc[Worker] = "await" /\ ~promise["AsyncSync"].done

\* Why all this holds.  The game is only at these points while the state is
\* sync; promote() is the only way out of the sync state, and it is called
\* from nowhere else.
SyncPoint == {"awaitAsync", "clearSync", "sEnsure", "sLock", "lua", "api",
              "end", "sPromote", "pEnsure", "pLaunch", "pState", "dFlags",
              "dEnsure", "dUnlock", "setReset", "procReset", "gc", "persist"}

\* From its check of the state to the end of its hand-off the worker is busy.
WorkerBusy == WorkerUsesLua \/ pc[Worker] \in {"lock", "handoff"}

\* How the two threads stand to each other; with TypeOK it is inductive.
HandOff ==
  /\ pc[Game] \in SyncPoint => tickState = "SYNC"
  /\ tickState = "SYNC" /\ WorkerBusy => GameWaits
  /\ pc[Game] = "awaitAsync" /\ future[Game] = "ready" => ~WorkerBusy
  /\ pc[Game] \in {"pEnsure", "pLaunch", "pState"} => ret \in {"idle", "post2"}
  /\ pc[Game] \in {"dLock", "dFlags", "dEnsure", "dUnlock"}
       => ret \in {"idle", "setReset", "procReset", "gc", "persist"}
  /\ after \in {"idle", "post1"}
  /\ pc[Game] = "pLaunch" => pc[Worker] = "none"
  /\ pc[Game] = "pState" => pc[Worker] \in {"queued", "check", "done"}
  /\ \/ pc[Worker] \in {"relock", "api"}
     \/ pc[Worker] \in {"release", "await"} /\ future[Worker] = "ready"
     => tickState = "SYNC"

HandOffInv == TypeOK /\ HandOff

\* TickMutex is held wherever a thread is in a Lua tick and not suspended.
MutexHeld ==
  /\ pc[Worker] \in {"lua", "api", "end", "release"} => mutex = Worker
  /\ pc[Game] \in {"lua", "api", "end", "pState"} => mutex = Game

\* A kernel that does not run has no promoted program, or is about to demote
\* it; whoever promotes one found the kernel running and nobody halts it since.
HaltedIsSync ==
  /\ kernel # "RUNNING" => tickState = "SYNC" \/ pc[Game] = "dLock"
  /\ pc[Game] \in {"branch", "sEnsure", "sLock", "lua", "api", "end",
                   "sPromote", "pEnsure", "pLaunch", "pState"}
       => kernel = "RUNNING"
  /\ wasPromoted =>
       /\ kernel = "RUNNING"
       /\ \/ pc[Game] = "gc"
          \/ pc[Game] \in {"dLock", "dFlags", "dEnsure", "dUnlock"} /\ ret = "gc"

\* bDoSync is raised from the worker's request until its answer was answered,
\* and each promise is renewed before it can be fulfilled again.
Answering ==
  /\ doSync => WorkerUsesLua \/ pc[Worker] = "handoff"
  /\ doSync /\ pc[Worker] \notin {"release", "await"} => tickState = "SYNC"
  /\ doSync => ~promise["SyncAsync"].done
  /\ pc[Worker] \in {"release", "await"} =>
       /\ doSync
       /\ \/ future[Worker] = "ready"
          \/ future[Worker] = "pending" /\ promise["AsyncSync"] = Fresh(TRUE)
  /\ pc[Game] = "grant" => doSync
  /\ pc[Game] = "dFlags" /\ doSync
       => pc[Worker] = "await" /\ future[Worker] = "pending"
  /\ ~overfulfilled

\* Inductive together with HandOffInv.
PromiseInv == MutexHeld /\ HaltedIsSync /\ Answering

\* What a thread waits for: TickMutex, the end of the task, or its future.
GameBlocked ==
  \/ pc[Game] \in {"dLock", "pLaunch", "sLock"} /\ mutex # "none"
  \/ pc[Game] \in {"dEnsure", "pEnsure", "sEnsure"} /\ ~Completable
  \/ pc[Game] = "awaitAsync" /\ future[Game] # "ready"
WorkerBlocked ==
  \/ TaskIdle
  \/ pc[Worker] \in {"lock", "relock"} /\ mutex # "none"
  \/ pc[Worker] = "flags" /\ mutex # "none"
  \/ pc[Worker] = "await" /\ future[Worker] # "ready"

\* Never do both threads wait, whoever has the mutex, and whichever promise was
\* renewed under whose future: a game that waits, in a factory tick, a stop, a
\* collection or a save, waits for a worker that can go on.  And a worker that
\* asked for the game is not forgotten: the request stands and the kernel runs
\* and will grant it, or a demote is on its way to wake the worker.
NeverStuck ==
  /\ ~(GameBlocked /\ WorkerBlocked)
  /\ pc[Worker] = "await" /\ future[Worker] # "ready" =>
       /\ doSync /\ promise["AsyncSync"] = Fresh(TRUE)
       /\ kernel = "RUNNING" \/ pc[Game] \in {"dLock", "dFlags"}

\* TickMutex has an owner that is at a place where it gives it back.
MutexOwned ==
  /\ mutex = Worker => pc[Worker] \in {"lua", "api", "end", "release"}
  /\ mutex = Game => pc[Game] \in {"lua", "api", "end", "pState"}

\* The game's future is the one the worker will answer, and a worker that is
\* granted the game, or demoted, has been woken.
Woken ==
  /\ pc[Game] = "awaitAsync" =>
       \/ future[Game] = "ready"
       \/ future[Game] = "pending" /\ doSync /\ promise["SyncAsync"] = Fresh(TRUE)
  /\ pc[Game] \in {"awaitAsync", "dEnsure"} /\ pc[Worker] \in {"release", "await"}
       => future[Worker] = "ready"

WaitInv == MutexOwned /\ Woken

\* The scheduler implements the lease on the Lua state.
LeaseOf == IF GameUsesLua THEN "game"
           ELSE IF ~WorkerUsesLua THEN "free"
           ELSE IF GameWaits THEN "granted"
           ELSE IF pc[Worker] \in {"release", "await"} THEN "suspended"
           ELSE "worker"

Abstract == INSTANCE LuaLease WITH lease <- LeaseOf,
                                   inApi <- (\E t \in Thread : pc[t] = "api")
ImplementsLease == Abstract!Spec

\* The game thread never hangs: no wait on the worker, no lock and no promise
\* keeps the factory tick, a stop, a collection or a save from ending.
GameReturns == (pc[Game] # "idle") ~> (pc[Game] = "idle")

\* A worker that asked for the game thread gets it, or is woken by a demote.
SyncCallAnswered == (pc[Worker] = "await") ~> (pc[Worker] # "await")

\* A pull is answered once a signal is queued or its timeout is over,
\* whichever thread ran it and however often the program was demoted and
\* promoted since (LuaTick, syncTick's restart of the task).
PullAnswered ==
  (pullState # 0 /\ (signals > 0 \/ (pullState = 1 /\ timedOut))
     /\ kernel = "RUNNING") ~> (pullState = 0 \/ kernel # "RUNNING")

\* A program that asked to stop, reset or crash is ended.
EndingHonoured ==
  (should \cap Ending # {} /\ kernel = "RUNNING")
     ~> (kernel # "RUNNING" \/ should \cap Ending = {})
=============================================================================
