------------------------ MODULE LuaScheduler_proofs ------------------------
(***************************************************************************)
(* Proofs about LuaScheduler, for every bound MaxSignals on the queue.     *)
(*                                                                         *)
(* HandOffInv is inductive.  Its parts are preserved one after the other:  *)
(* the types of the threads' variables, of the tick helper's, of the       *)
(* pull's, and HandOff, which says how the two threads stand to each       *)
(* other.  The types of the threads need HandOff: LuaCall on the game      *)
(* thread would leave its labels if the state could be async there.        *)
(***************************************************************************)
EXTENDS LuaScheduler, TLAPS

USE DEF Thread, Game, Worker

LEMMA PromiseType == /\ Fulfilled \in Promise
                     /\ \A b \in BOOLEAN : Fresh(b) \in Promise
  BY DEF Fulfilled, Fresh, Promise

\* The program starts shut off, with no worker.
LEMMA InitInv == Init => HandOffInv
  <1> SUFFICES ASSUME Init PROVE HandOffInv
    OBVIOUS
  <1>1. ThreadTypeOK
    BY DEF Init, ThreadTypeOK, GameLabel, WorkerLabel, NoCall, ApiCall
  <1>2. TickTypeOK
    BY PromiseType DEF Init, TickTypeOK, KernelState
  <1>3. PullTypeOK
    <2>1. pullState \in 0..2 /\ signals \in 0..MaxSignals
      BY MaxSignalsAssumption DEF Init
    <2> QED
      BY <2>1 DEF Init, PullTypeOK
  <1>4. HandOff
    BY DEF Init, HandOff, SyncPoint, WorkerBusy, WorkerUsesLua
  <1> QED
    BY <1>1, <1>2, <1>3, <1>4 DEF HandOffInv, TypeOK

\* Every label a thread goes to is one of its own.
LEMMA ThreadTypeStep == HandOffInv /\ [Next]_vars => ThreadTypeOK'
  <1> SUFFICES ASSUME TypeOK, HandOff, [Next]_vars PROVE ThreadTypeOK'
    BY DEF HandOffInv
  <1> USE DEF TypeOK, ThreadTypeOK, HandOff, SyncPoint, GameLabel, WorkerLabel,
             At, Goto, restVars, helperVars, handVars, gameVars, pullVars, luaVars,
             Jump, Unlock, DemoteInAsync, HandBack, Return, Ready, TaskIdle,
             Completable, StopTick, Promote, Start, Halt, Yielded
  <1>1. CASE KernelTick
    BY <1>1 DEF KernelTick
  <1>2. CASE UserStart
    BY <1>2 DEF UserStart
  <1>3. CASE UserStop
    BY <1>3 DEF UserStop
  <1>4. CASE FutureCrash
    BY <1>4 DEF FutureCrash
  <1>5. CASE PreGarbageCollection
    BY <1>5 DEF PreGarbageCollection
  <1>6. CASE PreSaveGame
    BY <1>6 DEF PreSaveGame
  <1>7. CASE PostTick("post1", "branch")
    BY <1>7 DEF PostTick
  <1>8. CASE PostTick("post2", "idle")
    BY <1>8 DEF PostTick
  <1>9. CASE SetReset
    BY <1>9 DEF SetReset
  <1>10. CASE ProcessorReset
    BY <1>10 DEF ProcessorReset
  <1>11. CASE PostGarbageCollection
    BY <1>11 DEF PostGarbageCollection
  <1>12. CASE Persist
    BY <1>12 DEF Persist
  <1>13. CASE DemoteLock
    BY <1>13 DEF DemoteLock
  <1>14. CASE DemoteFlags
    BY <1>14 DEF DemoteFlags
  <1>15. CASE DemoteEnsure
    BY <1>15 DEF DemoteEnsure
  <1>16. CASE DemoteUnlock
    BY <1>16 DEF DemoteUnlock
  <1>17. CASE PromoteEnsure
    BY <1>17 DEF PromoteEnsure
  <1>18. CASE PromoteLaunch
    BY <1>18 DEF PromoteLaunch
  <1>19. CASE PromoteState
    BY <1>19 DEF PromoteState
  <1>20. CASE Branch
    BY <1>20 DEF Branch
  <1>21. CASE SyncEnsure
    BY <1>21 DEF SyncEnsure
  <1>22. CASE SyncPromote
    BY <1>22 DEF SyncPromote
  <1>23. CASE AsyncRead
    BY <1>23 DEF AsyncRead
  <1>24. CASE Grant
    BY <1>24 DEF Grant
  <1>25. CASE AwaitAsync
    BY <1>25 DEF AwaitAsync
  <1>26. CASE ClearSync
    BY <1>26 DEF ClearSync
  <1>27. CASE Restart
    BY <1>27 DEF Restart
  <1>28. CASE SyncUnlock
    BY <1>28 DEF SyncUnlock
  <1>29. CASE WorkerStart
    BY <1>29 DEF WorkerStart
  <1>30. CASE WorkerCheck
    BY <1>30 DEF WorkerCheck
  <1>31. CASE WorkerRelease
    BY <1>31 DEF WorkerRelease
  <1>32. CASE WorkerAwait
    BY <1>32 DEF WorkerAwait
  <1>33. CASE WorkerRelock
    BY <1>33 DEF WorkerRelock
  <1>34. CASE WorkerUnlock
    BY <1>34 DEF WorkerUnlock
  <1>35. CASE WorkerHandoff
    BY <1>35 DEF WorkerHandoff
  <1>36. CASE WorkerFlags
    BY <1>36 DEF WorkerFlags
  <1>37. CASE LuaTickBegin(Game, "sLock")
    BY <1>37 DEF LuaTickBegin
  <1>38. CASE LuaTickBegin(Worker, "lock")
    BY <1>38 DEF LuaTickBegin
  <1>39. CASE SignalArrives
    BY <1>39 DEF SignalArrives
  <1>40. CASE TimeoutExpires
    BY <1>40 DEF TimeoutExpires
  <1>41. ASSUME NEW t \in Thread, LuaYield(t) PROVE ThreadTypeOK'
    BY <1>41 DEF LuaYield
  <1>42. ASSUME NEW t \in Thread, LuaEnd(t) PROVE ThreadTypeOK'
    BY <1>42 DEF LuaEnd
  <1>43. ASSUME NEW t \in Thread, LuaPromote(t) PROVE ThreadTypeOK'
    BY <1>43 DEF LuaPromote
  <1>44. ASSUME NEW t \in Thread, LuaPull(t) PROVE ThreadTypeOK'
    BY <1>44 DEF LuaPull
  <1>45. ASSUME NEW t \in Thread, LuaApi(t) PROVE ThreadTypeOK'
    <2>1. pc' \in [Thread -> GameLabel \cup WorkerLabel]
      BY <1>45 DEF LuaApi
    <2>2. pc'[Game] \in GameLabel /\ pc'[Worker] \in WorkerLabel
      BY <1>45 DEF LuaApi
    <2>3. call' \in [Thread -> [kind : ApiCall, promote : BOOLEAN]]
      BY <1>45 DEF LuaApi, NoCall, ApiCall
    <2> QED
      BY <1>45, <2>1, <2>2, <2>3 DEF LuaApi
  <1>46. ASSUME NEW t \in Thread, NEW k \in ApiCall, LuaCall(t, k)
         PROVE ThreadTypeOK'
    <2>1. t = Game => tickState = "SYNC"
      BY <1>46 DEF LuaCall
    <2>2. call' \in [Thread -> [kind : ApiCall, promote : BOOLEAN]]
      BY <1>46 DEF LuaCall
    <2>3. CASE tickState = "ASYNC"
      <3>1. t = Worker /\ pc' = [pc EXCEPT ![Worker] = "release"]
        BY <1>46, <2>1, <2>3 DEF LuaCall
      <3>2. future' = [future EXCEPT ![t] = "pending"]
        BY <1>46, <2>3 DEF LuaCall
      <3> QED
        BY <1>46, <2>2, <3>1, <3>2 DEF LuaCall
    <2>4. CASE tickState # "ASYNC"
      <3>1. pc' = [pc EXCEPT ![t] = "api"] /\ future' = future
        BY <1>46, <2>4 DEF LuaCall
      <3> QED
        BY <1>46, <2>2, <3>1 DEF LuaCall
    <2> QED
      BY <2>3, <2>4
  <1>47. CASE UNCHANGED vars
    BY <1>47 DEF vars
  <1> QED
    BY <1>1, <1>2, <1>3, <1>4, <1>5, <1>6, <1>7, <1>8, <1>9, <1>10, <1>11,
       <1>12, <1>13, <1>14, <1>15, <1>16, <1>17, <1>18, <1>19, <1>20, <1>21,
       <1>22, <1>23, <1>24, <1>25, <1>26, <1>27, <1>28, <1>29, <1>30, <1>31,
       <1>32, <1>33, <1>34, <1>35, <1>36, <1>37, <1>38, <1>39, <1>40, <1>41,
       <1>42, <1>43, <1>44, <1>45, <1>46, <1>47
    DEF Next, GameEntry, GameStep, WorkerStep, LuaStep

\* Flags, states and promises keep their types.
LEMMA TickTypeStep == HandOffInv /\ [Next]_vars => TickTypeOK'
  <1> SUFFICES ASSUME TypeOK, HandOff, [Next]_vars PROVE TickTypeOK'
    BY DEF HandOffInv
  <1> USE DEF TypeOK, TickTypeOK, KernelState, Request, Ending,
             restVars, helperVars, handVars, gameVars, pullVars, luaVars,
             Jump, Unlock, DemoteInAsync, HandBack, WithPromote, Start, Halt, Yielded, ApiFlag,
             ResetTick
  <1>1. CASE KernelTick
    BY PromiseType, <1>1 DEF KernelTick
  <1>2. CASE UserStart
    BY PromiseType, <1>2 DEF UserStart
  <1>3. CASE UserStop
    BY PromiseType, <1>3 DEF UserStop
  <1>4. CASE FutureCrash
    BY PromiseType, <1>4 DEF FutureCrash
  <1>5. CASE PreGarbageCollection
    BY PromiseType, <1>5 DEF PreGarbageCollection
  <1>6. CASE PreSaveGame
    BY PromiseType, <1>6 DEF PreSaveGame
  <1>7. CASE PostTick("post1", "branch")
    BY PromiseType, <1>7 DEF PostTick
  <1>8. CASE PostTick("post2", "idle")
    BY PromiseType, <1>8 DEF PostTick
  <1>9. CASE SetReset
    BY PromiseType, <1>9 DEF SetReset
  <1>10. CASE ProcessorReset
    BY PromiseType, <1>10 DEF ProcessorReset
  <1>11. CASE PostGarbageCollection
    BY PromiseType, <1>11 DEF PostGarbageCollection
  <1>12. CASE Persist
    BY PromiseType, <1>12 DEF Persist
  <1>13. CASE DemoteLock
    BY PromiseType, <1>13 DEF DemoteLock
  <1>14. CASE DemoteFlags
    BY PromiseType, <1>14 DEF DemoteFlags
  <1>15. CASE DemoteEnsure
    BY PromiseType, <1>15 DEF DemoteEnsure
  <1>16. CASE DemoteUnlock
    BY PromiseType, <1>16 DEF DemoteUnlock
  <1>17. CASE PromoteEnsure
    BY PromiseType, <1>17 DEF PromoteEnsure
  <1>18. CASE PromoteLaunch
    BY PromiseType, <1>18 DEF PromoteLaunch
  <1>19. CASE PromoteState
    BY PromiseType, <1>19 DEF PromoteState
  <1>20. CASE Branch
    BY PromiseType, <1>20 DEF Branch
  <1>21. CASE SyncEnsure
    BY PromiseType, <1>21 DEF SyncEnsure
  <1>22. CASE SyncPromote
    BY PromiseType, <1>22 DEF SyncPromote
  <1>23. CASE AsyncRead
    BY PromiseType, <1>23 DEF AsyncRead
  <1>24. CASE Grant
    BY PromiseType, <1>24 DEF Grant
  <1>25. CASE AwaitAsync
    BY PromiseType, <1>25 DEF AwaitAsync
  <1>26. CASE ClearSync
    BY PromiseType, <1>26 DEF ClearSync
  <1>27. CASE Restart
    BY PromiseType, <1>27 DEF Restart
  <1>28. CASE SyncUnlock
    BY PromiseType, <1>28 DEF SyncUnlock
  <1>29. CASE WorkerStart
    BY PromiseType, <1>29 DEF WorkerStart
  <1>30. CASE WorkerCheck
    BY PromiseType, <1>30 DEF WorkerCheck
  <1>31. CASE WorkerRelease
    BY PromiseType, <1>31 DEF WorkerRelease
  <1>32. CASE WorkerAwait
    BY PromiseType, <1>32 DEF WorkerAwait
  <1>33. CASE WorkerRelock
    BY PromiseType, <1>33 DEF WorkerRelock
  <1>34. CASE WorkerUnlock
    BY PromiseType, <1>34 DEF WorkerUnlock
  <1>35. CASE WorkerHandoff
    BY PromiseType, <1>35 DEF WorkerHandoff
  <1>36. CASE WorkerFlags
    BY PromiseType, <1>36 DEF WorkerFlags
  <1>37. CASE LuaTickBegin(Game, "sLock")
    BY PromiseType, <1>37 DEF LuaTickBegin
  <1>38. CASE LuaTickBegin(Worker, "lock")
    BY PromiseType, <1>38 DEF LuaTickBegin
  <1>39. CASE SignalArrives
    BY PromiseType, <1>39 DEF SignalArrives
  <1>40. CASE TimeoutExpires
    BY PromiseType, <1>40 DEF TimeoutExpires
  <1>41. ASSUME NEW t \in Thread, LuaYield(t) PROVE TickTypeOK'
    BY PromiseType, <1>41 DEF LuaYield
  <1>42. ASSUME NEW t \in Thread, LuaEnd(t) PROVE TickTypeOK'
    BY PromiseType, <1>42 DEF LuaEnd
  <1>43. ASSUME NEW t \in Thread, LuaPromote(t) PROVE TickTypeOK'
    BY PromiseType, <1>43 DEF LuaPromote
  <1>44. ASSUME NEW t \in Thread, LuaPull(t) PROVE TickTypeOK'
    BY PromiseType, <1>44 DEF LuaPull
  <1>45. ASSUME NEW t \in Thread, LuaApi(t) PROVE TickTypeOK'
    BY PromiseType, <1>45 DEF LuaApi
  <1>46. ASSUME NEW t \in Thread, NEW k \in ApiCall, LuaCall(t, k)
         PROVE TickTypeOK'
    BY PromiseType, <1>46 DEF LuaCall
  <1>47. CASE UNCHANGED vars
    BY <1>47 DEF vars
  <1> QED
    BY <1>1, <1>2, <1>3, <1>4, <1>5, <1>6, <1>7, <1>8, <1>9, <1>10, <1>11,
       <1>12, <1>13, <1>14, <1>15, <1>16, <1>17, <1>18, <1>19, <1>20, <1>21,
       <1>22, <1>23, <1>24, <1>25, <1>26, <1>27, <1>28, <1>29, <1>30, <1>31,
       <1>32, <1>33, <1>34, <1>35, <1>36, <1>37, <1>38, <1>39, <1>40, <1>41,
       <1>42, <1>43, <1>44, <1>45, <1>46, <1>47
    DEF Next, GameEntry, GameStep, WorkerStep, LuaStep

\* A signal is only taken from a queue that has one.
LEMMA PullTypeStep == HandOffInv /\ [Next]_vars => PullTypeOK'
  <1> SUFFICES ASSUME TypeOK, HandOff, [Next]_vars PROVE PullTypeOK'
    BY DEF HandOffInv
  <1> USE DEF TypeOK, PullTypeOK, restVars, helperVars, handVars, gameVars,
             pullVars, luaVars, Jump, Unlock, DemoteInAsync, HandBack, ResetTick
  <1>1. CASE KernelTick
    BY MaxSignalsAssumption, <1>1 DEF KernelTick
  <1>2. CASE UserStart
    BY MaxSignalsAssumption, <1>2 DEF UserStart
  <1>3. CASE UserStop
    BY MaxSignalsAssumption, <1>3 DEF UserStop
  <1>4. CASE FutureCrash
    BY MaxSignalsAssumption, <1>4 DEF FutureCrash
  <1>5. CASE PreGarbageCollection
    BY MaxSignalsAssumption, <1>5 DEF PreGarbageCollection
  <1>6. CASE PreSaveGame
    BY MaxSignalsAssumption, <1>6 DEF PreSaveGame
  <1>7. CASE PostTick("post1", "branch")
    BY MaxSignalsAssumption, <1>7 DEF PostTick
  <1>8. CASE PostTick("post2", "idle")
    BY MaxSignalsAssumption, <1>8 DEF PostTick
  <1>9. CASE SetReset
    BY MaxSignalsAssumption, <1>9 DEF SetReset
  <1>10. CASE ProcessorReset
    BY MaxSignalsAssumption, <1>10 DEF ProcessorReset
  <1>11. CASE PostGarbageCollection
    BY MaxSignalsAssumption, <1>11 DEF PostGarbageCollection
  <1>12. CASE Persist
    BY MaxSignalsAssumption, <1>12 DEF Persist
  <1>13. CASE DemoteLock
    BY MaxSignalsAssumption, <1>13 DEF DemoteLock
  <1>14. CASE DemoteFlags
    BY MaxSignalsAssumption, <1>14 DEF DemoteFlags
  <1>15. CASE DemoteEnsure
    BY MaxSignalsAssumption, <1>15 DEF DemoteEnsure
  <1>16. CASE DemoteUnlock
    BY MaxSignalsAssumption, <1>16 DEF DemoteUnlock
  <1>17. CASE PromoteEnsure
    BY MaxSignalsAssumption, <1>17 DEF PromoteEnsure
  <1>18. CASE PromoteLaunch
    BY MaxSignalsAssumption, <1>18 DEF PromoteLaunch
  <1>19. CASE PromoteState
    BY MaxSignalsAssumption, <1>19 DEF PromoteState
  <1>20. CASE Branch
    BY MaxSignalsAssumption, <1>20 DEF Branch
  <1>21. CASE SyncEnsure
    BY MaxSignalsAssumption, <1>21 DEF SyncEnsure
  <1>22. CASE SyncPromote
    BY MaxSignalsAssumption, <1>22 DEF SyncPromote
  <1>23. CASE AsyncRead
    BY MaxSignalsAssumption, <1>23 DEF AsyncRead
  <1>24. CASE Grant
    BY MaxSignalsAssumption, <1>24 DEF Grant
  <1>25. CASE AwaitAsync
    BY MaxSignalsAssumption, <1>25 DEF AwaitAsync
  <1>26. CASE ClearSync
    BY MaxSignalsAssumption, <1>26 DEF ClearSync
  <1>27. CASE Restart
    BY MaxSignalsAssumption, <1>27 DEF Restart
  <1>28. CASE SyncUnlock
    BY MaxSignalsAssumption, <1>28 DEF SyncUnlock
  <1>29. CASE WorkerStart
    BY MaxSignalsAssumption, <1>29 DEF WorkerStart
  <1>30. CASE WorkerCheck
    BY MaxSignalsAssumption, <1>30 DEF WorkerCheck
  <1>31. CASE WorkerRelease
    BY MaxSignalsAssumption, <1>31 DEF WorkerRelease
  <1>32. CASE WorkerAwait
    BY MaxSignalsAssumption, <1>32 DEF WorkerAwait
  <1>33. CASE WorkerRelock
    BY MaxSignalsAssumption, <1>33 DEF WorkerRelock
  <1>34. CASE WorkerUnlock
    BY MaxSignalsAssumption, <1>34 DEF WorkerUnlock
  <1>35. CASE WorkerHandoff
    BY MaxSignalsAssumption, <1>35 DEF WorkerHandoff
  <1>36. CASE WorkerFlags
    BY MaxSignalsAssumption, <1>36 DEF WorkerFlags
  <1>37. CASE LuaTickBegin(Game, "sLock")
    <2>1. /\ waitSignal' \in BOOLEAN /\ seenWait' \in BOOLEAN
          /\ timedOut' \in BOOLEAN /\ wasPromoted' \in BOOLEAN
      BY <1>37 DEF LuaTickBegin
    <2>2. pullState' \in 0..2
      BY <1>37 DEF LuaTickBegin
    <2>3. signals' \in 0..MaxSignals
      BY MaxSignalsAssumption, <1>37 DEF LuaTickBegin
    <2> QED
      BY <2>1, <2>2, <2>3
  <1>38. CASE LuaTickBegin(Worker, "lock")
    <2>1. /\ waitSignal' \in BOOLEAN /\ seenWait' \in BOOLEAN
          /\ timedOut' \in BOOLEAN /\ wasPromoted' \in BOOLEAN
      BY <1>38 DEF LuaTickBegin
    <2>2. pullState' \in 0..2
      BY <1>38 DEF LuaTickBegin
    <2>3. signals' \in 0..MaxSignals
      BY MaxSignalsAssumption, <1>38 DEF LuaTickBegin
    <2> QED
      BY <2>1, <2>2, <2>3
  <1>39. CASE SignalArrives
    BY MaxSignalsAssumption, <1>39 DEF SignalArrives
  <1>40. CASE TimeoutExpires
    BY MaxSignalsAssumption, <1>40 DEF TimeoutExpires
  <1>41. ASSUME NEW t \in Thread, LuaYield(t) PROVE PullTypeOK'
    BY MaxSignalsAssumption, <1>41 DEF LuaYield
  <1>42. ASSUME NEW t \in Thread, LuaEnd(t) PROVE PullTypeOK'
    BY MaxSignalsAssumption, <1>42 DEF LuaEnd
  <1>43. ASSUME NEW t \in Thread, LuaPromote(t) PROVE PullTypeOK'
    BY MaxSignalsAssumption, <1>43 DEF LuaPromote
  <1>44. ASSUME NEW t \in Thread, LuaPull(t) PROVE PullTypeOK'
    <2>1. /\ waitSignal' \in BOOLEAN /\ seenWait' \in BOOLEAN
          /\ timedOut' \in BOOLEAN /\ wasPromoted' \in BOOLEAN
      BY <1>44 DEF LuaPull
    <2>2. pullState' \in 0..2
      BY <1>44 DEF LuaPull
    <2>3. signals' \in 0..MaxSignals
      BY MaxSignalsAssumption, <1>44 DEF LuaPull
    <2> QED
      BY <2>1, <2>2, <2>3
  <1>45. ASSUME NEW t \in Thread, LuaApi(t) PROVE PullTypeOK'
    BY MaxSignalsAssumption, <1>45 DEF LuaApi
  <1>46. ASSUME NEW t \in Thread, NEW k \in ApiCall, LuaCall(t, k)
         PROVE PullTypeOK'
    BY MaxSignalsAssumption, <1>46 DEF LuaCall
  <1>47. CASE UNCHANGED vars
    BY <1>47 DEF vars
  <1> QED
    BY <1>1, <1>2, <1>3, <1>4, <1>5, <1>6, <1>7, <1>8, <1>9, <1>10, <1>11,
       <1>12, <1>13, <1>14, <1>15, <1>16, <1>17, <1>18, <1>19, <1>20, <1>21,
       <1>22, <1>23, <1>24, <1>25, <1>26, <1>27, <1>28, <1>29, <1>30, <1>31,
       <1>32, <1>33, <1>34, <1>35, <1>36, <1>37, <1>38, <1>39, <1>40, <1>41,
       <1>42, <1>43, <1>44, <1>45, <1>46, <1>47
    DEF Next, GameEntry, GameStep, WorkerStep, LuaStep

\* The relation of the two threads survives every step of either.
LEMMA HandOffStep == HandOffInv /\ [Next]_vars => HandOff'
  <1> SUFFICES ASSUME TypeOK, HandOff, [Next]_vars PROVE HandOff'
    BY DEF HandOffInv
  <1> USE DEF TypeOK, ThreadTypeOK, TickTypeOK, HandOff, SyncPoint, GameLabel,
             WorkerLabel, WorkerBusy, WorkerUsesLua, GameWaits, At, Goto,
             restVars, helperVars, handVars, gameVars, pullVars, luaVars,
             Jump, Unlock, DemoteInAsync, HandBack, Return, Ready, TaskIdle,
             Completable, StopTick, Promote, Start, Halt, Yielded, ResetTick
  <1>1. CASE KernelTick
    BY <1>1 DEF KernelTick
  <1>2. CASE UserStart
    BY <1>2 DEF UserStart
  <1>3. CASE UserStop
    BY <1>3 DEF UserStop
  <1>4. CASE FutureCrash
    BY <1>4 DEF FutureCrash
  <1>5. CASE PreGarbageCollection
    BY <1>5 DEF PreGarbageCollection
  <1>6. CASE PreSaveGame
    BY <1>6 DEF PreSaveGame
  <1>7. CASE PostTick("post1", "branch")
    BY <1>7 DEF PostTick
  <1>8. CASE PostTick("post2", "idle")
    BY <1>8 DEF PostTick
  <1>9. CASE SetReset
    BY <1>9 DEF SetReset
  <1>10. CASE ProcessorReset
    BY <1>10 DEF ProcessorReset
  <1>11. CASE PostGarbageCollection
    BY <1>11 DEF PostGarbageCollection
  <1>12. CASE Persist
    BY <1>12 DEF Persist
  <1>13. CASE DemoteLock
    BY <1>13 DEF DemoteLock
  <1>14. CASE DemoteFlags
    BY <1>14 DEF DemoteFlags
  <1>15. CASE DemoteEnsure
    BY <1>15 DEF DemoteEnsure
  <1>16. CASE DemoteUnlock
    BY <1>16 DEF DemoteUnlock
  <1>17. CASE PromoteEnsure
    BY <1>17 DEF PromoteEnsure
  <1>18. CASE PromoteLaunch
    BY <1>18 DEF PromoteLaunch
  <1>19. CASE PromoteState
    BY <1>19 DEF PromoteState
  <1>20. CASE Branch
    BY <1>20 DEF Branch
  <1>21. CASE SyncEnsure
    BY <1>21 DEF SyncEnsure
  <1>22. CASE SyncPromote
    BY <1>22 DEF SyncPromote
  <1>23. CASE AsyncRead
    BY <1>23 DEF AsyncRead
  <1>24. CASE Grant
    BY <1>24 DEF Grant
  <1>25. CASE AwaitAsync
    BY <1>25 DEF AwaitAsync
  <1>26. CASE ClearSync
    BY <1>26 DEF ClearSync
  <1>27. CASE Restart
    BY <1>27 DEF Restart
  <1>28. CASE SyncUnlock
    BY <1>28 DEF SyncUnlock
  <1>29. CASE WorkerStart
    BY <1>29 DEF WorkerStart
  <1>30. CASE WorkerCheck
    BY <1>30 DEF WorkerCheck
  <1>31. CASE WorkerRelease
    BY <1>31 DEF WorkerRelease
  <1>32. CASE WorkerAwait
    BY <1>32 DEF WorkerAwait
  <1>33. CASE WorkerRelock
    BY <1>33 DEF WorkerRelock
  <1>34. CASE WorkerUnlock
    BY <1>34 DEF WorkerUnlock
  <1>35. CASE WorkerHandoff
    BY <1>35 DEF WorkerHandoff
  <1>36. CASE WorkerFlags
    BY <1>36 DEF WorkerFlags
  <1>37. CASE LuaTickBegin(Game, "sLock")
    BY <1>37 DEF LuaTickBegin
  <1>38. CASE LuaTickBegin(Worker, "lock")
    BY <1>38 DEF LuaTickBegin
  <1>39. CASE SignalArrives
    BY <1>39 DEF SignalArrives
  <1>40. CASE TimeoutExpires
    BY <1>40 DEF TimeoutExpires
  <1>41. ASSUME NEW t \in Thread, LuaYield(t) PROVE HandOff'
    BY <1>41 DEF LuaYield
  <1>42. ASSUME NEW t \in Thread, LuaEnd(t) PROVE HandOff'
    BY <1>42 DEF LuaEnd
  <1>43. ASSUME NEW t \in Thread, LuaPromote(t) PROVE HandOff'
    BY <1>43 DEF LuaPromote
  <1>44. ASSUME NEW t \in Thread, LuaPull(t) PROVE HandOff'
    BY <1>44 DEF LuaPull
  <1>45. ASSUME NEW t \in Thread, LuaApi(t) PROVE HandOff'
    BY <1>45 DEF LuaApi
  <1>46. ASSUME NEW t \in Thread, NEW k \in ApiCall, LuaCall(t, k)
         PROVE HandOff'
    BY <1>46 DEF LuaCall
  <1>47. CASE UNCHANGED vars
    BY <1>47 DEF vars
  <1> QED
    BY <1>1, <1>2, <1>3, <1>4, <1>5, <1>6, <1>7, <1>8, <1>9, <1>10, <1>11,
       <1>12, <1>13, <1>14, <1>15, <1>16, <1>17, <1>18, <1>19, <1>20, <1>21,
       <1>22, <1>23, <1>24, <1>25, <1>26, <1>27, <1>28, <1>29, <1>30, <1>31,
       <1>32, <1>33, <1>34, <1>35, <1>36, <1>37, <1>38, <1>39, <1>40, <1>41,
       <1>42, <1>43, <1>44, <1>45, <1>46, <1>47
    DEF Next, GameEntry, GameStep, WorkerStep, LuaStep

\* TickMutex is taken before a Lua tick and kept until it ends or is suspended.
LEMMA MutexStep == HandOffInv /\ PromiseInv /\ [Next]_vars => MutexHeld'
  <1> SUFFICES ASSUME TypeOK, HandOff, PromiseInv, [Next]_vars PROVE MutexHeld'
    BY DEF HandOffInv
  <1> USE DEF TypeOK, ThreadTypeOK, TickTypeOK, HandOff, PromiseInv, MutexHeld,
             SyncPoint, GameLabel, WorkerLabel, WorkerBusy, WorkerUsesLua,
             GameWaits, At, Goto, restVars, helperVars, handVars, gameVars,
             pullVars, luaVars, Jump, Unlock, DemoteInAsync, HandBack, Return,
             Ready, TaskIdle, Completable, StopTick, Promote, Start, Halt,
             Yielded, ResetTick, KernelState
  <1>1. CASE KernelTick
    BY <1>1 DEF KernelTick
  <1>2. CASE UserStart
    BY <1>2 DEF UserStart
  <1>3. CASE UserStop
    BY <1>3 DEF UserStop
  <1>4. CASE FutureCrash
    BY <1>4 DEF FutureCrash
  <1>5. CASE PreGarbageCollection
    BY <1>5 DEF PreGarbageCollection
  <1>6. CASE PreSaveGame
    BY <1>6 DEF PreSaveGame
  <1>7. CASE PostTick("post1", "branch")
    BY <1>7 DEF PostTick
  <1>8. CASE PostTick("post2", "idle")
    BY <1>8 DEF PostTick
  <1>9. CASE SetReset
    BY <1>9 DEF SetReset
  <1>10. CASE ProcessorReset
    BY <1>10 DEF ProcessorReset
  <1>11. CASE PostGarbageCollection
    BY <1>11 DEF PostGarbageCollection
  <1>12. CASE Persist
    BY <1>12 DEF Persist
  <1>13. CASE DemoteLock
    BY <1>13 DEF DemoteLock
  <1>14. CASE DemoteFlags
    BY <1>14 DEF DemoteFlags
  <1>15. CASE DemoteEnsure
    BY <1>15 DEF DemoteEnsure
  <1>16. CASE DemoteUnlock
    BY <1>16 DEF DemoteUnlock
  <1>17. CASE PromoteEnsure
    BY <1>17 DEF PromoteEnsure
  <1>18. CASE PromoteLaunch
    BY <1>18 DEF PromoteLaunch
  <1>19. CASE PromoteState
    BY <1>19 DEF PromoteState
  <1>20. CASE Branch
    BY <1>20 DEF Branch
  <1>21. CASE SyncEnsure
    BY <1>21 DEF SyncEnsure
  <1>22. CASE SyncPromote
    BY <1>22 DEF SyncPromote
  <1>23. CASE AsyncRead
    BY <1>23 DEF AsyncRead
  <1>24. CASE Grant
    BY <1>24 DEF Grant
  <1>25. CASE AwaitAsync
    BY <1>25 DEF AwaitAsync
  <1>26. CASE ClearSync
    BY <1>26 DEF ClearSync
  <1>27. CASE Restart
    BY <1>27 DEF Restart
  <1>28. CASE SyncUnlock
    BY <1>28 DEF SyncUnlock
  <1>29. CASE WorkerStart
    BY <1>29 DEF WorkerStart
  <1>30. CASE WorkerCheck
    BY <1>30 DEF WorkerCheck
  <1>31. CASE WorkerRelease
    BY <1>31 DEF WorkerRelease
  <1>32. CASE WorkerAwait
    BY <1>32 DEF WorkerAwait
  <1>33. CASE WorkerRelock
    BY <1>33 DEF WorkerRelock
  <1>34. CASE WorkerUnlock
    BY <1>34 DEF WorkerUnlock
  <1>35. CASE WorkerHandoff
    BY <1>35 DEF WorkerHandoff
  <1>36. CASE WorkerFlags
    BY <1>36 DEF WorkerFlags
  <1>37. CASE LuaTickBegin(Game, "sLock")
    BY <1>37 DEF LuaTickBegin
  <1>38. CASE LuaTickBegin(Worker, "lock")
    BY <1>38 DEF LuaTickBegin
  <1>39. CASE SignalArrives
    BY <1>39 DEF SignalArrives
  <1>40. CASE TimeoutExpires
    BY <1>40 DEF TimeoutExpires
  <1>41. ASSUME NEW t \in Thread, LuaYield(t) PROVE MutexHeld'
    BY <1>41 DEF LuaYield
  <1>42. ASSUME NEW t \in Thread, LuaEnd(t) PROVE MutexHeld'
    BY <1>42 DEF LuaEnd
  <1>43. ASSUME NEW t \in Thread, LuaPromote(t) PROVE MutexHeld'
    BY <1>43 DEF LuaPromote
  <1>44. ASSUME NEW t \in Thread, LuaPull(t) PROVE MutexHeld'
    BY <1>44 DEF LuaPull
  <1>45. ASSUME NEW t \in Thread, LuaApi(t) PROVE MutexHeld'
    BY <1>45 DEF LuaApi
  <1>46. ASSUME NEW t \in Thread, NEW k \in ApiCall, LuaCall(t, k)
         PROVE MutexHeld'
    BY <1>46 DEF LuaCall
  <1>47. CASE UNCHANGED vars
    BY <1>47 DEF vars
  <1> QED
    BY <1>1, <1>2, <1>3, <1>4, <1>5, <1>6, <1>7, <1>8, <1>9, <1>10, <1>11,
       <1>12, <1>13, <1>14, <1>15, <1>16, <1>17, <1>18, <1>19, <1>20, <1>21,
       <1>22, <1>23, <1>24, <1>25, <1>26, <1>27, <1>28, <1>29, <1>30, <1>31,
       <1>32, <1>33, <1>34, <1>35, <1>36, <1>37, <1>38, <1>39, <1>40, <1>41,
       <1>42, <1>43, <1>44, <1>45, <1>46, <1>47
    DEF Next, GameEntry, GameStep, WorkerStep, LuaStep

\* A kernel that halts demotes first, or is about to; only a running one
\* promotes.
LEMMA HaltedStep == HandOffInv /\ PromiseInv /\ [Next]_vars => HaltedIsSync'
  <1> SUFFICES ASSUME TypeOK, HandOff, PromiseInv, [Next]_vars PROVE HaltedIsSync'
    BY DEF HandOffInv
  <1> USE DEF TypeOK, ThreadTypeOK, TickTypeOK, HandOff, PromiseInv, HaltedIsSync,
             SyncPoint, GameLabel, WorkerLabel, WorkerBusy, WorkerUsesLua,
             GameWaits, At, Goto, restVars, helperVars, handVars, gameVars,
             pullVars, luaVars, Jump, Unlock, DemoteInAsync, HandBack, Return,
             Ready, TaskIdle, Completable, StopTick, Promote, Start, Halt,
             Yielded, ResetTick, KernelState
  <1>1. CASE KernelTick
    BY <1>1 DEF KernelTick
  <1>2. CASE UserStart
    BY <1>2 DEF UserStart
  <1>3. CASE UserStop
    BY <1>3 DEF UserStop
  <1>4. CASE FutureCrash
    BY <1>4 DEF FutureCrash
  <1>5. CASE PreGarbageCollection
    BY <1>5 DEF PreGarbageCollection
  <1>6. CASE PreSaveGame
    BY <1>6 DEF PreSaveGame
  <1>7. CASE PostTick("post1", "branch")
    BY <1>7 DEF PostTick
  <1>8. CASE PostTick("post2", "idle")
    BY <1>8 DEF PostTick
  <1>9. CASE SetReset
    BY <1>9 DEF SetReset
  <1>10. CASE ProcessorReset
    BY <1>10 DEF ProcessorReset
  <1>11. CASE PostGarbageCollection
    BY <1>11 DEF PostGarbageCollection
  <1>12. CASE Persist
    BY <1>12 DEF Persist
  <1>13. CASE DemoteLock
    BY <1>13 DEF DemoteLock
  <1>14. CASE DemoteFlags
    BY <1>14 DEF DemoteFlags
  <1>15. CASE DemoteEnsure
    BY <1>15 DEF DemoteEnsure
  <1>16. CASE DemoteUnlock
    BY <1>16 DEF DemoteUnlock
  <1>17. CASE PromoteEnsure
    BY <1>17 DEF PromoteEnsure
  <1>18. CASE PromoteLaunch
    BY <1>18 DEF PromoteLaunch
  <1>19. CASE PromoteState
    BY <1>19 DEF PromoteState
  <1>20. CASE Branch
    BY <1>20 DEF Branch
  <1>21. CASE SyncEnsure
    BY <1>21 DEF SyncEnsure
  <1>22. CASE SyncPromote
    BY <1>22 DEF SyncPromote
  <1>23. CASE AsyncRead
    BY <1>23 DEF AsyncRead
  <1>24. CASE Grant
    BY <1>24 DEF Grant
  <1>25. CASE AwaitAsync
    BY <1>25 DEF AwaitAsync
  <1>26. CASE ClearSync
    BY <1>26 DEF ClearSync
  <1>27. CASE Restart
    BY <1>27 DEF Restart
  <1>28. CASE SyncUnlock
    BY <1>28 DEF SyncUnlock
  <1>29. CASE WorkerStart
    BY <1>29 DEF WorkerStart
  <1>30. CASE WorkerCheck
    BY <1>30 DEF WorkerCheck
  <1>31. CASE WorkerRelease
    BY <1>31 DEF WorkerRelease
  <1>32. CASE WorkerAwait
    BY <1>32 DEF WorkerAwait
  <1>33. CASE WorkerRelock
    BY <1>33 DEF WorkerRelock
  <1>34. CASE WorkerUnlock
    BY <1>34 DEF WorkerUnlock
  <1>35. CASE WorkerHandoff
    BY <1>35 DEF WorkerHandoff
  <1>36. CASE WorkerFlags
    BY <1>36 DEF WorkerFlags
  <1>37. CASE LuaTickBegin(Game, "sLock")
    BY <1>37 DEF LuaTickBegin
  <1>38. CASE LuaTickBegin(Worker, "lock")
    BY <1>38 DEF LuaTickBegin
  <1>39. CASE SignalArrives
    BY <1>39 DEF SignalArrives
  <1>40. CASE TimeoutExpires
    BY <1>40 DEF TimeoutExpires
  <1>41. ASSUME NEW t \in Thread, LuaYield(t) PROVE HaltedIsSync'
    BY <1>41 DEF LuaYield
  <1>42. ASSUME NEW t \in Thread, LuaEnd(t) PROVE HaltedIsSync'
    BY <1>42 DEF LuaEnd
  <1>43. ASSUME NEW t \in Thread, LuaPromote(t) PROVE HaltedIsSync'
    BY <1>43 DEF LuaPromote
  <1>44. ASSUME NEW t \in Thread, LuaPull(t) PROVE HaltedIsSync'
    BY <1>44 DEF LuaPull
  <1>45. ASSUME NEW t \in Thread, LuaApi(t) PROVE HaltedIsSync'
    BY <1>45 DEF LuaApi
  <1>46. ASSUME NEW t \in Thread, NEW k \in ApiCall, LuaCall(t, k)
         PROVE HaltedIsSync'
    BY <1>46 DEF LuaCall
  <1>47. CASE UNCHANGED vars
    BY <1>47 DEF vars
  <1> QED
    BY <1>1, <1>2, <1>3, <1>4, <1>5, <1>6, <1>7, <1>8, <1>9, <1>10, <1>11,
       <1>12, <1>13, <1>14, <1>15, <1>16, <1>17, <1>18, <1>19, <1>20, <1>21,
       <1>22, <1>23, <1>24, <1>25, <1>26, <1>27, <1>28, <1>29, <1>30, <1>31,
       <1>32, <1>33, <1>34, <1>35, <1>36, <1>37, <1>38, <1>39, <1>40, <1>41,
       <1>42, <1>43, <1>44, <1>45, <1>46, <1>47
    DEF Next, GameEntry, GameStep, WorkerStep, LuaStep

\* Every request for the game thread is answered once, by a grant or a demote.
LEMMA AnsweringStep == HandOffInv /\ PromiseInv /\ [Next]_vars => Answering'
  <1> SUFFICES ASSUME TypeOK, HandOff, PromiseInv, [Next]_vars PROVE Answering'
    BY DEF HandOffInv
  <1> USE DEF TypeOK, ThreadTypeOK, TickTypeOK, HandOff, PromiseInv, MutexHeld, HaltedIsSync,
             Answering, Fulfilled, Fresh, Promise,
             SyncPoint, GameLabel, WorkerLabel, WorkerBusy, WorkerUsesLua,
             GameWaits, At, Goto, restVars, helperVars, handVars, gameVars,
             pullVars, luaVars, Jump, Unlock, DemoteInAsync, HandBack, Return,
             Ready, TaskIdle, Completable, StopTick, Promote, Start, Halt,
             Yielded, ResetTick, KernelState
  <1>1. CASE KernelTick
    BY <1>1 DEF KernelTick
  <1>2. CASE UserStart
    BY <1>2 DEF UserStart
  <1>3. CASE UserStop
    BY <1>3 DEF UserStop
  <1>4. CASE FutureCrash
    BY <1>4 DEF FutureCrash
  <1>5. CASE PreGarbageCollection
    BY <1>5 DEF PreGarbageCollection
  <1>6. CASE PreSaveGame
    BY <1>6 DEF PreSaveGame
  <1>7. CASE PostTick("post1", "branch")
    BY <1>7 DEF PostTick
  <1>8. CASE PostTick("post2", "idle")
    BY <1>8 DEF PostTick
  <1>9. CASE SetReset
    BY <1>9 DEF SetReset
  <1>10. CASE ProcessorReset
    BY <1>10 DEF ProcessorReset
  <1>11. CASE PostGarbageCollection
    BY <1>11 DEF PostGarbageCollection
  <1>12. CASE Persist
    BY <1>12 DEF Persist
  <1>13. CASE DemoteLock
    BY <1>13 DEF DemoteLock
  <1>14. CASE DemoteFlags
    BY <1>14 DEF DemoteFlags
  <1>15. CASE DemoteEnsure
    BY <1>15 DEF DemoteEnsure
  <1>16. CASE DemoteUnlock
    BY <1>16 DEF DemoteUnlock
  <1>17. CASE PromoteEnsure
    BY <1>17 DEF PromoteEnsure
  <1>18. CASE PromoteLaunch
    BY <1>18 DEF PromoteLaunch
  <1>19. CASE PromoteState
    BY <1>19 DEF PromoteState
  <1>20. CASE Branch
    BY <1>20 DEF Branch
  <1>21. CASE SyncEnsure
    BY <1>21 DEF SyncEnsure
  <1>22. CASE SyncPromote
    BY <1>22 DEF SyncPromote
  <1>23. CASE AsyncRead
    BY <1>23 DEF AsyncRead
  <1>24. CASE Grant
    BY <1>24 DEF Grant
  <1>25. CASE AwaitAsync
    BY <1>25 DEF AwaitAsync
  <1>26. CASE ClearSync
    BY <1>26 DEF ClearSync
  <1>27. CASE Restart
    BY <1>27 DEF Restart
  <1>28. CASE SyncUnlock
    BY <1>28 DEF SyncUnlock
  <1>29. CASE WorkerStart
    BY <1>29 DEF WorkerStart
  <1>30. CASE WorkerCheck
    BY <1>30 DEF WorkerCheck
  <1>31. CASE WorkerRelease
    BY <1>31 DEF WorkerRelease
  <1>32. CASE WorkerAwait
    BY <1>32 DEF WorkerAwait
  <1>33. CASE WorkerRelock
    BY <1>33 DEF WorkerRelock
  <1>34. CASE WorkerUnlock
    BY <1>34 DEF WorkerUnlock
  <1>35. CASE WorkerHandoff
    BY <1>35 DEF WorkerHandoff
  <1>36. CASE WorkerFlags
    BY <1>36 DEF WorkerFlags
  <1>37. CASE LuaTickBegin(Game, "sLock")
    BY <1>37 DEF LuaTickBegin
  <1>38. CASE LuaTickBegin(Worker, "lock")
    BY <1>38 DEF LuaTickBegin
  <1>39. CASE SignalArrives
    BY <1>39 DEF SignalArrives
  <1>40. CASE TimeoutExpires
    BY <1>40 DEF TimeoutExpires
  <1>41. ASSUME NEW t \in Thread, LuaYield(t) PROVE Answering'
    BY <1>41 DEF LuaYield
  <1>42. ASSUME NEW t \in Thread, LuaEnd(t) PROVE Answering'
    BY <1>42 DEF LuaEnd
  <1>43. ASSUME NEW t \in Thread, LuaPromote(t) PROVE Answering'
    BY <1>43 DEF LuaPromote
  <1>44. ASSUME NEW t \in Thread, LuaPull(t) PROVE Answering'
    BY <1>44 DEF LuaPull
  <1>45. ASSUME NEW t \in Thread, LuaApi(t) PROVE Answering'
    BY <1>45 DEF LuaApi
  <1>46. ASSUME NEW t \in Thread, NEW k \in ApiCall, LuaCall(t, k)
         PROVE Answering'
    <2>1. t = Game => tickState = "SYNC"
      BY <1>46 DEF LuaCall
    <2>2. CASE tickState = "ASYNC"
      <3>1. /\ t = Worker /\ pc' = [pc EXCEPT ![Worker] = "release"]
            /\ doSync'
        BY <1>46, <2>1, <2>2 DEF LuaCall
      <3>2. /\ promise' = [promise EXCEPT !["AsyncSync"] = Fresh(TRUE),
                                         !["SyncAsync"] = Fresh(FALSE)]
            /\ future' = [future EXCEPT ![Worker] = "pending"]
        BY <1>46, <2>1, <2>2 DEF LuaCall
      <3>3. promise'["AsyncSync"] = Fresh(TRUE) /\ ~promise'["SyncAsync"].done
        BY <3>2
      <3> QED
        BY <1>46, <2>2, <3>1, <3>2, <3>3 DEF LuaCall
    <2>3. CASE tickState # "ASYNC"
      <3>1. /\ pc' = [pc EXCEPT ![t] = "api"]
            /\ UNCHANGED <<promise, future, doSync, tickState, overfulfilled>>
        BY <1>46, <2>3 DEF LuaCall
      <3> QED
        BY <1>46, <2>3, <3>1 DEF LuaCall
    <2> QED
      BY <2>2, <2>3
  <1>47. CASE UNCHANGED vars
    BY <1>47 DEF vars
  <1> QED
    BY <1>1, <1>2, <1>3, <1>4, <1>5, <1>6, <1>7, <1>8, <1>9, <1>10, <1>11,
       <1>12, <1>13, <1>14, <1>15, <1>16, <1>17, <1>18, <1>19, <1>20, <1>21,
       <1>22, <1>23, <1>24, <1>25, <1>26, <1>27, <1>28, <1>29, <1>30, <1>31,
       <1>32, <1>33, <1>34, <1>35, <1>36, <1>37, <1>38, <1>39, <1>40, <1>41,
       <1>42, <1>43, <1>44, <1>45, <1>46, <1>47
    DEF Next, GameEntry, GameStep, WorkerStep, LuaStep

\* TickMutex is owned by a thread in a Lua tick, or by a game that launches a task.
LEMMA OwnerStep == HandOffInv /\ PromiseInv /\ WaitInv /\ [Next]_vars => MutexOwned'
  <1> SUFFICES ASSUME TypeOK, HandOff, PromiseInv, WaitInv, [Next]_vars PROVE MutexOwned'
    BY DEF HandOffInv
  <1> USE DEF TypeOK, ThreadTypeOK, TickTypeOK, HandOff, PromiseInv, MutexHeld, HaltedIsSync,
             Answering, WaitInv, MutexOwned, Fulfilled, Fresh, Promise,
             SyncPoint, GameLabel, WorkerLabel, WorkerBusy, WorkerUsesLua,
             GameWaits, At, Goto, restVars, helperVars, handVars, gameVars,
             pullVars, luaVars, Jump, Unlock, DemoteInAsync, HandBack, Return,
             Ready, TaskIdle, Completable, StopTick, Promote, Start, Halt,
             Yielded, ResetTick, KernelState
  <1>1. CASE KernelTick
    BY <1>1 DEF KernelTick
  <1>2. CASE UserStart
    BY <1>2 DEF UserStart
  <1>3. CASE UserStop
    BY <1>3 DEF UserStop
  <1>4. CASE FutureCrash
    BY <1>4 DEF FutureCrash
  <1>5. CASE PreGarbageCollection
    BY <1>5 DEF PreGarbageCollection
  <1>6. CASE PreSaveGame
    BY <1>6 DEF PreSaveGame
  <1>7. CASE PostTick("post1", "branch")
    BY <1>7 DEF PostTick
  <1>8. CASE PostTick("post2", "idle")
    BY <1>8 DEF PostTick
  <1>9. CASE SetReset
    BY <1>9 DEF SetReset
  <1>10. CASE ProcessorReset
    BY <1>10 DEF ProcessorReset
  <1>11. CASE PostGarbageCollection
    BY <1>11 DEF PostGarbageCollection
  <1>12. CASE Persist
    BY <1>12 DEF Persist
  <1>13. CASE DemoteLock
    BY <1>13 DEF DemoteLock
  <1>14. CASE DemoteFlags
    BY <1>14 DEF DemoteFlags
  <1>15. CASE DemoteEnsure
    BY <1>15 DEF DemoteEnsure
  <1>16. CASE DemoteUnlock
    BY <1>16 DEF DemoteUnlock
  <1>17. CASE PromoteEnsure
    BY <1>17 DEF PromoteEnsure
  <1>18. CASE PromoteLaunch
    BY <1>18 DEF PromoteLaunch
  <1>19. CASE PromoteState
    BY <1>19 DEF PromoteState
  <1>20. CASE Branch
    BY <1>20 DEF Branch
  <1>21. CASE SyncEnsure
    BY <1>21 DEF SyncEnsure
  <1>22. CASE SyncPromote
    BY <1>22 DEF SyncPromote
  <1>23. CASE AsyncRead
    BY <1>23 DEF AsyncRead
  <1>24. CASE Grant
    BY <1>24 DEF Grant
  <1>25. CASE AwaitAsync
    BY <1>25 DEF AwaitAsync
  <1>26. CASE ClearSync
    BY <1>26 DEF ClearSync
  <1>27. CASE Restart
    BY <1>27 DEF Restart
  <1>28. CASE SyncUnlock
    BY <1>28 DEF SyncUnlock
  <1>29. CASE WorkerStart
    BY <1>29 DEF WorkerStart
  <1>30. CASE WorkerCheck
    BY <1>30 DEF WorkerCheck
  <1>31. CASE WorkerRelease
    BY <1>31 DEF WorkerRelease
  <1>32. CASE WorkerAwait
    BY <1>32 DEF WorkerAwait
  <1>33. CASE WorkerRelock
    BY <1>33 DEF WorkerRelock
  <1>34. CASE WorkerUnlock
    BY <1>34 DEF WorkerUnlock
  <1>35. CASE WorkerHandoff
    BY <1>35 DEF WorkerHandoff
  <1>36. CASE WorkerFlags
    BY <1>36 DEF WorkerFlags
  <1>37. CASE LuaTickBegin(Game, "sLock")
    BY <1>37 DEF LuaTickBegin
  <1>38. CASE LuaTickBegin(Worker, "lock")
    BY <1>38 DEF LuaTickBegin
  <1>39. CASE SignalArrives
    BY <1>39 DEF SignalArrives
  <1>40. CASE TimeoutExpires
    BY <1>40 DEF TimeoutExpires
  <1>41. ASSUME NEW t \in Thread, LuaYield(t) PROVE MutexOwned'
    BY <1>41 DEF LuaYield
  <1>42. ASSUME NEW t \in Thread, LuaEnd(t) PROVE MutexOwned'
    BY <1>42 DEF LuaEnd
  <1>43. ASSUME NEW t \in Thread, LuaPromote(t) PROVE MutexOwned'
    BY <1>43 DEF LuaPromote
  <1>44. ASSUME NEW t \in Thread, LuaPull(t) PROVE MutexOwned'
    BY <1>44 DEF LuaPull
  <1>45. ASSUME NEW t \in Thread, LuaApi(t) PROVE MutexOwned'
    BY <1>45 DEF LuaApi
  <1>46. ASSUME NEW t \in Thread, NEW k \in ApiCall, LuaCall(t, k)
         PROVE MutexOwned'
    <2>1. t = Game => tickState = "SYNC"
      BY <1>46 DEF LuaCall
    <2>2. CASE tickState = "ASYNC"
      <3>1. /\ t = Worker /\ pc' = [pc EXCEPT ![Worker] = "release"]
            /\ doSync'
        BY <1>46, <2>1, <2>2 DEF LuaCall
      <3>2. /\ promise' = [promise EXCEPT !["AsyncSync"] = Fresh(TRUE),
                                         !["SyncAsync"] = Fresh(FALSE)]
            /\ future' = [future EXCEPT ![Worker] = "pending"]
        BY <1>46, <2>1, <2>2 DEF LuaCall
      <3>3. promise'["AsyncSync"] = Fresh(TRUE) /\ ~promise'["SyncAsync"].done
        BY <3>2
      <3> QED
        BY <1>46, <2>2, <3>1, <3>2, <3>3 DEF LuaCall
    <2>3. CASE tickState # "ASYNC"
      <3>1. /\ pc' = [pc EXCEPT ![t] = "api"]
            /\ UNCHANGED <<promise, future, doSync, tickState, overfulfilled>>
        BY <1>46, <2>3 DEF LuaCall
      <3> QED
        BY <1>46, <2>3, <3>1 DEF LuaCall
    <2> QED
      BY <2>2, <2>3
  <1>47. CASE UNCHANGED vars
    BY <1>47 DEF vars
  <1> QED
    BY <1>1, <1>2, <1>3, <1>4, <1>5, <1>6, <1>7, <1>8, <1>9, <1>10, <1>11,
       <1>12, <1>13, <1>14, <1>15, <1>16, <1>17, <1>18, <1>19, <1>20, <1>21,
       <1>22, <1>23, <1>24, <1>25, <1>26, <1>27, <1>28, <1>29, <1>30, <1>31,
       <1>32, <1>33, <1>34, <1>35, <1>36, <1>37, <1>38, <1>39, <1>40, <1>41,
       <1>42, <1>43, <1>44, <1>45, <1>46, <1>47
    DEF Next, GameEntry, GameStep, WorkerStep, LuaStep

\* No wake-up is lost.
LEMMA WokenStep == HandOffInv /\ PromiseInv /\ WaitInv /\ [Next]_vars => Woken'
  <1> SUFFICES ASSUME TypeOK, HandOff, PromiseInv, WaitInv, [Next]_vars PROVE Woken'
    BY DEF HandOffInv
  <1> USE DEF TypeOK, ThreadTypeOK, TickTypeOK, HandOff, PromiseInv, MutexHeld, HaltedIsSync,
             Answering, WaitInv, Woken, Fulfilled, Fresh, Promise,
             SyncPoint, GameLabel, WorkerLabel, WorkerBusy, WorkerUsesLua,
             GameWaits, At, Goto, restVars, helperVars, handVars, gameVars,
             pullVars, luaVars, Jump, Unlock, DemoteInAsync, HandBack, Return,
             Ready, TaskIdle, Completable, StopTick, Promote, Start, Halt,
             Yielded, ResetTick, KernelState
  <1>1. CASE KernelTick
    BY <1>1 DEF KernelTick
  <1>2. CASE UserStart
    BY <1>2 DEF UserStart
  <1>3. CASE UserStop
    BY <1>3 DEF UserStop
  <1>4. CASE FutureCrash
    BY <1>4 DEF FutureCrash
  <1>5. CASE PreGarbageCollection
    BY <1>5 DEF PreGarbageCollection
  <1>6. CASE PreSaveGame
    BY <1>6 DEF PreSaveGame
  <1>7. CASE PostTick("post1", "branch")
    BY <1>7 DEF PostTick
  <1>8. CASE PostTick("post2", "idle")
    BY <1>8 DEF PostTick
  <1>9. CASE SetReset
    BY <1>9 DEF SetReset
  <1>10. CASE ProcessorReset
    BY <1>10 DEF ProcessorReset
  <1>11. CASE PostGarbageCollection
    BY <1>11 DEF PostGarbageCollection
  <1>12. CASE Persist
    BY <1>12 DEF Persist
  <1>13. CASE DemoteLock
    BY <1>13 DEF DemoteLock
  <1>14. CASE DemoteFlags
    BY <1>14 DEF DemoteFlags
  <1>15. CASE DemoteEnsure
    BY <1>15 DEF DemoteEnsure
  <1>16. CASE DemoteUnlock
    BY <1>16 DEF DemoteUnlock
  <1>17. CASE PromoteEnsure
    BY <1>17 DEF PromoteEnsure
  <1>18. CASE PromoteLaunch
    BY <1>18 DEF PromoteLaunch
  <1>19. CASE PromoteState
    BY <1>19 DEF PromoteState
  <1>20. CASE Branch
    BY <1>20 DEF Branch
  <1>21. CASE SyncEnsure
    BY <1>21 DEF SyncEnsure
  <1>22. CASE SyncPromote
    BY <1>22 DEF SyncPromote
  <1>23. CASE AsyncRead
    BY <1>23 DEF AsyncRead
  <1>24. CASE Grant
    <2>1. /\ pc' = [pc EXCEPT ![Game] = "awaitAsync"] /\ doSync /\ UNCHANGED doSync
          /\ promise'["SyncAsync"] = Fresh(TRUE)
      BY <1>24 DEF Grant
    <2>2. /\ future'[Game] = "pending"
          /\ future'[Worker] = Ready(promise["AsyncSync"], future, Worker)[Worker]
      BY <1>24 DEF Grant, Thread, Game, Worker
    <2>3. pc[Worker] \in {"release", "await"} => future'[Worker] = "ready"
      BY <2>2 DEF Thread
    <2> QED
      BY <2>1, <2>2, <2>3 DEF Thread, Game, Worker
  <1>25. CASE AwaitAsync
    BY <1>25 DEF AwaitAsync
  <1>26. CASE ClearSync
    BY <1>26 DEF ClearSync
  <1>27. CASE Restart
    BY <1>27 DEF Restart
  <1>28. CASE SyncUnlock
    BY <1>28 DEF SyncUnlock
  <1>29. CASE WorkerStart
    BY <1>29 DEF WorkerStart
  <1>30. CASE WorkerCheck
    BY <1>30 DEF WorkerCheck
  <1>31. CASE WorkerRelease
    BY <1>31 DEF WorkerRelease
  <1>32. CASE WorkerAwait
    BY <1>32 DEF WorkerAwait
  <1>33. CASE WorkerRelock
    BY <1>33 DEF WorkerRelock
  <1>34. CASE WorkerUnlock
    BY <1>34 DEF WorkerUnlock
  <1>35. CASE WorkerHandoff
    BY <1>35 DEF WorkerHandoff
  <1>36. CASE WorkerFlags
    BY <1>36 DEF WorkerFlags
  <1>37. CASE LuaTickBegin(Game, "sLock")
    BY <1>37 DEF LuaTickBegin
  <1>38. CASE LuaTickBegin(Worker, "lock")
    BY <1>38 DEF LuaTickBegin
  <1>39. CASE SignalArrives
    BY <1>39 DEF SignalArrives
  <1>40. CASE TimeoutExpires
    BY <1>40 DEF TimeoutExpires
  <1>41. ASSUME NEW t \in Thread, LuaYield(t) PROVE Woken'
    BY <1>41 DEF LuaYield
  <1>42. ASSUME NEW t \in Thread, LuaEnd(t) PROVE Woken'
    BY <1>42 DEF LuaEnd
  <1>43. ASSUME NEW t \in Thread, LuaPromote(t) PROVE Woken'
    BY <1>43 DEF LuaPromote
  <1>44. ASSUME NEW t \in Thread, LuaPull(t) PROVE Woken'
    BY <1>44 DEF LuaPull
  <1>45. ASSUME NEW t \in Thread, LuaApi(t) PROVE Woken'
    BY <1>45 DEF LuaApi
  <1>46. ASSUME NEW t \in Thread, NEW k \in ApiCall, LuaCall(t, k)
         PROVE Woken'
    <2>1. t = Game => tickState = "SYNC"
      BY <1>46 DEF LuaCall
    <2>2. CASE tickState = "ASYNC"
      <3>1. /\ t = Worker /\ pc' = [pc EXCEPT ![Worker] = "release"]
            /\ doSync'
        BY <1>46, <2>1, <2>2 DEF LuaCall
      <3>2. /\ promise' = [promise EXCEPT !["AsyncSync"] = Fresh(TRUE),
                                         !["SyncAsync"] = Fresh(FALSE)]
            /\ future' = [future EXCEPT ![Worker] = "pending"]
        BY <1>46, <2>1, <2>2 DEF LuaCall
      <3>3. promise'["AsyncSync"] = Fresh(TRUE) /\ ~promise'["SyncAsync"].done
        BY <3>2
      <3> QED
        BY <1>46, <2>2, <3>1, <3>2, <3>3 DEF LuaCall
    <2>3. CASE tickState # "ASYNC"
      <3>1. /\ pc' = [pc EXCEPT ![t] = "api"]
            /\ UNCHANGED <<promise, future, doSync, tickState, overfulfilled>>
        BY <1>46, <2>3 DEF LuaCall
      <3> QED
        BY <1>46, <2>3, <3>1 DEF LuaCall
    <2> QED
      BY <2>2, <2>3
  <1>47. CASE UNCHANGED vars
    BY <1>47 DEF vars
  <1> QED
    BY <1>1, <1>2, <1>3, <1>4, <1>5, <1>6, <1>7, <1>8, <1>9, <1>10, <1>11,
       <1>12, <1>13, <1>14, <1>15, <1>16, <1>17, <1>18, <1>19, <1>20, <1>21,
       <1>22, <1>23, <1>24, <1>25, <1>26, <1>27, <1>28, <1>29, <1>30, <1>31,
       <1>32, <1>33, <1>34, <1>35, <1>36, <1>37, <1>38, <1>39, <1>40, <1>41,
       <1>42, <1>43, <1>44, <1>45, <1>46, <1>47
    DEF Next, GameEntry, GameStep, WorkerStep, LuaStep

\* The invariant of the hand-off between the game and the worker holds in
\* every reachable state (promote, demote, syncTick, asyncTick and demoteInAsync).
THEOREM HandOffHolds == Spec => []HandOffInv
  <1>1. Init => HandOffInv
    BY InitInv
  <1>2. HandOffInv /\ [Next]_vars => HandOffInv'
    BY ThreadTypeStep, TickTypeStep, PullTypeStep, HandOffStep
    DEF HandOffInv, TypeOK
  <1> QED
    BY <1>1, <1>2, PTL DEF Spec

\* Every variable of the scheduler keeps its type.
THEOREM TypeCorrect == Spec => []TypeOK
  <1>1. HandOffInv => TypeOK
    BY DEF HandOffInv
  <1> QED
    BY <1>1, HandOffHolds, PTL

\* One thread at a time is inside the Lua state: LuaTick, Reset() and
\* PreSaveGame() never overlap a Lua tick of the worker, suspended or not.
THEOREM LuaIsExclusive == Spec => []LuaStateExclusive
  <1>1. HandOffInv => LuaStateExclusive
    BY DEF HandOffInv, HandOff, LuaStateExclusive, SyncPoint, WorkerBusy,
           GameUsesLua, GameWaits
  <1> QED
    BY <1>1, HandOffHolds, PTL

\* An API call of a promoted program (FLuaSyncCall) has the game thread to
\* itself, until the Lua tick it is made in is over.
THEOREM SyncCallsHoldGame == Spec => []SyncCallHoldsGame
  <1>1. HandOffInv => SyncCallHoldsGame
    BY DEF HandOffInv, HandOff, SyncCallHoldsGame, WorkerBusy, WorkerUsesLua
  <1> QED
    BY <1>1, HandOffHolds, PTL

\* No worker runs while garbage is collected.
THEOREM CollectionIsAlone == Spec => []CollectedAlone
  <1>1. HandOffInv => CollectedAlone
    BY DEF HandOffInv, HandOff, CollectedAlone, SyncPoint, WorkerBusy, GameWaits
  <1> QED
    BY <1>1, HandOffHolds, PTL

\* The state of the hand-off's flags, promises and mutex in every reachable
\* state.
THEOREM PromiseHolds == Spec => [](HandOffInv /\ PromiseInv)
  <1>1. Init => HandOffInv /\ PromiseInv
    <2>1. Init => PromiseInv
      BY DEF Init, PromiseInv, MutexHeld, HaltedIsSync, Answering,
             WorkerUsesLua, Fulfilled, Thread, Game, Worker
    <2> QED
      BY <2>1, InitInv
  <1>2. HandOffInv /\ PromiseInv /\ [Next]_vars => (HandOffInv /\ PromiseInv)'
    BY ThreadTypeStep, TickTypeStep, PullTypeStep, HandOffStep, MutexStep,
       HaltedStep, AnsweringStep
    DEF HandOffInv, TypeOK, PromiseInv
  <1> QED
    BY <1>1, <1>2, PTL DEF Spec

\* A computer that was stopped, crashed or reset has no worker left and none
\* to come (KernelCrash, KernelStop, Reset() and postTick).
THEOREM HaltedQuietly == Spec => []HaltedIsQuiet
  <1>1. HandOffInv /\ PromiseInv => HaltedIsQuiet
    BY DEF HandOffInv, HandOff, PromiseInv, HaltedIsSync, Answering,
           HaltedIsQuiet, WorkerBusy, GameWaits
  <1> QED
    BY <1>1, PromiseHolds, PTL

\* No promise is fulfilled twice: the check() of EmplaceValue never fails.
THEOREM PromisesFulfilledOnce == Spec => []FulfilledOnce
  <1>1. PromiseInv => FulfilledOnce
    BY DEF PromiseInv, Answering, FulfilledOnce
  <1> QED
    BY <1>1, PromiseHolds, PTL

\* demote() answers the very request the suspended worker waits on.
THEOREM DemoteAnswersWorker == Spec => []DemoteOwnsHandOff
  <1>1. PromiseInv => DemoteOwnsHandOff
    BY DEF PromiseInv, Answering, DemoteOwnsHandOff, Fresh
  <1> QED
    BY <1>1, PromiseHolds, PTL

\* What the waits of the two threads rest on, in every reachable state.
THEOREM WaitsHold == Spec => [](HandOffInv /\ PromiseInv /\ WaitInv)
  <1>1. Init => HandOffInv /\ PromiseInv /\ WaitInv
    <2>1. Init => PromiseInv /\ WaitInv
      BY DEF Init, PromiseInv, MutexHeld, HaltedIsSync, Answering, WaitInv,
             MutexOwned, Woken, WorkerUsesLua, Fulfilled, Thread, Game, Worker
    <2> QED
      BY <2>1, InitInv
  <1>2. HandOffInv /\ PromiseInv /\ WaitInv /\ [Next]_vars
          => (HandOffInv /\ PromiseInv /\ WaitInv)'
    BY ThreadTypeStep, TickTypeStep, PullTypeStep, HandOffStep, MutexStep,
       HaltedStep, AnsweringStep, OwnerStep, WokenStep
    DEF HandOffInv, TypeOK, PromiseInv, WaitInv
  <1> QED
    BY <1>1, <1>2, PTL DEF Spec

\* The game and the worker never wait for each other (TickMutex, AsyncSync,
\* SyncAsync and EnsureCompletion), and no request for the game is forgotten.
THEOREM NobodyIsStuck == Spec => []NeverStuck
  <1>1. HandOffInv /\ PromiseInv /\ WaitInv => NeverStuck
    <2> SUFFICES ASSUME TypeOK, HandOff, PromiseInv, WaitInv PROVE NeverStuck
      BY DEF HandOffInv
    <2> USE DEF TypeOK, ThreadTypeOK, TickTypeOK, GameLabel, WorkerLabel, Thread,
               HandOff, PromiseInv, WaitInv, WorkerBusy, WorkerUsesLua, GameWaits,
               SyncPoint
    <2>1. ~(GameBlocked /\ WorkerBlocked)
      <3>1. ASSUME mutex # "none", pc[Game] \notin {"lua", "api", "end", "pState"}
            PROVE  ~WorkerBlocked
        BY <3>1 DEF WorkerBlocked, MutexOwned, TaskIdle, Game, Worker
      <3>2. ASSUME pc[Game] \in {"dEnsure", "pEnsure", "sEnsure"}, ~Completable
            PROVE  ~WorkerBlocked
        BY <3>1, <3>2 DEF WorkerBlocked, Woken, Completable, TaskIdle, At
      <3>3. ASSUME pc[Game] = "awaitAsync", future[Game] # "ready"
            PROVE  ~WorkerBlocked
        BY <3>1, <3>3 DEF WorkerBlocked, Woken, Answering, TaskIdle
      <3> QED
        BY <3>1, <3>2, <3>3 DEF GameBlocked
    <2>2. ASSUME pc[Worker] = "await", future[Worker] # "ready"
          PROVE  /\ doSync /\ promise["AsyncSync"] = Fresh(TRUE)
                 /\ kernel = "RUNNING" \/ pc[Game] \in {"dLock", "dFlags"}
      <3>1. doSync /\ promise["AsyncSync"] = Fresh(TRUE)
        BY <2>2 DEF Answering
      <3>2. tickState = "SYNC" => pc[Game] = "dFlags"
        BY <2>2 DEF Woken
      <3> QED
        BY <3>1, <3>2 DEF HaltedIsSync
    <2> QED
      BY <2>1, <2>2 DEF NeverStuck
  <1> QED
    BY <1>1, WaitsHold, PTL

\* Every step of the two threads is a step of the lease on the Lua state, or
\* leaves it as it is.
LEMMA LeaseStep ==
  HandOffInv /\ PromiseInv /\ [Next]_vars
    => [Abstract!Next]_<<LeaseOf, \E t \in Thread : pc[t] = "api">>
  <1> DEFINE Api  == \E t \in Thread : pc[t] = "api"
             Step == [Abstract!Next]_<<LeaseOf, Api>>
  <1> SUFFICES ASSUME TypeOK, HandOff, PromiseInv, [Next]_vars PROVE Step
    BY DEF HandOffInv
  <1>0. /\ Api <=> pc[Game] = "api" \/ pc[Worker] = "api"
        /\ Api' <=> pc'[Game] = "api" \/ pc'[Worker] = "api"
    OBVIOUS
  <1> USE DEF TypeOK, ThreadTypeOK, TickTypeOK, HandOff, PromiseInv, MutexHeld,
             SyncPoint, GameLabel, WorkerLabel, WorkerBusy, WorkerUsesLua,
             GameWaits, GameUsesLua, LeaseOf, At, Goto, restVars, helperVars,
             handVars, gameVars, pullVars, luaVars, Jump, Unlock,
             DemoteInAsync, HandBack, Return, Ready, TaskIdle, Completable,
             StopTick, Promote, Start, Halt, Yielded, ResetTick, KernelState,
             Abstract!Next, Abstract!GameTakes, Abstract!GameGives,
             Abstract!WorkerTakes, Abstract!WorkerGives, Abstract!Suspend,
             Abstract!Grant, Abstract!EnterApi, Abstract!LeaveApi
  <1>1. CASE KernelTick
    BY <1>0, <1>1 DEF KernelTick
  <1>2. CASE UserStart
    BY <1>0, <1>2 DEF UserStart
  <1>3. CASE UserStop
    BY <1>0, <1>3 DEF UserStop
  <1>4. CASE FutureCrash
    BY <1>0, <1>4 DEF FutureCrash
  <1>5. CASE PreGarbageCollection
    BY <1>0, <1>5 DEF PreGarbageCollection
  <1>6. CASE PreSaveGame
    BY <1>0, <1>6 DEF PreSaveGame
  <1>7. CASE PostTick("post1", "branch")
    BY <1>0, <1>7 DEF PostTick
  <1>8. CASE PostTick("post2", "idle")
    BY <1>0, <1>8 DEF PostTick
  <1>9. CASE SetReset
    BY <1>0, <1>9 DEF SetReset
  <1>10. CASE ProcessorReset
    BY <1>0, <1>10 DEF ProcessorReset
  <1>11. CASE PostGarbageCollection
    BY <1>0, <1>11 DEF PostGarbageCollection
  <1>12. CASE Persist
    BY <1>0, <1>12 DEF Persist
  <1>13. CASE DemoteLock
    BY <1>0, <1>13 DEF DemoteLock
  <1>14. CASE DemoteFlags
    BY <1>0, <1>14 DEF DemoteFlags
  <1>15. CASE DemoteEnsure
    BY <1>0, <1>15 DEF DemoteEnsure
  <1>16. CASE DemoteUnlock
    BY <1>0, <1>16 DEF DemoteUnlock
  <1>17. CASE PromoteEnsure
    BY <1>0, <1>17 DEF PromoteEnsure
  <1>18. CASE PromoteLaunch
    BY <1>0, <1>18 DEF PromoteLaunch
  <1>19. CASE PromoteState
    BY <1>0, <1>19 DEF PromoteState
  <1>20. CASE Branch
    BY <1>0, <1>20 DEF Branch
  <1>21. CASE SyncEnsure
    BY <1>0, <1>21 DEF SyncEnsure
  <1>22. CASE SyncPromote
    BY <1>0, <1>22 DEF SyncPromote
  <1>23. CASE AsyncRead
    BY <1>0, <1>23 DEF AsyncRead
  <1>24. CASE Grant
    <2>1. /\ pc[Game] = "grant" /\ pc' = [pc EXCEPT ![Game] = "awaitAsync"]
          /\ pc'[Worker] = pc[Worker] /\ pc'[Game] = "awaitAsync"
      BY <1>24 DEF Grant
    <2>2. doSync /\ ~GameWaits /\ ~GameUsesLua
      BY <2>1 DEF Answering
    <2>3. WorkerUsesLua => pc[Worker] \in {"release", "await"}
      BY <2>2 DEF Answering
    <2>4. /\ GameWaits' /\ ~GameUsesLua' /\ (WorkerUsesLua <=> WorkerUsesLua')
          /\ Api <=> Api'
      BY <1>0, <2>1
    <2>5. CASE WorkerUsesLua
      <3>1. LeaseOf = "suspended" /\ LeaseOf' = "granted"
        BY <2>2, <2>3, <2>4, <2>5
      <3>2. UNCHANGED Api
        BY <2>4
      <3> QED
        BY <3>1, <3>2
    <2>6. CASE ~WorkerUsesLua
      <3>1. LeaseOf = "free" /\ LeaseOf' = "free"
        BY <2>2, <2>4, <2>6
      <3> QED
        BY <2>4, <3>1
    <2> QED
      BY <2>5, <2>6
  <1>25. CASE AwaitAsync
    BY <1>0, <1>25 DEF AwaitAsync
  <1>26. CASE ClearSync
    BY <1>0, <1>26 DEF ClearSync
  <1>27. CASE Restart
    BY <1>0, <1>27 DEF Restart
  <1>28. CASE SyncUnlock
    BY <1>0, <1>28 DEF SyncUnlock
  <1>29. CASE WorkerStart
    BY <1>0, <1>29 DEF WorkerStart
  <1>30. CASE WorkerCheck
    BY <1>0, <1>30 DEF WorkerCheck
  <1>31. CASE WorkerRelease
    BY <1>0, <1>31 DEF WorkerRelease
  <1>32. CASE WorkerAwait
    BY <1>0, <1>32 DEF WorkerAwait
  <1>33. CASE WorkerRelock
    BY <1>0, <1>33 DEF WorkerRelock
  <1>34. CASE WorkerUnlock
    BY <1>0, <1>34 DEF WorkerUnlock
  <1>35. CASE WorkerHandoff
    BY <1>0, <1>35 DEF WorkerHandoff
  <1>36. CASE WorkerFlags
    BY <1>0, <1>36 DEF WorkerFlags
  <1>37. CASE LuaTickBegin(Game, "sLock")
    BY <1>0, <1>37 DEF LuaTickBegin
  <1>38. CASE LuaTickBegin(Worker, "lock")
    BY <1>0, <1>38 DEF LuaTickBegin
  <1>39. CASE SignalArrives
    BY <1>0, <1>39 DEF SignalArrives
  <1>40. CASE TimeoutExpires
    BY <1>0, <1>40 DEF TimeoutExpires
  <1>41. ASSUME NEW t \in Thread, LuaYield(t) PROVE Step
    BY <1>0, <1>41 DEF LuaYield
  <1>42. ASSUME NEW t \in Thread, LuaEnd(t) PROVE Step
    BY <1>0, <1>42 DEF LuaEnd
  <1>43. ASSUME NEW t \in Thread, LuaPromote(t) PROVE Step
    BY <1>0, <1>43 DEF LuaPromote
  <1>44. ASSUME NEW t \in Thread, LuaPull(t) PROVE Step
    BY <1>0, <1>44 DEF LuaPull
  <1>45. ASSUME NEW t \in Thread, LuaApi(t) PROVE Step
    BY <1>0, <1>45 DEF LuaApi
  <1>46. ASSUME NEW t \in Thread, NEW k \in ApiCall, LuaCall(t, k)
         PROVE Step
    BY <1>0, <1>46 DEF LuaCall
  <1>47. CASE UNCHANGED vars
    BY <1>0, <1>47 DEF vars
  <1> QED
    BY <1>1, <1>2, <1>3, <1>4, <1>5, <1>6, <1>7, <1>8, <1>9, <1>10, <1>11,
       <1>12, <1>13, <1>14, <1>15, <1>16, <1>17, <1>18, <1>19, <1>20, <1>21,
       <1>22, <1>23, <1>24, <1>25, <1>26, <1>27, <1>28, <1>29, <1>30, <1>31,
       <1>32, <1>33, <1>34, <1>35, <1>36, <1>37, <1>38, <1>39, <1>40, <1>41,
       <1>42, <1>43, <1>44, <1>45, <1>46, <1>47
    DEF Next, GameEntry, GameStep, WorkerStep, LuaStep

\* The tick helper and its worker implement the lease (LuaLease): at most one
\* user of the Lua state, and API calls only on or under the game thread.
THEOREM SchedulerImplementsLease == Spec => ImplementsLease
  <1>1. Init => Abstract!Init
    BY DEF Init, Abstract!Init, LeaseOf, GameUsesLua, WorkerUsesLua
  <1> QED
    BY <1>1, LeaseStep, PromiseHolds, PTL
    DEF Spec, ImplementsLease, Abstract!Spec
=============================================================================
