---------------------------- MODULE ScreenBinding ----------------------------
(***************************************************************************)
(* A GPU knows the screen it draws on and a screen the GPU it shows.  Each *)
(* tells the other by calling it, and is called back from inside that      *)
(* call: BindScreen, UpdateScreen and BindGPU recurse through each other   *)
(* and nothing but the order of their assignments ends them.  A program's  *)
(* bindScreen is a future, which its computer handles in a tick of the     *)
(* game; buildings go, and games are loaded, between ticks.                *)
(***************************************************************************)
EXTENDS Naturals, Sequences

CONSTANTS
  Gpus, Screens,     \* GPUs and screens of any kind
  Threads,           \* threads that handle futures: one, in this code
  Game,              \* the thread that runs everything else
  NoOne,             \* the empty trace
  MaxNest            \* calls that fit on the stack of a thread

ASSUME BindingAssumptions ==
  /\ Gpus \cap Screens = {}
  /\ NoOne \notin Gpus \cup Screens
  /\ Game \notin Threads
  /\ MaxNest \in Nat

VARIABLES
  Screen,            \* of each GPU
  OldScreenCache,    \* of each GPU: the screen it last told
  GPU,               \* of each screen
  calls,             \* of each thread: the calls under way, innermost first
  alive,             \* GPUs and screens that have not been destroyed
  pending            \* GPUs that are loaded and have not begun play

vars == <<Screen, OldScreenCache, GPU, calls, alive, pending>>
traces == <<Screen, OldScreenCache, GPU>>

AllThreads == Threads \cup {Game}
NoCalls == [t \in AllThreads |-> <<>>]

\* A call: where in which function, of which object, with which argument.
Call(at, self, arg) == [at |-> at, self |-> self, arg |-> arg]
Top(t) == calls[t][1]
At(t, label) == calls[t] # <<>> /\ Top(t).at = label

\* Thread t goes on with the given calls in place of its innermost one.
Instead(t, new) == calls' = [calls EXCEPT ![t] = new \o Tail(calls[t])]
Returned(t) == Instead(t, <<>>)

\* IsValidPtr: a trace may still point to an object that is gone.
IsValidPtr(o) == o \in alive

Init ==
  /\ Screen = [g \in Gpus |-> NoOne] /\ OldScreenCache = Screen
  /\ GPU = [s \in Screens |-> NoOne]
  /\ calls = NoCalls
  /\ alive = Gpus \cup Screens
  /\ pending = {}
-----------------------------------------------------------------------------
(* The three functions, cut where they call each other.                    *)

\* Bug: a GPU that is told again what it knows tells its screen again.
BindScreen_Always(t) ==
  LET g == Top(t).self
  IN /\ At(t, "BindScreen")
     /\ Screen' = [Screen EXCEPT ![g] = Top(t).arg]
     /\ Instead(t, <<Call("UpdateScreen", g, NoOne)>>)
     /\ UNCHANGED <<OldScreenCache, GPU, alive, pending>>

\* BindScreen of a GPU; its UpdateScreen is a tail call.
BindScreen(t) ==
  LET g == Top(t).self
      screen == Top(t).arg
  IN /\ At(t, "BindScreen")
     /\ IF Screen[g] = screen
          THEN Returned(t) /\ UNCHANGED Screen
          ELSE /\ Screen' = [Screen EXCEPT ![g] = screen]
               /\ Instead(t, <<Call("UpdateScreen", g, NoOne)>>)
     /\ UNCHANGED <<OldScreenCache, GPU, alive, pending>>

\* UpdateScreen clears Screen, so that the old screen's call back finds nothing
\* to do, and tells the old screen.
UpdateScreen(t) ==
  LET g == Top(t).self
      newScreen == Screen[g]
      old == OldScreenCache[g]
  IN /\ At(t, "UpdateScreen")
     /\ Screen' = [Screen EXCEPT ![g] = NoOne]
     /\ Instead(t, (IF IsValidPtr(old) THEN <<Call("BindGPU", old, NoOne)>>
                                       ELSE <<>>)
                   \o <<Call("released", g, newScreen)>>)
     /\ UNCHANGED <<OldScreenCache, GPU, alive, pending>>

\* Bug: the GPU does not note whom it told.
TellScreen_NoCache(t) ==
  LET g == Top(t).self
      newScreen == Top(t).arg
  IN /\ At(t, "released")
     /\ Screen' = [Screen EXCEPT ![g] = newScreen]
     /\ Instead(t, IF IsValidPtr(newScreen)
                     THEN <<Call("BindGPU", newScreen, g)>> ELSE <<>>)
     /\ UNCHANGED <<OldScreenCache, GPU, alive, pending>>

\* ... and goes on with the new screen.
TellScreen(t) ==
  LET g == Top(t).self
      newScreen == Top(t).arg
  IN /\ At(t, "released")
     /\ Screen' = [Screen EXCEPT ![g] = newScreen]
     /\ OldScreenCache' = [OldScreenCache EXCEPT ![g] = newScreen]
     /\ Instead(t, IF IsValidPtr(newScreen)
                     THEN <<Call("BindGPU", newScreen, g)>> ELSE <<>>)
     /\ UNCHANGED <<GPU, alive, pending>>

\* BindGPU of a screen clears GPU and tells the old one.
BindGPU(t) ==
  LET s == Top(t).self
      gpu == Top(t).arg
      oldGPU == GPU[s]
  IN /\ At(t, "BindGPU")
     /\ IF oldGPU = gpu
          THEN Returned(t) /\ UNCHANGED GPU
          ELSE /\ GPU' = [GPU EXCEPT ![s] = NoOne]
               /\ Instead(t, (IF IsValidPtr(oldGPU)
                                THEN <<Call("BindScreen", oldGPU, NoOne)>>
                                ELSE <<>>)
                             \o <<Call("freed", s, gpu)>>)
     /\ UNCHANGED <<Screen, OldScreenCache, alive, pending>>

\* ... and goes on with the new GPU.
TellGPU(t) ==
  LET s == Top(t).self
      gpu == Top(t).arg
  IN /\ At(t, "freed")
     /\ GPU' = [GPU EXCEPT ![s] = gpu]
     /\ Instead(t, IF IsValidPtr(gpu) THEN <<Call("BindScreen", gpu, s)>>
                                      ELSE <<>>)
     /\ UNCHANGED <<Screen, OldScreenCache, alive, pending>>

\* A thread whose stack is full does not go on.
CallStep(t) ==
  /\ Len(calls[t]) < MaxNest
  /\ \/ BindScreen(t) \/ UpdateScreen(t) \/ TellScreen(t)
     \/ BindGPU(t) \/ TellGPU(t)
-----------------------------------------------------------------------------
Quiet == calls = NoCalls

\* The future of a program's bindScreen of a GPU is handled, with a screen, with
\* nothing, or with the handle of a screen that is gone.  (The screen that a
\* vanilla sign gets for it is left out.)
netFunc_bindScreen(t, g, screen) ==
  /\ calls[Game] = <<>> /\ pending = {}
  /\ calls[t] = <<>>
  /\ g \in alive
  /\ calls' = [calls EXCEPT ![t] = <<Call("BindScreen", g, screen)>>]
  /\ UNCHANGED <<Screen, OldScreenCache, GPU, alive, pending>>

\* A GPU or screen is dismantled: EndPlay unbinds it.
EndPlay(o) ==
  /\ Quiet /\ pending = {} /\ o \in alive
  /\ calls' = [calls EXCEPT ![Game] =
       <<Call(IF o \in Gpus THEN "BindScreen" ELSE "BindGPU", o, NoOne),
         Call("destroyed", o, NoOne)>>]
  /\ UNCHANGED <<Screen, OldScreenCache, GPU, alive, pending>>

\* The object is gone once its EndPlay has returned.
Destroyed ==
  /\ At(Game, "destroyed")
  /\ alive' = alive \ {Top(Game).self}
  /\ Returned(Game)
  /\ UNCHANGED <<Screen, OldScreenCache, GPU, pending>>

\* The collector empties the traces to objects that are gone.
CollectGarbage ==
  LET Kept(f) == [o \in DOMAIN f |-> IF f[o] \in alive THEN f[o] ELSE NoOne]
  IN /\ Quiet
     /\ Screen' = Kept(Screen) /\ OldScreenCache' = Kept(OldScreenCache)
     /\ GPU' = Kept(GPU)
     /\ traces' # traces
     /\ UNCHANGED <<calls, alive, pending>>

\* A save holds the Screen of each GPU and nothing else of a binding.
Load ==
  /\ Quiet
  /\ Screen' = [g \in Gpus |-> IF Screen[g] \in alive THEN Screen[g] ELSE NoOne]
  /\ OldScreenCache' = [g \in Gpus |-> NoOne]
  /\ GPU' = [s \in Screens |-> NoOne]
  /\ pending' = Gpus \cap alive
  /\ UNCHANGED <<calls, alive>>

\* A loaded GPU begins play and binds its screen again, in any order.
BeginPlay(g) ==
  /\ Quiet /\ g \in pending
  /\ pending' = pending \ {g}
  /\ calls' = [calls EXCEPT ![Game] = <<Call("UpdateScreen", g, NoOne)>>]
  /\ UNCHANGED <<Screen, OldScreenCache, GPU, alive>>

Next ==
  \/ \E t \in AllThreads : CallStep(t)
  \/ \E t \in Threads, g \in Gpus, s \in Screens \cup {NoOne} :
       netFunc_bindScreen(t, g, s)
  \/ \E o \in Gpus \cup Screens : EndPlay(o)
  \/ Destroyed \/ CollectGarbage \/ Load
  \/ \E g \in Gpus : BeginPlay(g)

Spec == Init /\ [][Next]_vars
\* A thread that is inside a call keeps running.
FairSpec ==
  /\ Spec
  /\ \A t \in AllThreads : WF_vars(CallStep(t))
  /\ WF_vars(Destroyed)
-----------------------------------------------------------------------------
Labels == {"BindScreen", "UpdateScreen", "released", "BindGPU", "freed",
           "destroyed"}

\* Every trace holds an object of its kind or nothing, every call one of the
\* places where the functions are cut.
TypeOK ==
  /\ Screen \in [Gpus -> Screens \cup {NoOne}]
  /\ OldScreenCache \in [Gpus -> Screens \cup {NoOne}]
  /\ GPU \in [Screens -> Gpus \cup {NoOne}]
  /\ alive \subseteq Gpus \cup Screens /\ pending \subseteq Gpus \cap alive
  /\ \A t \in AllThreads : \A i \in DOMAIN calls[t] :
       calls[t][i].at \in Labels /\ calls[t][i].self \in alive

\* When no call is under way a GPU and a screen agree: a screen shows the GPU
\* that draws on it, so no two GPUs hold one screen, and a GPU that lost its
\* screen to another one knows it.  Binding to a screen in use, binding back
\* from inside a call, dismantling either side and the GPUs of a loaded game
\* that begin play one after the other must all end so.
MutuallyBound ==
  Quiet /\ pending = {} =>
    \A g \in Gpus \cap alive, s \in Screens \cap alive :
      Screen[g] = s <=> GPU[s] = g

\* However BindScreen, UpdateScreen and BindGPU call each other, the outermost
\* call returns: neither do they go round for ever, nor is the stack used up.
CallsReturn == \A t \in AllThreads : calls[t] # <<>> ~> calls[t] = <<>>
-----------------------------------------------------------------------------
(* Why they return.                                                        *)

\* At most so many steps are left of BindGPU of s with g, of the second half of
\* UpdateScreen with the new screen x, and of a call.  "destroyed" is none of them.
Telling(s, g) == IF s \in Screens /\ GPU[s] # g THEN 7 ELSE 1
Handing(x)    == IF x = NoOne THEN 1 ELSE 8
StepsOf(call) ==
  CASE call.at = "BindScreen" /\ Screen[call.self] # call.arg ->
         2 + Telling(OldScreenCache[call.self], NoOne) + Handing(call.arg)
    [] call.at = "BindScreen" /\ Screen[call.self] = call.arg -> 1
    [] call.at = "UpdateScreen" ->
         1 + Telling(OldScreenCache[call.self], NoOne) + Handing(Screen[call.self])
    [] call.at = "released"  -> Handing(call.arg)
    [] call.at = "BindGPU"   -> Telling(call.self, call.arg)
    [] call.at = "freed"     -> IF call.arg = NoOne THEN 1 ELSE 2
    [] call.at = "destroyed" -> 0

\* No more than four calls are ever nested.
StepsAt(t, i) == IF i \in DOMAIN calls[t] THEN StepsOf(calls[t][i]) ELSE 0
StepsLeft(t)  == StepsAt(t, 1) + StepsAt(t, 2) + StepsAt(t, 3) + StepsAt(t, 4)

\* Why the calls return: each step of a thread in them is one of at most
\* seventeen, so that they do not call each other for ever.
CallsEnd == /\ [](\A t \in AllThreads : StepsLeft(t) \in 0 .. 17)
            /\ [][\A t \in AllThreads :
                   CallStep(t) => StepsLeft(t)' < StepsLeft(t)]_vars

=============================================================================
