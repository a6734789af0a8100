------------------------ MODULE ScreenBinding_proofs ------------------------
(***************************************************************************)
(* Proofs about ScreenBinding, for any number of GPUs and screens, when    *)
(* one thread handles futures, as the game thread does.                    *)
(*                                                                         *)
(* BindScreen, UpdateScreen and BindGPU call each other, yet only a few    *)
(* stacks of calls ever come to be.  BindInv lists them: for each it says  *)
(* which object is between two bindings, and that all the others agree     *)
(* (Settled).  One lemma per stack shows that its innermost call leads to  *)
(* the next of them.  No stack holds more than four calls, so the          *)
(* recursion ends.                                                         *)
(***************************************************************************)
EXTENDS ScreenBinding, SequenceTheorems, TLAPS

\* Only one thread handles the futures of programs.
OneThread == \A t, u \in Threads : t = u

Screens0 == Screens \cup {NoOne}
Gpus0 == Gpus \cup {NoOne}

Traces ==
  /\ Screen \in [Gpus -> Screens0]
  /\ OldScreenCache \in [Gpus -> Screens0]
  /\ GPU \in [Screens -> Gpus0]
  /\ alive \subseteq Gpus \cup Screens /\ pending \subseteq Gpus \cap alive

CallSet == [at : Labels, self : Gpus \cup Screens,
            arg : Gpus \cup Screens \cup {NoOne}]

\* Thread t is inside the given calls, every other thread inside none.
Stacks(t, stack) == [u \in AllThreads |-> IF u = t THEN stack ELSE <<>>]
Busy(t, stack)   == calls = Stacks(t, stack)

\* The calls under those that bind something: none, or the end of an object.
Bottom == {<<>>} \cup {<<Call("destroyed", o, NoOne)>> : o \in Gpus \cup Screens}

\* What GPUs hold, those in R left out.
Without(f, R) == [g \in Gpus |-> IF g \in R THEN NoOne ELSE f[g]]

\* The bindings S of the GPUs, what they last told, C, and those of the screens,
\* G, agree for the objects A.  A loaded GPU that has not begun play (P) has told
\* nobody yet.
Agree(S, C, G, A, P) ==
  /\ \A g \in Gpus \cap A : C[g] = IF g \in P THEN NoOne ELSE S[g]
  /\ \A s \in Screens \cap A : G[s] \in (Gpus \cap A) \cup {NoOne}
  /\ \A g \in Gpus \cap A, s \in Screens \cap A :
       G[s] = g <=> S[g] = s /\ g \notin P
  /\ \A g, h \in Gpus \cap A :
       S[g] = S[h] /\ S[g] \in Screens \cap A => g = h

Settled(S, C) == Agree(S, C, GPU, alive, pending)

\* No loaded GPU waits for the screen x.
Unclaimed(x) == x \in alive => \A h \in pending : Screen[h] # x

-----------------------------------------------------------------------------
(* The stacks of calls.                                                    *)

\* Below calls that bind g to x: nothing, or the end of g.
BelowGpu(D, g, x) ==
  \/ D = <<>>
  \/ D = <<Call("destroyed", g, NoOne)>> /\ x = NoOne /\ pending = {}

\* Below calls that bind the screen x to g: nothing, or the end of x.
BelowScreen(D, g, x) ==
  \/ D = <<>>
  \/ D = <<Call("destroyed", x, NoOne)>> /\ g = NoOne /\ pending = {}

\* BindScreen of g with x, while all agree.
Binding(t, D, g, x) ==
  /\ g \in alive /\ BelowGpu(D, g, x)
  /\ pending = {} \/ (Screen[g] = x /\ g \notin pending)
  /\ Busy(t, <<Call("BindScreen", g, x)>> \o D)
  /\ Settled(Screen, OldScreenCache)

\* UpdateScreen of g, which holds x and has told nobody of it yet.
Announcing(t, D, g, x) ==
  /\ g \in alive \ pending /\ BelowGpu(D, g, x) /\ Unclaimed(x)
  /\ Screen[g] = x
  /\ Busy(t, <<Call("UpdateScreen", g, NoOne)>> \o D)
  /\ Settled([Screen EXCEPT ![g] = OldScreenCache[g]], OldScreenCache)

\* The old screen of g is told to let go of it.
Leaving(t, D, g, x) ==
  LET old == OldScreenCache[g]
  IN /\ g \in alive \ pending /\ BelowGpu(D, g, x) /\ Unclaimed(x)
     /\ Screen[g] = NoOne /\ old \in alive
     /\ Busy(t, <<Call("BindGPU", old, NoOne)>>
                  \o (<<Call("released", g, x)>> \o D))
     /\ Settled([Screen EXCEPT ![g] = old], OldScreenCache)

\* The old screen c has let go of g, and calls it back or not.
Released(t, D, g, x) ==
  /\ g \in alive \ pending /\ BelowGpu(D, g, x) /\ Unclaimed(x)
  /\ Screen[g] = NoOne
  /\ Settled(Screen, Without(OldScreenCache, {g}))
  /\ LET rest == <<Call("released", g, x)>> \o D
     IN \/ Busy(t, rest)
        \/ \E c \in Screens \cap alive :
             /\ GPU[c] = NoOne
             /\ \/ Busy(t, <<Call("freed", c, NoOne)>> \o rest)
                \/ Busy(t, <<Call("BindScreen", g, NoOne)>>
                             \o (<<Call("freed", c, NoOne)>> \o rest))

\* The screen x takes g, which holds it already, or nothing.
Holds(g, x) ==
  g # NoOne => g \in alive \ pending /\ Screen[g] = x /\ OldScreenCache[g] = x

Taking(t, D, g, x) ==
  /\ x \in alive /\ Holds(g, x) /\ BelowScreen(D, g, x) /\ Unclaimed(x)
  /\ Settled(Without(Screen, {g}), Without(OldScreenCache, {g}))
  /\ \/ Busy(t, <<Call("BindGPU", x, g)>> \o D)
     \/ Busy(t, <<Call("freed", x, g)>> \o D) /\ GPU[x] = NoOne

\* Before it does, the GPU o that held x lets go of it.
LettingGo(t, D, g, x, o) ==
  /\ x \in alive /\ Holds(g, x) /\ BelowScreen(D, g, x) /\ Unclaimed(x)
  /\ o \in alive \ pending /\ o # g
  /\ OldScreenCache[o] = x /\ GPU[x] = NoOne
  /\ Settled(Without(Screen, {g, o}), Without(OldScreenCache, {g, o}))
  /\ LET rest == <<Call("freed", x, g)>> \o D
     IN \/ Screen[o] = x /\ Busy(t, <<Call("BindScreen", o, NoOne)>> \o rest)
        \/ /\ Screen[o] = NoOne
           /\ \/ Busy(t, <<Call("UpdateScreen", o, NoOne)>> \o rest)
              \/ Busy(t, <<Call("BindGPU", x, NoOne)>>
                           \o (<<Call("released", o, NoOne)>> \o rest))

\* ... and notes that it holds nothing.
Letting(t, D, g, x, o) ==
  /\ x \in alive /\ Holds(g, x) /\ BelowScreen(D, g, x) /\ Unclaimed(x)
  /\ o \in alive \ pending /\ o # g /\ Screen[o] = NoOne /\ GPU[x] = NoOne
  /\ Settled(Without(Screen, {g, o}), Without(OldScreenCache, {g, o}))
  /\ Busy(t, <<Call("released", o, NoOne)>> \o (<<Call("freed", x, g)>> \o D))

\* The object o is about to go.
Going(t, o) ==
  /\ Busy(t, <<Call("destroyed", o, NoOne)>>)
  /\ pending = {} /\ Settled(Screen, OldScreenCache)
  /\ o \in Gpus => Screen[o] = NoOne

Resting == Quiet /\ Settled(Screen, OldScreenCache)

BindInv ==
  /\ Traces
  /\ \/ Resting
     \/ \E t \in AllThreads, D \in Bottom :
          \/ \E g \in Gpus, x \in Screens0 :
               \/ Binding(t, D, g, x) \/ Announcing(t, D, g, x)
               \/ Leaving(t, D, g, x) \/ Released(t, D, g, x)
          \/ \E g \in Gpus0, x \in Screens :
               \/ Taking(t, D, g, x)
               \/ \E o \in Gpus : LettingGo(t, D, g, x, o)
                                    \/ Letting(t, D, g, x, o)
     \/ \E t \in AllThreads, o \in Gpus \cup Screens : Going(t, o)

-----------------------------------------------------------------------------
(* What the innermost call does to the stack.                              *)

LEMMA CallType ==
  ASSUME NEW l \in Labels, NEW o \in Gpus \cup Screens,
         NEW a \in Gpus \cup Screens \cup {NoOne}
  PROVE  /\ Call(l, o, a) \in CallSet
         /\ Call(l, o, a).at = l /\ Call(l, o, a).self = o
         /\ Call(l, o, a).arg = a
  BY DEF Call, CallSet

LEMMA BottomType ==
  ASSUME NEW D \in Bottom
  PROVE  D \in Seq(CallSet)
  <1>1. "destroyed" \in Labels
    BY DEF Labels
  <1>2. \A o \in Gpus \cup Screens : Call("destroyed", o, NoOne) \in CallSet
    BY <1>1, CallType
  <1>3. \A a \in CallSet : <<a>> \in Seq(CallSet)
    OBVIOUS
  <1>4. <<>> \in Seq(CallSet)
    OBVIOUS
  <1> QED
    BY <1>2, <1>3, <1>4 DEF Bottom

\* A call put on a stack is its innermost one.
LEMMA PushType ==
  ASSUME NEW a \in CallSet, NEW rest \in Seq(CallSet)
  PROVE  /\ <<a>> \o rest \in Seq(CallSet) /\ <<a>> \o rest # <<>>
         /\ (<<a>> \o rest)[1] = a /\ Tail(<<a>> \o rest) = rest
  <1>1. <<a>> \in Seq(CallSet) /\ Len(<<a>>) = 1 /\ <<a>>[1] = a
    OBVIOUS
  <1>2. PICK n \in Nat : n = Len(rest)
    BY LenProperties
  <1>3. /\ <<a>> \o rest \in Seq(CallSet) /\ Len(<<a>> \o rest) = 1 + n
        /\ \A i \in 1 .. 1 + n :
             (<<a>> \o rest)[i] = IF i <= 1 THEN a ELSE rest[i - 1]
    BY <1>1, <1>2, ConcatProperties
  <1> DEFINE s == <<a>> \o rest
  <1> HIDE DEF s
  <1>4. /\ s \in Seq(CallSet) /\ Len(s) = 1 + n
        /\ \A i \in 1 .. 1 + n : s[i] = IF i <= 1 THEN a ELSE rest[i - 1]
    BY <1>3 DEF s
  <1>5. s # <<>> /\ s[1] = a
    BY <1>4
  <1>6. /\ Tail(s) \in Seq(CallSet) /\ Len(Tail(s)) = n
        /\ \A i \in 1 .. n : Tail(s)[i] = s[i + 1]
    BY <1>4, <1>5, HeadTailProperties
  <1>7. \A i \in 1 .. n : Tail(s)[i] = rest[i]
    BY <1>4, <1>6
  <1>8. Tail(s) = rest
    BY <1>2, <1>6, <1>7, SeqEqual
  <1> QED
    BY <1>4, <1>5, <1>8 DEF s

\* The innermost call of a busy thread.
LEMMA BusyTop ==
  ASSUME NEW t \in AllThreads, NEW a \in CallSet, NEW rest \in Seq(CallSet),
         Busy(t, <<a>> \o rest)
  PROVE  /\ calls[t] # <<>> /\ Top(t) = a /\ Tail(calls[t]) = rest
         /\ \A l : At(t, l) <=> a.at = l
         /\ \A u \in AllThreads : u # t => calls[u] = <<>>
         /\ calls # NoCalls
         /\ \A new : Instead(t, new) => calls' = Stacks(t, new \o rest)
  <1>1. calls[t] = <<a>> \o rest
    BY DEF Busy, Stacks
  <1>2. calls[t] # <<>> /\ Top(t) = a /\ Tail(calls[t]) = rest
    BY <1>1, PushType DEF Top
  <1>3. \A u \in AllThreads : u # t => calls[u] = <<>>
    BY DEF Busy, Stacks
  <1>4. \A new : Instead(t, new) => calls' = Stacks(t, new \o rest)
    BY <1>2 DEF Instead, Busy, Stacks
  <1> QED
    BY <1>2, <1>3, <1>4 DEF At, NoCalls

LEMMA TwoCalls ==
  ASSUME NEW a \in CallSet, NEW b \in CallSet, NEW rest \in Seq(CallSet)
  PROVE  (<<a>> \o <<b>>) \o rest = <<a>> \o (<<b>> \o rest)
  <1>1. <<a>> \in Seq(CallSet) /\ <<b>> \in Seq(CallSet)
    OBVIOUS
  <1> QED
    BY <1>1, ConcatAssociative

LEMMA NoCall ==
  ASSUME NEW rest \in Seq(CallSet)
  PROVE  /\ <<>> \o rest = rest
         /\ \A a \in CallSet : <<>> \o <<a>> = <<a>>
  <1>1. \A a \in CallSet : <<a>> \in Seq(CallSet)
    OBVIOUS
  <1> QED
    BY <1>1, ConcatEmptySeq

\* Only the step of its innermost call happens while a thread is inside calls.
LEMMA BusyOnly ==
  ASSUME OneThread, NEW t \in AllThreads, NEW a \in CallSet,
         NEW rest \in Seq(CallSet), Busy(t, <<a>> \o rest), Next,
         a.at # "destroyed"
  PROVE  CallStep(t)
  <1>1. ~Quiet
    BY BusyTop DEF Quiet
  <1>2. \A u \in AllThreads : CallStep(u) => u = t
    BY BusyTop DEF CallStep, BindScreen, UpdateScreen, TellScreen, BindGPU,
                   TellGPU, At
  <1>3. ~Destroyed
    <2>1. Game \in AllThreads
      BY DEF AllThreads
    <2> QED
      BY <2>1, BusyTop DEF Destroyed, At
  <1>4. ASSUME NEW u \in Threads, NEW g \in Gpus, NEW s \in Screens \cup {NoOne},
               netFunc_bindScreen(u, g, s)
        PROVE  FALSE
    <2>1. calls[Game] = <<>> /\ calls[u] = <<>>
      BY <1>4 DEF netFunc_bindScreen
    <2>2. calls[t] # <<>>
      BY BusyTop
    <2> QED
      BY <2>1, <2>2 DEF OneThread, AllThreads
  <1> QED
    BY <1>1, <1>2, <1>3, <1>4 DEF Next, EndPlay, CollectGarbage, Load, BeginPlay

LEMMA DoBindScreen ==
  ASSUME NEW t \in AllThreads, NEW g \in Gpus, NEW x \in Screens0,
         NEW rest \in Seq(CallSet),
         Busy(t, <<Call("BindScreen", g, x)>> \o rest), CallStep(t)
  PROVE  /\ UNCHANGED <<OldScreenCache, GPU, alive, pending>>
         /\ \/ Screen[g] = x /\ calls' = Stacks(t, rest) /\ UNCHANGED Screen
            \/ /\ Screen[g] # x /\ Screen' = [Screen EXCEPT ![g] = x]
               /\ calls' = Stacks(t, <<Call("UpdateScreen", g, NoOne)>> \o rest)
  <1> DEFINE a == Call("BindScreen", g, x)
  <1>1. a \in CallSet /\ a.at = "BindScreen" /\ a.self = g /\ a.arg = x
    BY CallType DEF Screens0, Labels
  <1> HIDE DEF a
  <1>2. /\ Top(t) = a /\ \A l : At(t, l) <=> a.at = l
        /\ \A new : Instead(t, new) => calls' = Stacks(t, new \o rest)
    BY <1>1, BusyTop DEF a
  <1>3. BindScreen(t)
    BY <1>1, <1>2 DEF CallStep, UpdateScreen, TellScreen, BindGPU, TellGPU
  <1> QED
    BY <1>1, <1>2, <1>3, NoCall DEF BindScreen, Returned

LEMMA DoUpdateScreen ==
  ASSUME Traces, NEW t \in AllThreads, NEW g \in Gpus, NEW rest \in Seq(CallSet),
         Busy(t, <<Call("UpdateScreen", g, NoOne)>> \o rest), CallStep(t)
  PROVE  LET old == OldScreenCache[g]
             on  == <<Call("released", g, Screen[g])>> \o rest
         IN /\ UNCHANGED <<OldScreenCache, GPU, alive, pending>>
            /\ Screen' = [Screen EXCEPT ![g] = NoOne]
            /\ \/ old \notin alive /\ calls' = Stacks(t, on)
               \/ /\ old \in alive
                  /\ calls' = Stacks(t, <<Call("BindGPU", old, NoOne)>> \o on)
  <1> DEFINE a   == Call("UpdateScreen", g, NoOne)
             old == OldScreenCache[g]
             b   == Call("BindGPU", old, NoOne)
             c   == Call("released", g, Screen[g])
  <1>1. a \in CallSet /\ a.at = "UpdateScreen" /\ a.self = g
    BY CallType DEF Labels
  <1>2. c \in CallSet
    BY CallType DEF Labels, Traces, Screens0
  <1>3. old \in alive => b \in CallSet
    BY CallType DEF Labels, Traces
  <1> HIDE DEF a, b, c
  <1>4. /\ Top(t) = a /\ \A l : At(t, l) <=> a.at = l
        /\ \A new : Instead(t, new) => calls' = Stacks(t, new \o rest)
    BY <1>1, BusyTop DEF a
  <1>5. UpdateScreen(t)
    BY <1>1, <1>4 DEF CallStep, BindScreen, TellScreen, BindGPU, TellGPU
  <1>6. /\ UNCHANGED <<OldScreenCache, GPU, alive, pending>>
        /\ Screen' = [Screen EXCEPT ![g] = NoOne]
        /\ Instead(t, (IF old \in alive THEN <<b>> ELSE <<>>) \o <<c>>)
    BY <1>1, <1>4, <1>5 DEF UpdateScreen, IsValidPtr, b, c
  <1>7. CASE old \in alive
    <2>1. Instead(t, <<b>> \o <<c>>)
      BY <1>6, <1>7
    <2>2. calls' = Stacks(t, (<<b>> \o <<c>>) \o rest)
      BY <1>4, <2>1
    <2>3. (<<b>> \o <<c>>) \o rest = <<b>> \o (<<c>> \o rest)
      BY <1>2, <1>3, <1>7, TwoCalls
    <2>4. calls' = Stacks(t, <<b>> \o (<<c>> \o rest))
      BY <2>2, <2>3
    <2> QED
      BY <1>6, <1>7, <2>4 DEF b, c
  <1>8. CASE old \notin alive
    <2>1. Instead(t, <<c>>)
      BY <1>2, <1>6, <1>8, NoCall
    <2>2. calls' = Stacks(t, <<c>> \o rest)
      BY <1>4, <2>1
    <2> QED
      BY <1>6, <1>8, <2>2 DEF c
  <1> QED
    BY <1>7, <1>8

LEMMA DoTellScreen ==
  ASSUME NEW t \in AllThreads, NEW g \in Gpus, NEW x \in Screens0,
         NEW rest \in Seq(CallSet),
         Busy(t, <<Call("released", g, x)>> \o rest), CallStep(t)
  PROVE  /\ UNCHANGED <<GPU, alive, pending>>
         /\ Screen' = [Screen EXCEPT ![g] = x]
         /\ OldScreenCache' = [OldScreenCache EXCEPT ![g] = x]
         /\ \/ x \notin alive /\ calls' = Stacks(t, rest)
            \/ x \in alive /\ calls' = Stacks(t, <<Call("BindGPU", x, g)>> \o rest)
  <1> DEFINE a == Call("released", g, x)
  <1>1. a \in CallSet /\ a.at = "released" /\ a.self = g /\ a.arg = x
    BY CallType DEF Screens0, Labels
  <1> HIDE DEF a
  <1>2. /\ Top(t) = a /\ \A l : At(t, l) <=> a.at = l
        /\ \A new : Instead(t, new) => calls' = Stacks(t, new \o rest)
    BY <1>1, BusyTop DEF a
  <1>3. TellScreen(t)
    BY <1>1, <1>2 DEF CallStep, UpdateScreen, BindScreen, BindGPU, TellGPU
  <1> QED
    BY <1>1, <1>2, <1>3, NoCall DEF TellScreen, IsValidPtr

LEMMA DoBindGPU ==
  ASSUME Traces, NEW t \in AllThreads, NEW s \in Screens, NEW x \in Gpus0,
         NEW rest \in Seq(CallSet),
         Busy(t, <<Call("BindGPU", s, x)>> \o rest), CallStep(t)
  PROVE  LET old == GPU[s]
             on  == <<Call("freed", s, x)>> \o rest
         IN /\ UNCHANGED <<Screen, OldScreenCache, alive, pending>>
            /\ \/ old = x /\ calls' = Stacks(t, rest) /\ UNCHANGED GPU
               \/ /\ old # x /\ GPU' = [GPU EXCEPT ![s] = NoOne]
                  /\ \/ old \notin alive /\ calls' = Stacks(t, on)
                     \/ /\ old \in alive
                        /\ calls' = Stacks(t, <<Call("BindScreen", old, NoOne)>> \o on)
  <1> DEFINE a   == Call("BindGPU", s, x)
             old == GPU[s]
             b   == Call("BindScreen", old, NoOne)
             c   == Call("freed", s, x)
  <1>1. a \in CallSet /\ a.at = "BindGPU" /\ a.self = s /\ a.arg = x
    BY CallType DEF Labels, Gpus0
  <1>2. c \in CallSet
    BY CallType DEF Labels, Gpus0
  <1>3. old \in alive => b \in CallSet
    BY CallType DEF Labels, Traces
  <1> HIDE DEF a, b, c
  <1>4. /\ Top(t) = a /\ \A l : At(t, l) <=> a.at = l
        /\ \A new : Instead(t, new) => calls' = Stacks(t, new \o rest)
    BY <1>1, BusyTop DEF a
  <1>5. BindGPU(t)
    BY <1>1, <1>4 DEF CallStep, BindScreen, TellScreen, UpdateScreen, TellGPU
  <1>6. UNCHANGED <<Screen, OldScreenCache, alive, pending>>
    BY <1>5 DEF BindGPU
  <1>7. CASE old = x
    BY <1>1, <1>4, <1>5, <1>6, <1>7, NoCall DEF BindGPU, Returned
  <1>8. CASE old # x
    <2>1. /\ GPU' = [GPU EXCEPT ![s] = NoOne]
          /\ Instead(t, (IF old \in alive THEN <<b>> ELSE <<>>) \o <<c>>)
      BY <1>1, <1>4, <1>5, <1>8 DEF BindGPU, IsValidPtr, b, c
    <2>2. CASE old \in alive
      <3>1. Instead(t, <<b>> \o <<c>>)
        BY <2>1, <2>2
      <3>2. calls' = Stacks(t, (<<b>> \o <<c>>) \o rest)
        BY <1>4, <3>1
      <3>3. (<<b>> \o <<c>>) \o rest = <<b>> \o (<<c>> \o rest)
        BY <1>2, <1>3, <2>2, TwoCalls
      <3>4. calls' = Stacks(t, <<b>> \o (<<c>> \o rest))
        BY <3>2, <3>3
      <3> QED
        BY <1>6, <1>8, <2>1, <2>2, <3>4 DEF b, c
    <2>3. CASE old \notin alive
      <3>1. Instead(t, <<c>>)
        BY <1>2, <2>1, <2>3, NoCall
      <3>2. calls' = Stacks(t, <<c>> \o rest)
        BY <1>4, <3>1
      <3> QED
        BY <1>6, <1>8, <2>1, <2>3, <3>2 DEF c
    <2> QED
      BY <2>2, <2>3
  <1> QED
    BY <1>7, <1>8

LEMMA DoTellGPU ==
  ASSUME NEW t \in AllThreads, NEW s \in Screens, NEW x \in Gpus0,
         NEW rest \in Seq(CallSet),
         Busy(t, <<Call("freed", s, x)>> \o rest), CallStep(t)
  PROVE  /\ UNCHANGED <<Screen, OldScreenCache, alive, pending>>
         /\ GPU' = [GPU EXCEPT ![s] = x]
         /\ \/ x \notin alive /\ calls' = Stacks(t, rest)
            \/ x \in alive /\ calls' = Stacks(t, <<Call("BindScreen", x, s)>> \o rest)
  <1> DEFINE a == Call("freed", s, x)
  <1>1. a \in CallSet /\ a.at = "freed" /\ a.self = s /\ a.arg = x
    BY CallType DEF Gpus0, Labels
  <1> HIDE DEF a
  <1>2. /\ Top(t) = a /\ \A l : At(t, l) <=> a.at = l
        /\ \A new : Instead(t, new) => calls' = Stacks(t, new \o rest)
    BY <1>1, BusyTop DEF a
  <1>3. TellGPU(t)
    BY <1>1, <1>2 DEF CallStep, UpdateScreen, BindScreen, BindGPU, TellScreen
  <1> QED
    BY <1>1, <1>2, <1>3, NoCall DEF TellGPU, IsValidPtr

-----------------------------------------------------------------------------
(* Where each stack leads.                                                 *)

LEMMA NoOneApart ==
  /\ NoOne \notin Gpus /\ NoOne \notin Screens
  /\ \A g \in Gpus : g \notin Screens
  BY BindingAssumptions

\* The binding is over and nothing, or the end of g, is left to do.
LEMMA FinishGpu ==
  ASSUME NEW t \in AllThreads, NEW g \in Gpus, NEW x \in Screens0,
         NEW D \in Bottom, BelowGpu(D, g, x), UNCHANGED pending,
         calls' = Stacks(t, D), Traces', Settled(Screen, OldScreenCache)',
         x = NoOne => Screen'[g] = NoOne
  PROVE  BindInv'
  <1>1. CASE D = <<>>
    BY <1>1 DEF BindInv, Resting, Quiet, NoCalls, Stacks
  <1>2. CASE D # <<>>
    <2>1. Going(t, g)'
      BY <1>2 DEF Going, Busy, BelowGpu
    <2> QED
      BY <2>1 DEF BindInv
  <1> QED
    BY <1>1, <1>2

\* ... or the end of the screen x.
LEMMA FinishScreen ==
  ASSUME NEW t \in AllThreads, NEW g \in Gpus0, NEW x \in Screens,
         NEW D \in Bottom, BelowScreen(D, g, x), UNCHANGED pending,
         calls' = Stacks(t, D), Traces', Settled(Screen, OldScreenCache)'
  PROVE  BindInv'
  <1>1. CASE D = <<>>
    BY <1>1 DEF BindInv, Resting, Quiet, NoCalls, Stacks
  <1>2. CASE D # <<>>
    <2>1. Going(t, x)'
      BY <1>2, NoOneApart DEF Going, Busy, BelowScreen
    <2> QED
      BY <2>1 DEF BindInv
  <1> QED
    BY <1>1, <1>2

LEMMA BindingStep ==
  ASSUME Traces, NEW t \in AllThreads, NEW D \in Bottom, NEW g \in Gpus,
         NEW x \in Screens0, Binding(t, D, g, x), CallStep(t)
  PROVE  BindInv'
  <1>1. /\ UNCHANGED <<OldScreenCache, GPU, alive, pending>>
        /\ \/ Screen[g] = x /\ calls' = Stacks(t, D) /\ UNCHANGED Screen
           \/ /\ Screen[g] # x /\ Screen' = [Screen EXCEPT ![g] = x]
              /\ calls' = Stacks(t, <<Call("UpdateScreen", g, NoOne)>> \o D)
    BY BottomType, DoBindScreen DEF Binding
  <1>2. Traces'
    BY <1>1 DEF Traces
  <1>3. CASE Screen[g] = x
    <2>1. UNCHANGED Screen /\ calls' = Stacks(t, D)
      BY <1>1, <1>3
    <2>2. Settled(Screen, OldScreenCache)'
      BY <1>1, <2>1 DEF Binding, Settled
    <2> QED
      BY <1>1, <1>2, <1>3, <2>1, <2>2, FinishGpu DEF Binding
  <1>4. CASE Screen[g] # x
    <2>1. /\ Screen' = [Screen EXCEPT ![g] = x] /\ pending = {}
          /\ calls' = Stacks(t, <<Call("UpdateScreen", g, NoOne)>> \o D)
      BY <1>1, <1>4 DEF Binding
    <2>2. OldScreenCache[g] = Screen[g]
      BY <2>1 DEF Binding, Settled, Agree
    <2>3. [Screen' EXCEPT ![g] = OldScreenCache'[g]] = Screen
      BY <1>1, <2>1, <2>2 DEF Traces
    <2>4. Settled([Screen EXCEPT ![g] = OldScreenCache[g]], OldScreenCache)'
      BY <1>1, <2>3 DEF Binding, Settled
    <2>5. Announcing(t, D, g, x)'
      BY <1>1, <2>1, <2>4
      DEF Announcing, Binding, Busy, Unclaimed, BelowGpu, Traces
    <2> QED
      BY <1>2, <2>5 DEF BindInv
  <1> QED
    BY <1>3, <1>4

LEMMA AnnouncingStep ==
  ASSUME Traces, NEW t \in AllThreads, NEW D \in Bottom, NEW g \in Gpus,
         NEW x \in Screens0, Announcing(t, D, g, x), CallStep(t)
  PROVE  BindInv'
  <1> DEFINE old == OldScreenCache[g]
             on  == <<Call("released", g, x)>> \o D
  <1>1. /\ UNCHANGED <<OldScreenCache, GPU, alive, pending>>
        /\ Screen' = [Screen EXCEPT ![g] = NoOne] /\ Screen[g] = x
        /\ \/ old \notin alive /\ calls' = Stacks(t, on)
           \/ /\ old \in alive
              /\ calls' = Stacks(t, <<Call("BindGPU", old, NoOne)>> \o on)
    BY BottomType, DoUpdateScreen DEF Announcing
  <1>2. Traces'
    BY <1>1 DEF Traces, Screens0
  <1>3. Unclaimed(x)' /\ BelowGpu(D, g, x)'
    BY <1>1, NoOneApart DEF Announcing, Unclaimed, BelowGpu, Traces
  <1>4. CASE old \notin alive
    <2>1. Settled(Screen, Without(OldScreenCache, {g}))'
      BY <1>1, <1>4, NoOneApart
      DEF Announcing, Settled, Agree, Without, Traces, Screens0
    <2>2. Released(t, D, g, x)'
      BY <1>1, <1>3, <1>4, <2>1 DEF Announcing, Released, Busy, Traces
    <2> QED
      BY <1>2, <2>2 DEF BindInv
  <1>5. CASE old \in alive
    <2>1. [Screen' EXCEPT ![g] = OldScreenCache'[g]]
            = [Screen EXCEPT ![g] = OldScreenCache[g]]
      BY <1>1 DEF Traces
    <2>2. Settled([Screen EXCEPT ![g] = OldScreenCache[g]], OldScreenCache)'
      BY <1>1, <2>1 DEF Announcing, Settled
    <2>3. Leaving(t, D, g, x)'
      BY <1>1, <1>3, <1>5, <2>2 DEF Announcing, Leaving, Busy, Traces
    <2> QED
      BY <1>2, <2>3 DEF BindInv
  <1> QED
    BY <1>4, <1>5

LEMMA LeavingStep ==
  ASSUME Traces, NEW t \in AllThreads, NEW D \in Bottom, NEW g \in Gpus,
         NEW x \in Screens0, Leaving(t, D, g, x), CallStep(t)
  PROVE  BindInv'
  <1> DEFINE rest == <<Call("released", g, x)>> \o D
  <1>1. PICK c : c = OldScreenCache[g]
    OBVIOUS
  <1>2. c \in Screens \cap alive
    BY <1>1, NoOneApart DEF Leaving, Traces, Screens0
  <1>3. GPU[c] = g
    BY <1>1, <1>2 DEF Leaving, Settled, Agree, Traces
  <1>4. Call("released", g, x) \in CallSet
    BY CallType DEF Labels, Screens0
  <1>5. rest \in Seq(CallSet) /\ NoOne \in Gpus0
    BY <1>4, BottomType, PushType DEF Gpus0
  <1> HIDE DEF rest
  <1>6. Busy(t, <<Call("BindGPU", c, NoOne)>> \o rest)
    BY <1>1 DEF Leaving, rest
  <1>7. /\ UNCHANGED <<Screen, OldScreenCache, alive, pending>>
        /\ GPU' = [GPU EXCEPT ![c] = NoOne]
        /\ calls' = Stacks(t, <<Call("BindScreen", g, NoOne)>>
                                \o (<<Call("freed", c, NoOne)>> \o rest))
    BY <1>2, <1>3, <1>5, <1>6, DoBindGPU, NoOneApart DEF Leaving
  <1>8. Traces'
    BY <1>7 DEF Traces, Gpus0
  <1>9. Settled(Screen, Without(OldScreenCache, {g}))'
    BY <1>1, <1>2, <1>3, <1>7, NoOneApart
    DEF Leaving, Settled, Agree, Without, Traces, Screens0
  <1>10. /\ g \in alive' \ pending' /\ BelowGpu(D, g, x)' /\ Unclaimed(x)'
         /\ Screen'[g] = NoOne /\ c \in Screens \cap alive' /\ GPU'[c] = NoOne
    BY <1>2, <1>7 DEF Leaving, BelowGpu, Unclaimed, Traces
  <1>11. Released(t, D, g, x)'
    BY <1>7, <1>9, <1>10 DEF Released, Busy, rest
  <1> QED
    BY <1>8, <1>11 DEF BindInv

LEMMA ReleasedStep ==
  ASSUME Traces, NEW t \in AllThreads, NEW D \in Bottom, NEW g \in Gpus,
         NEW x \in Screens0, Released(t, D, g, x), CallStep(t)
  PROVE  BindInv'
  <1> DEFINE rest == <<Call("released", g, x)>> \o D
  <1>0. D \in Seq(CallSet) /\ NoOne \in Gpus0 /\ NoOne \in Screens0
    BY BottomType DEF Gpus0, Screens0
  <1>1. Call("released", g, x) \in CallSet
    BY CallType DEF Labels, Screens0
  <1>2. rest \in Seq(CallSet)
    BY <1>0, <1>1, PushType
  <1>3. ASSUME NEW c \in Screens \cap alive, GPU[c] = NoOne,
               Busy(t, <<Call("BindScreen", g, NoOne)>>
                         \o (<<Call("freed", c, NoOne)>> \o rest))
        PROVE  BindInv'
    <2>1. Call("freed", c, NoOne) \in CallSet
      BY CallType DEF Labels
    <2>2. <<Call("freed", c, NoOne)>> \o rest \in Seq(CallSet)
      BY <1>2, <2>1, PushType
    <2> DEFINE on == <<Call("freed", c, NoOne)>> \o rest
    <2>3. on \in Seq(CallSet) /\ Busy(t, <<Call("BindScreen", g, NoOne)>> \o on)
      BY <1>3, <2>2
    <2>4. Screen[g] = NoOne
      BY DEF Released
    <2> HIDE DEF rest, on
    <2>5. /\ UNCHANGED <<OldScreenCache, GPU, alive, pending, Screen>>
          /\ calls' = Stacks(t, on)
      BY <1>0, <2>3, <2>4, DoBindScreen
    <2>6. /\ UNCHANGED <<OldScreenCache, GPU, alive, pending, Screen>>
          /\ calls' = Stacks(t, <<Call("freed", c, NoOne)>> \o rest)
      BY <2>5 DEF on
    <2>7. Released(t, D, g, x)'
      BY <1>3, <2>6
      DEF Released, Busy, rest, BelowGpu, Unclaimed, Settled, Without
    <2> QED
      BY <2>6, <2>7 DEF BindInv, Traces
  <1>4. ASSUME NEW c \in Screens \cap alive, GPU[c] = NoOne,
               Busy(t, <<Call("freed", c, NoOne)>> \o rest)
        PROVE  BindInv'
    <2> HIDE DEF rest
    <2>1. /\ UNCHANGED <<Screen, OldScreenCache, alive, pending>>
          /\ GPU' = [GPU EXCEPT ![c] = NoOne]
          /\ calls' = Stacks(t, rest)
      BY <1>0, <1>2, <1>4, DoTellGPU, BindingAssumptions DEF Traces
    <2>2. GPU' = GPU
      BY <1>4, <2>1 DEF Traces
    <2>3. Released(t, D, g, x)'
      BY <2>1, <2>2
      DEF Released, Busy, rest, BelowGpu, Unclaimed, Settled, Without
    <2> QED
      BY <2>1, <2>2, <2>3 DEF BindInv, Traces
  <1>5. CASE Busy(t, rest)
    <2>1. /\ UNCHANGED <<GPU, alive, pending>>
          /\ Screen' = [Screen EXCEPT ![g] = x]
          /\ OldScreenCache' = [OldScreenCache EXCEPT ![g] = x]
          /\ \/ x \notin alive /\ calls' = Stacks(t, D)
             \/ x \in alive /\ calls' = Stacks(t, <<Call("BindGPU", x, g)>> \o D)
      BY <1>0, <1>5, DoTellScreen
    <2>2. Traces'
      BY <2>1 DEF Traces
    <2>3. CASE x \notin alive
      <3>1. Settled(Screen, OldScreenCache)'
        BY <2>1, <2>3, NoOneApart
        DEF Released, Settled, Agree, Without, Traces, Screens0
      <3>2. Screen'[g] = x /\ BelowGpu(D, g, x) /\ calls' = Stacks(t, D)
        BY <2>1, <2>3 DEF Released, Traces
      <3> QED
        BY <2>1, <2>2, <3>1, <3>2, FinishGpu
    <2>4. CASE x \in alive
      <3>1. x \in Screens
        BY <2>4, BindingAssumptions DEF Screens0, Traces
      <3>2. D = <<>> /\ g \in alive \ pending /\ Screen[g] = NoOne
        BY <3>1, NoOneApart DEF Released, BelowGpu
      <3>3. Holds(g, x)' /\ BelowScreen(D, g, x)' /\ Unclaimed(x)'
        BY <2>1, <2>4, <3>2
        DEF Holds, BelowScreen, Unclaimed, Traces, Released
      <3>4. /\ Without(Screen', {g}) = Without(Screen, {g})
            /\ Without(OldScreenCache', {g}) = Without(OldScreenCache, {g})
        BY <2>1 DEF Without, Traces
      <3>5. Without(Screen, {g}) = Screen
        BY <3>2 DEF Without, Traces
      <3>6. Settled(Without(Screen, {g}), Without(OldScreenCache, {g}))'
        BY <2>1, <3>4, <3>5 DEF Released, Settled
      <3>7. Taking(t, D, g, x)'
        BY <2>1, <2>4, <3>3, <3>6 DEF Taking, Busy
      <3> QED
        BY <2>2, <3>1, <3>7 DEF BindInv, Gpus0
    <2> QED
      BY <2>3, <2>4
  <1> QED
    BY <1>3, <1>4, <1>5 DEF Released

LEMMA TakingStep ==
  ASSUME Traces, NEW t \in AllThreads, NEW D \in Bottom, NEW g \in Gpus0,
         NEW x \in Screens, Taking(t, D, g, x), CallStep(t)
  PROVE  BindInv'
  <1>0. D \in Seq(CallSet) /\ x \in Screens \cap alive /\ x # NoOne
    BY BottomType, NoOneApart DEF Taking
  <1>1. CASE Busy(t, <<Call("BindGPU", x, g)>> \o D)
    <2> DEFINE on == <<Call("freed", x, g)>> \o D
    <2>1. PICK o : o = GPU[x]
      OBVIOUS
    <2>2. /\ UNCHANGED <<Screen, OldScreenCache, alive, pending>>
          /\ \/ o = g /\ calls' = Stacks(t, D) /\ UNCHANGED GPU
             \/ /\ o # g /\ GPU' = [GPU EXCEPT ![x] = NoOne]
                /\ \/ o \notin alive /\ calls' = Stacks(t, on)
                   \/ /\ o \in alive
                      /\ calls' = Stacks(t, <<Call("BindScreen", o, NoOne)>> \o on)
      BY <1>0, <1>1, <2>1, DoBindGPU
    <2>3. o \in (Gpus \cap alive) \cup {NoOne}
      BY <1>0, <2>1 DEF Taking, Settled, Agree
    <2>4. Traces'
      BY <2>2 DEF Traces, Gpus0
    <2>5. Holds(g, x)' /\ BelowScreen(D, g, x)' /\ Unclaimed(x)'
      BY <2>2 DEF Taking, Holds, BelowScreen, Unclaimed
    <2>6. CASE o = g
      <3>1. g = NoOne
        <4> SUFFICES ASSUME g # NoOne PROVE FALSE
          OBVIOUS
        <4>1. g \in Gpus \cap alive
          BY DEF Gpus0, Taking, Holds
        <4>2. Without(Screen, {g})[g] = NoOne
          BY <4>1 DEF Without
        <4>3. GPU[x] = g => Without(Screen, {g})[g] = x
          BY <1>0, <4>1 DEF Taking, Settled, Agree
        <4> QED
          BY <1>0, <2>1, <2>6, <4>2, <4>3
      <3>2. Settled(Screen, OldScreenCache)'
        BY <2>2, <2>6, <3>1, NoOneApart DEF Taking, Settled, Agree, Without
      <3> QED
        BY <2>2, <2>4, <2>6, <3>2, FinishScreen DEF Taking
    <2>7. CASE o # g /\ o = NoOne
      <3>1. o \notin alive
        BY <2>7, BindingAssumptions DEF Traces
      <3>2. GPU' = GPU /\ GPU'[x] = NoOne /\ calls' = Stacks(t, on)
        BY <2>1, <2>2, <2>7, <3>1 DEF Traces
      <3>3. Settled(Without(Screen, {g}), Without(OldScreenCache, {g}))'
        BY <2>2, <3>2 DEF Taking, Settled, Without
      <3>4. Taking(t, D, g, x)'
        BY <1>0, <2>2, <2>5, <3>2, <3>3 DEF Taking, Busy
      <3> QED
        BY <2>4, <3>4 DEF BindInv
    <2>8. CASE o # g /\ o # NoOne
      <3>1. o \in Gpus /\ o \in alive
        BY <2>3, <2>8
      <3>2. Screen[o] = x /\ o \notin pending
        BY <1>0, <2>1, <2>8, <3>1 DEF Taking, Settled, Agree, Without
      <3>3. OldScreenCache[o] = x
        BY <2>8, <3>1, <3>2 DEF Taking, Settled, Agree, Without
      <3>4. /\ GPU' = [GPU EXCEPT ![x] = NoOne] /\ GPU'[x] = NoOne
            /\ calls' = Stacks(t, <<Call("BindScreen", o, NoOne)>> \o on)
        BY <1>0, <2>2, <2>8, <3>1 DEF Traces
      <3>5. Settled(Without(Screen, {g, o}), Without(OldScreenCache, {g, o}))'
        BY <1>0, <2>1, <2>2, <2>8, <3>1, <3>2, <3>4, NoOneApart
        DEF Taking, Settled, Agree, Without, Traces, Screens0
      <3>6. LettingGo(t, D, g, x, o)'
        BY <1>0, <2>2, <2>5, <2>8, <3>1, <3>2, <3>3, <3>4, <3>5
        DEF LettingGo, Busy
      <3> QED
        BY <2>4, <3>1, <3>6 DEF BindInv
    <2> QED
      BY <2>6, <2>7, <2>8
  <1>2. CASE Busy(t, <<Call("freed", x, g)>> \o D) /\ GPU[x] = NoOne
    <2>1. /\ UNCHANGED <<Screen, OldScreenCache, alive, pending>>
          /\ GPU' = [GPU EXCEPT ![x] = g]
          /\ \/ g \notin alive /\ calls' = Stacks(t, D)
             \/ g \in alive /\ calls' = Stacks(t, <<Call("BindScreen", g, x)>> \o D)
      BY <1>0, <1>2, DoTellGPU
    <2>2. Traces'
      BY <2>1 DEF Traces
    <2>3. CASE g = NoOne
      <3>1. g \notin alive /\ GPU' = GPU
        BY <1>2, <2>1, <2>3, BindingAssumptions DEF Traces
      <3>2. Settled(Screen, OldScreenCache)'
        BY <2>1, <2>3, <3>1, NoOneApart DEF Taking, Settled, Agree, Without
      <3> QED
        BY <2>1, <2>2, <3>1, <3>2, FinishScreen DEF Taking
    <2>4. CASE g # NoOne
      <3>1. /\ g \in Gpus /\ g \in alive \ pending /\ D = <<>>
            /\ Screen[g] = x /\ OldScreenCache[g] = x
        BY <2>4 DEF Taking, Holds, BelowScreen, Gpus0
      <3>2. calls' = Stacks(t, <<Call("BindScreen", g, x)>> \o D)
        BY <2>1, <3>1
      <3>3. \A h \in Gpus \cap alive : h # g => Screen[h] # x
        <4> TAKE h \in Gpus \cap alive
        <4>1. h # g /\ h \notin pending => Screen[h] # x
          BY <1>0, <1>2, NoOneApart DEF Taking, Settled, Agree, Without
        <4> QED
          BY <1>0, <4>1 DEF Taking, Unclaimed
      <3>4. \A s \in Screens : GPU'[s] = IF s = x THEN g ELSE GPU[s]
        BY <2>1 DEF Traces
      <3>5. Settled(Screen, OldScreenCache)'
        <4>1. \A h \in Gpus \cap alive :
                OldScreenCache[h] = IF h \in pending THEN NoOne ELSE Screen[h]
          BY <3>1 DEF Taking, Settled, Agree, Without
        <4>2. \A s \in Screens \cap alive : GPU'[s] \in (Gpus \cap alive) \cup {NoOne}
          BY <3>1, <3>4 DEF Taking, Settled, Agree
        <4>3. \A h \in Gpus \cap alive, s \in Screens \cap alive :
                GPU'[s] = h <=> Screen[h] = s /\ h \notin pending
          BY <1>0, <1>2, <3>1, <3>3, <3>4, NoOneApart
          DEF Taking, Settled, Agree, Without
        <4>4. \A h, k \in Gpus \cap alive :
                Screen[h] = Screen[k] /\ Screen[h] \in Screens \cap alive => h = k
          BY <3>1, <3>3 DEF Taking, Settled, Agree, Without
        <4> QED
          BY <2>1, <4>1, <4>2, <4>3, <4>4 DEF Settled, Agree
      <3>6. Binding(t, D, g, x)'
        BY <2>1, <3>1, <3>2, <3>5 DEF Binding, Busy, BelowGpu
      <3> QED
        BY <2>2, <3>1, <3>6 DEF BindInv, Screens0
    <2> QED
      BY <2>3, <2>4
  <1> QED
    BY <1>1, <1>2 DEF Taking

LEMMA LettingGoStep ==
  ASSUME Traces, NEW t \in AllThreads, NEW D \in Bottom, NEW g \in Gpus0,
         NEW x \in Screens, NEW o \in Gpus, LettingGo(t, D, g, x, o), CallStep(t)
  PROVE  BindInv'
  <1> DEFINE rest == <<Call("freed", x, g)>> \o D
             on   == <<Call("released", o, NoOne)>> \o rest
  <1>0. /\ x \in alive /\ x # NoOne /\ NoOne \in Gpus0 /\ NoOne \in Screens0
        /\ o \in alive \ pending /\ o # g /\ OldScreenCache[o] = x
        /\ GPU[x] = NoOne
    BY NoOneApart DEF LettingGo, Gpus0, Screens0
  <1>1. /\ Call("freed", x, g) \in CallSet
        /\ Call("released", o, NoOne) \in CallSet
    BY CallType DEF Labels, Gpus0
  <1>2. rest \in Seq(CallSet) /\ on \in Seq(CallSet)
    BY <1>1, BottomType, PushType
  <1> HIDE DEF rest, on
  <1>3. CASE Screen[o] = x /\ Busy(t, <<Call("BindScreen", o, NoOne)>> \o rest)
    <2>1. /\ UNCHANGED <<OldScreenCache, GPU, alive, pending>>
          /\ Screen' = [Screen EXCEPT ![o] = NoOne]
          /\ calls' = Stacks(t, <<Call("UpdateScreen", o, NoOne)>> \o rest)
      BY <1>0, <1>2, <1>3, DoBindScreen
    <2>2. Traces' /\ Screen'[o] = NoOne
      BY <1>0, <2>1 DEF Traces
    <2>3. Holds(g, x)' /\ BelowScreen(D, g, x)' /\ Unclaimed(x)'
      BY <1>0, <2>1 DEF LettingGo, Holds, BelowScreen, Unclaimed, Traces
    <2>4. Without(Screen', {g, o}) = Without(Screen, {g, o})
      BY <2>1 DEF Without, Traces
    <2>5. Settled(Without(Screen, {g, o}), Without(OldScreenCache, {g, o}))'
      BY <2>1, <2>4 DEF LettingGo, Settled, Without
    <2>6. LettingGo(t, D, g, x, o)'
      BY <1>0, <2>1, <2>2, <2>3, <2>5 DEF LettingGo, Busy, rest
    <2> QED
      BY <2>2, <2>6 DEF BindInv
  <1>4. CASE /\ Screen[o] = NoOne
             /\ Busy(t, <<Call("UpdateScreen", o, NoOne)>> \o rest)
    <2>1. /\ UNCHANGED <<OldScreenCache, GPU, alive, pending>>
          /\ Screen' = [Screen EXCEPT ![o] = NoOne]
          /\ calls' = Stacks(t, <<Call("BindGPU", x, NoOne)>> \o on)
      BY <1>0, <1>2, <1>4, DoUpdateScreen DEF on
    <2>2. Screen' = Screen
      BY <1>4, <2>1 DEF Traces
    <2>3. LettingGo(t, D, g, x, o)'
      BY <1>4, <2>1, <2>2
      DEF LettingGo, Busy, rest, on, Holds, BelowScreen, Unclaimed, Settled,
          Without
    <2> QED
      BY <2>1, <2>2, <2>3 DEF BindInv, Traces
  <1>5. CASE Screen[o] = NoOne /\ Busy(t, <<Call("BindGPU", x, NoOne)>> \o on)
    <2>1. /\ UNCHANGED <<Screen, OldScreenCache, GPU, alive, pending>>
          /\ calls' = Stacks(t, on)
      BY <1>0, <1>2, <1>5, DoBindGPU
    <2>2. Letting(t, D, g, x, o)'
      BY <1>5, <2>1
      DEF LettingGo, Letting, Busy, rest, on, Holds, BelowScreen, Unclaimed,
          Settled, Without
    <2> QED
      BY <2>1, <2>2 DEF BindInv, Traces
  <1> QED
    BY <1>3, <1>4, <1>5 DEF LettingGo, rest, on

LEMMA LettingStep ==
  ASSUME Traces, NEW t \in AllThreads, NEW D \in Bottom, NEW g \in Gpus0,
         NEW x \in Screens, NEW o \in Gpus, Letting(t, D, g, x, o), CallStep(t)
  PROVE  BindInv'
  <1> DEFINE rest == <<Call("freed", x, g)>> \o D
  <1>1. Call("freed", x, g) \in CallSet
    BY CallType DEF Labels, Gpus0
  <1>2. rest \in Seq(CallSet) /\ NoOne \in Screens0 /\ NoOne \notin alive
    BY <1>1, BottomType, PushType, BindingAssumptions DEF Screens0, Traces
  <1> HIDE DEF rest
  <1>3. Busy(t, <<Call("released", o, NoOne)>> \o rest)
    BY DEF Letting, rest
  <1>4. /\ UNCHANGED <<GPU, alive, pending>>
        /\ Screen' = [Screen EXCEPT ![o] = NoOne]
        /\ OldScreenCache' = [OldScreenCache EXCEPT ![o] = NoOne]
        /\ calls' = Stacks(t, rest)
    BY <1>2, <1>3, DoTellScreen
  <1>5. Traces'
    BY <1>2, <1>4 DEF Traces
  <1>6. Holds(g, x)' /\ BelowScreen(D, g, x)' /\ Unclaimed(x)'
    BY <1>4, NoOneApart DEF Letting, Holds, BelowScreen, Unclaimed, Traces
  <1>7. /\ Without(Screen', {g}) = Without(Screen, {g, o})
        /\ Without(OldScreenCache', {g}) = Without(OldScreenCache, {g, o})
    BY <1>4 DEF Without, Traces
  <1>8. Settled(Without(Screen, {g}), Without(OldScreenCache, {g}))'
    BY <1>4, <1>7 DEF Letting, Settled
  <1>9. Taking(t, D, g, x)'
    BY <1>4, <1>6, <1>8 DEF Letting, Taking, Busy, rest
  <1> QED
    BY <1>5, <1>9 DEF BindInv
-----------------------------------------------------------------------------
(* From rest, and to it.                                                   *)

Binds == {a \in CallSet : a.at # "destroyed"}

\* Calls that wait for the one they made: the second halves of the functions.
Waits == {c \in CallSet : c.at \in {"released", "freed", "destroyed"}}

\* What the innermost call meets: the GPU that a screen lets go of holds nothing
\* any more, or the screen is the one it last told; the GPU that a screen takes
\* holds that screen already.
Meets(a) ==
  \/ \E g \in Gpus, x \in Screens0 : a = Call("BindScreen", g, x)
  \/ \E g \in Gpus : a = Call("UpdateScreen", g, NoOne)
  \/ \E g \in Gpus, x \in Screens0 : a = Call("released", g, x)
  \/ \E x \in Screens, g \in Gpus0 :
       /\ a = Call("BindGPU", x, g)
       /\ GPU[x] \in alive /\ GPU[x] # g =>
            Screen[GPU[x]] = NoOne \/ OldScreenCache[GPU[x]] = x
  \/ \E x \in Screens, g \in Gpus0 :
       a = Call("freed", x, g) /\ (g \in alive => Screen[g] = x)

\* Thread t is inside a call that binds something, with at most three below it.
Calling(t) ==
  \E a \in Binds, rest \in Seq(Waits) :
    Meets(a) /\ Len(rest) <= 3 /\ Busy(t, <<a>> \o rest)

LEMMA WaitsAreCalls ==
  /\ Waits \subseteq CallSet
  /\ \A rest \in Seq(Waits) : rest \in Seq(CallSet)
  <1>1. Waits \subseteq CallSet
    BY DEF Waits
  <1>2. ASSUME NEW rest \in Seq(Waits)
        PROVE  rest \in Seq(CallSet)
    <2>1. rest \in [1 .. Len(rest) -> Waits] /\ Len(rest) \in Nat
      BY LenProperties
    <2>2. rest \in [1 .. Len(rest) -> CallSet]
      BY <1>1, <2>1
    <2> QED
      BY <2>1, <2>2, IsASeq
  <1> QED
    BY <1>1, <1>2

\* A waiting call put on waiting calls.
LEMMA WaitsPush ==
  ASSUME NEW a \in Waits, NEW rest \in Seq(Waits)
  PROVE  <<a>> \o rest \in Seq(Waits)
  <1>1. <<a>> \in Seq(Waits)
    OBVIOUS
  <1> QED
    BY <1>1, ConcatProperties

LEMMA BottomWaits ==
  ASSUME NEW D \in Bottom
  PROVE  D \in Seq(Waits)
  <1>1. "destroyed" \in Labels
    BY DEF Labels
  <1>2. \A o \in Gpus \cup Screens : Call("destroyed", o, NoOne) \in Waits
    BY <1>1, CallType DEF Waits
  <1>3. \A a \in Waits : <<a>> \in Seq(Waits)
    OBVIOUS
  <1>4. <<>> \in Seq(Waits)
    OBVIOUS
  <1> QED
    BY <1>2, <1>3, <1>4 DEF Bottom

LEMMA PushLen ==
  ASSUME NEW a \in CallSet, NEW rest \in Seq(CallSet), NEW n \in Nat,
         Len(rest) <= n
  PROVE  Len(<<a>> \o rest) <= n + 1
  <1>1. <<a>> \in Seq(CallSet) /\ Len(<<a>>) = 1
    OBVIOUS
  <1>2. PICK k \in Nat : k = Len(rest)
    BY LenProperties
  <1>3. Len(<<a>> \o rest) = 1 + k
    BY <1>1, <1>2, ConcatProperties
  <1> QED
    BY <1>2, <1>3

LEMMA BottomLen ==
  ASSUME NEW D \in Bottom
  PROVE  Len(D) <= 1
  <1>1. Len(<<>>) = 0 /\ \A v : Len(<<v>>) = 1
    OBVIOUS
  <1>2. CASE D = <<>>
    BY <1>1, <1>2
  <1>3. ASSUME NEW o \in Gpus \cup Screens, D = <<Call("destroyed", o, NoOne)>>
        PROVE  Len(D) <= 1
    BY <1>1, <1>3
  <1>4. \/ D = <<>>
        \/ \E o \in Gpus \cup Screens : D = <<Call("destroyed", o, NoOne)>>
    BY DEF Bottom
  <1> QED
    BY <1>2, <1>3, <1>4

LEMMA BindsType ==
  ASSUME NEW o \in Gpus \cup Screens, NEW a \in Gpus \cup Screens \cup {NoOne}
  PROVE  /\ Call("BindScreen", o, a) \in Binds
         /\ Call("UpdateScreen", o, a) \in Binds
         /\ Call("released", o, a) \in Binds
         /\ Call("BindGPU", o, a) \in Binds
         /\ Call("freed", o, a) \in Binds
         /\ Call("released", o, a) \in Waits
         /\ Call("freed", o, a) \in Waits
  BY CallType DEF Labels, Binds, Waits

LEMMA CallingIf ==
  ASSUME NEW t \in AllThreads, NEW a \in Binds, NEW rest \in Seq(Waits),
         Meets(a), Len(rest) <= 3, Busy(t, <<a>> \o rest)
  PROVE  Calling(t)
  BY DEF Calling

LEMMA GpuMeets ==
  ASSUME Traces, NEW g \in Gpus, NEW x \in Screens0
  PROVE  /\ Meets(Call("BindScreen", g, x)) /\ Meets(Call("BindScreen", g, NoOne))
         /\ Meets(Call("UpdateScreen", g, NoOne))
         /\ Meets(Call("released", g, x)) /\ Meets(Call("released", g, NoOne))
         /\ \A s \in Screens : Meets(Call("freed", s, NoOne))
  <1>1. NoOne \in Screens0 /\ NoOne \in Gpus0
    BY DEF Screens0, Gpus0
  <1>2. NoOne \notin alive
    BY NoOneApart DEF Traces
  <1> QED
    BY <1>1, <1>2 DEF Meets

LEMMA ScreenMeets ==
  ASSUME NEW x \in Screens, NEW g \in Gpus0
  PROVE  /\ (GPU[x] \in alive /\ GPU[x] # g =>
                Screen[GPU[x]] = NoOne \/ OldScreenCache[GPU[x]] = x)
              => Meets(Call("BindGPU", x, g))
         /\ (g \in alive => Screen[g] = x) => Meets(Call("freed", x, g))
  BY DEF Meets

LEMMA CallingOnly ==
  ASSUME OneThread, NEW t \in AllThreads, Calling(t)
  PROVE  ~Quiet /\ (Next => CallStep(t))
  BY BusyOnly, BusyTop, WaitsAreCalls DEF Calling, Quiet, Binds

LEMMA GpuStacks ==
  ASSUME Traces, NEW t \in AllThreads, NEW D \in Bottom, NEW g \in Gpus,
         NEW x \in Screens0,
         \/ Binding(t, D, g, x) \/ Announcing(t, D, g, x)
         \/ Leaving(t, D, g, x) \/ Released(t, D, g, x)
  PROVE  Calling(t)
  <1> DEFINE rest == <<Call("released", g, x)>> \o D
  <1>1. D \in Seq(Waits) /\ Len(D) <= 1
    BY BottomWaits, BottomLen
  <1>2. /\ Call("BindScreen", g, x) \in Binds
        /\ Call("BindScreen", g, NoOne) \in Binds
        /\ Call("UpdateScreen", g, NoOne) \in Binds
        /\ Call("released", g, x) \in Binds \cap Waits
        /\ \A s \in Screens : /\ Call("BindGPU", s, NoOne) \in Binds
                              /\ Call("freed", s, NoOne) \in Binds \cap Waits
    BY BindsType DEF Screens0
  <1>3. rest \in Seq(Waits) /\ Len(rest) <= 2
    BY <1>1, <1>2, WaitsPush, WaitsAreCalls, PushLen
  <1>4. CASE Binding(t, D, g, x)
    BY <1>1, <1>2, <1>4, CallingIf, GpuMeets DEF Binding
  <1>5. CASE Announcing(t, D, g, x)
    BY <1>1, <1>2, <1>5, CallingIf, GpuMeets DEF Announcing
  <1>6. CASE Leaving(t, D, g, x)
    <2>1. PICK old \in Screens : old = OldScreenCache[g]
      BY <1>6, NoOneApart DEF Leaving, Traces, Screens0
    <2>2. Busy(t, <<Call("BindGPU", old, NoOne)>> \o rest)
      BY <1>6, <2>1 DEF Leaving
    <2>3. Meets(Call("BindGPU", old, NoOne))
      <3> SUFFICES ASSUME GPU[old] \in alive, GPU[old] # NoOne
                   PROVE  Screen[GPU[old]] = NoOne
        BY <2>1, ScreenMeets DEF Gpus0
      <3>1. /\ Settled([Screen EXCEPT ![g] = old], OldScreenCache)
            /\ old \in alive /\ g \in alive /\ Screen[g] = NoOne
        BY <1>6, <2>1 DEF Leaving
      <3>2. GPU[old] = g
        BY <2>1, <3>1 DEF Settled, Agree, Traces
      <3> QED
        BY <3>1, <3>2
    <2> HIDE DEF rest
    <2> QED
      BY <1>2, <1>3, <2>2, <2>3, CallingIf
  <1>7. CASE Released(t, D, g, x)
    <2>1. CASE Busy(t, rest)
      BY <1>1, <1>2, <2>1, CallingIf, GpuMeets
    <2>2. ASSUME NEW s \in Screens, Busy(t, <<Call("freed", s, NoOne)>> \o rest)
          PROVE  Calling(t)
      <3> HIDE DEF rest
      <3> QED
        BY <1>2, <1>3, <2>2, CallingIf, GpuMeets
    <2>3. ASSUME NEW s \in Screens,
                 Busy(t, <<Call("BindScreen", g, NoOne)>>
                           \o (<<Call("freed", s, NoOne)>> \o rest))
          PROVE  Calling(t)
      <3> DEFINE on == <<Call("freed", s, NoOne)>> \o rest
      <3> HIDE DEF rest
      <3>1. on \in Seq(Waits) /\ Len(on) <= 3
        BY <1>1, <1>2, <1>3, WaitsPush, WaitsAreCalls, PushLen
      <3> HIDE DEF on
      <3>2. Busy(t, <<Call("BindScreen", g, NoOne)>> \o on)
        BY <2>3 DEF on
      <3> QED
        BY <1>2, <3>1, <3>2, CallingIf, GpuMeets
    <2> QED
      BY <1>7, <2>1, <2>2, <2>3 DEF Released
  <1> QED
    BY <1>4, <1>5, <1>6, <1>7

LEMMA ScreenStacks ==
  ASSUME Traces, NEW t \in AllThreads, NEW D \in Bottom, NEW g \in Gpus0,
         NEW x \in Screens,
         \/ Taking(t, D, g, x)
         \/ \E o \in Gpus : LettingGo(t, D, g, x, o) \/ Letting(t, D, g, x, o)
  PROVE  Calling(t)
  <1> DEFINE rest == <<Call("freed", x, g)>> \o D
  <1>1. D \in Seq(Waits) /\ Len(D) <= 1
    BY BottomWaits, BottomLen
  <1>2. /\ Call("BindGPU", x, g) \in Binds /\ Call("BindGPU", x, NoOne) \in Binds
        /\ Call("freed", x, g) \in Binds \cap Waits
        /\ \A o \in Gpus : /\ Call("BindScreen", o, NoOne) \in Binds
                           /\ Call("UpdateScreen", o, NoOne) \in Binds
                           /\ Call("released", o, NoOne) \in Binds \cap Waits
    BY BindsType DEF Gpus0
  <1>3. rest \in Seq(Waits) /\ Len(rest) <= 2
    BY <1>1, <1>2, WaitsPush, WaitsAreCalls, PushLen
  <1>4. CASE Taking(t, D, g, x)
    <2>1. \/ Busy(t, <<Call("BindGPU", x, g)>> \o D)
          \/ Busy(t, <<Call("freed", x, g)>> \o D)
      BY <1>4 DEF Taking
    <2>2. Meets(Call("BindGPU", x, g))
      <3> SUFFICES ASSUME GPU[x] \in alive, GPU[x] # g
                   PROVE  OldScreenCache[GPU[x]] = x
        BY ScreenMeets
      <3>1. GPU[x] \in Gpus
        BY NoOneApart DEF Traces, Gpus0
      <3>2. x \in alive /\ Settled(Without(Screen, {g}), Without(OldScreenCache, {g}))
        BY <1>4 DEF Taking
      <3> QED
        BY <3>1, <3>2, NoOneApart DEF Settled, Agree, Without
    <2>3. Meets(Call("freed", x, g))
      BY <1>4, NoOneApart, ScreenMeets DEF Taking, Holds, Traces
    <2> QED
      BY <1>1, <1>2, <2>1, <2>2, <2>3, CallingIf
  <1>5. ASSUME NEW o \in Gpus,
               LettingGo(t, D, g, x, o) \/ Letting(t, D, g, x, o)
        PROVE  Calling(t)
    <2> DEFINE on == <<Call("released", o, NoOne)>> \o rest
    <2> HIDE DEF rest
    <2>1. on \in Seq(Waits) /\ Len(on) <= 3
      BY <1>1, <1>2, <1>3, WaitsPush, WaitsAreCalls, PushLen
    <2>2. /\ Busy(t, <<Call("BindScreen", o, NoOne)>> \o rest) => Calling(t)
          /\ Busy(t, <<Call("UpdateScreen", o, NoOne)>> \o rest) => Calling(t)
          /\ Busy(t, on) => Calling(t)
      BY <1>2, <1>3, CallingIf, GpuMeets DEF Screens0
    <2>3. Busy(t, <<Call("BindGPU", x, NoOne)>> \o on) => Calling(t)
      <3>1. GPU[x] \notin alive
        BY <1>5, NoOneApart DEF LettingGo, Letting, Traces
      <3>2. Meets(Call("BindGPU", x, NoOne))
        BY <3>1, ScreenMeets DEF Gpus0
      <3> HIDE DEF on
      <3> QED
        BY <1>2, <2>1, <3>2, CallingIf
    <2> QED
      BY <1>5, <2>2, <2>3 DEF LettingGo, Letting, rest
  <1> QED
    BY <1>4, <1>5

LEMMA RestingStep ==
  ASSUME Traces, Resting, Next
  PROVE  BindInv'
  <1>0. /\ calls = NoCalls /\ \A t \in AllThreads : calls[t] = <<>>
        /\ \A t \in Threads : t \in AllThreads
        /\ Game \in AllThreads /\ <<>> \in Bottom
    BY DEF Resting, Quiet, NoCalls, AllThreads, Bottom
  <1>1. \A t \in AllThreads : \A l : ~At(t, l)
    BY <1>0 DEF At
  <1>2. ~Destroyed /\ \A t \in AllThreads : ~CallStep(t)
    BY <1>0, <1>1 DEF Destroyed, CallStep, BindScreen, UpdateScreen, TellScreen,
                      BindGPU, TellGPU
  <1>3. \A t \in AllThreads : \A s : [calls EXCEPT ![t] = s] = Stacks(t, s)
    BY <1>0 DEF NoCalls, Stacks
  <1>4. ASSUME NEW t \in Threads, NEW g \in Gpus, NEW s \in Screens \cup {NoOne},
               netFunc_bindScreen(t, g, s)
        PROVE  BindInv'
    <2>1. Call("BindScreen", g, s) \in CallSet
      BY CallType DEF Labels
    <2>2. /\ UNCHANGED <<Screen, OldScreenCache, GPU, alive, pending>>
          /\ pending = {} /\ g \in alive
          /\ calls' = Stacks(t, <<Call("BindScreen", g, s)>>)
      BY <1>0, <1>3, <1>4 DEF netFunc_bindScreen
    <2>3. <<Call("BindScreen", g, s)>> \o <<>> = <<Call("BindScreen", g, s)>>
      BY <2>1
    <2>4. Binding(t, <<>>, g, s)'
      BY <2>2, <2>3 DEF Binding, BelowGpu, Busy, Resting, Settled
    <2> QED
      BY <1>0, <2>2, <2>4 DEF BindInv, Traces, Screens0
  <1>5. ASSUME NEW o \in Gpus \cup Screens, EndPlay(o)
        PROVE  BindInv'
    <2> DEFINE D == <<Call("destroyed", o, NoOne)>>
    <2>1. /\ UNCHANGED <<Screen, OldScreenCache, GPU, alive, pending>>
          /\ pending = {} /\ o \in alive /\ D \in Bottom
      BY <1>5 DEF EndPlay, Bottom
    <2>2. CASE o \in Gpus
      <3>1. calls' = Stacks(Game, <<Call("BindScreen", o, NoOne),
                                    Call("destroyed", o, NoOne)>>)
        BY <1>0, <1>3, <1>5, <2>2 DEF EndPlay
      <3>2. <<Call("BindScreen", o, NoOne), Call("destroyed", o, NoOne)>>
              = <<Call("BindScreen", o, NoOne)>> \o D
        OBVIOUS
      <3>3. Binding(Game, D, o, NoOne)'
        BY <2>1, <3>1, <3>2 DEF Binding, BelowGpu, Busy, Resting, Settled
      <3> QED
        BY <1>0, <2>1, <2>2, <3>3 DEF BindInv, Traces, Screens0
    <2>3. CASE o \in Screens
      <3>1. calls' = Stacks(Game, <<Call("BindGPU", o, NoOne),
                                    Call("destroyed", o, NoOne)>>)
        BY <1>0, <1>3, <1>5, <2>3, NoOneApart DEF EndPlay
      <3>2. <<Call("BindGPU", o, NoOne), Call("destroyed", o, NoOne)>>
              = <<Call("BindGPU", o, NoOne)>> \o D
        OBVIOUS
      <3>3. /\ Without(Screen, {NoOne}) = Screen
            /\ Without(OldScreenCache, {NoOne}) = OldScreenCache
        BY NoOneApart DEF Without, Traces
      <3>4. Settled(Without(Screen, {NoOne}), Without(OldScreenCache, {NoOne}))'
        BY <2>1, <3>3 DEF Resting, Settled
      <3>5. Holds(NoOne, o)' /\ BelowScreen(D, NoOne, o)' /\ Unclaimed(o)'
        BY <2>1 DEF Holds, BelowScreen, Unclaimed
      <3>6. Taking(Game, D, NoOne, o)'
        BY <2>1, <3>1, <3>2, <3>4, <3>5 DEF Taking, Busy
      <3> QED
        BY <1>0, <2>1, <2>3, <3>6 DEF BindInv, Traces, Gpus0
    <2> QED
      BY <2>2, <2>3
  <1>6. ASSUME CollectGarbage
        PROVE  BindInv'
    <2>1. Traces'
      BY <1>6 DEF CollectGarbage, Traces, Screens0, Gpus0
    <2>2. Settled(Screen, OldScreenCache)'
      BY <1>6, NoOneApart
      DEF CollectGarbage, Resting, Settled, Agree, Traces, Screens0
    <2> QED
      BY <1>0, <1>6, <2>1, <2>2 DEF BindInv, Resting, Quiet, CollectGarbage,
                                    NoCalls
  <1>7. ASSUME Load
        PROVE  BindInv'
    <2>1. Traces'
      BY <1>7 DEF Load, Traces, Screens0, Gpus0
    <2>2. Settled(Screen, OldScreenCache)'
      BY <1>7, NoOneApart DEF Load, Resting, Settled, Agree, Traces, Screens0
    <2> QED
      BY <1>0, <1>7, <2>1, <2>2 DEF BindInv, Resting, Quiet, Load, NoCalls
  <1>8. ASSUME NEW g \in Gpus, BeginPlay(g)
        PROVE  BindInv'
    <2>1. /\ UNCHANGED <<Screen, OldScreenCache, GPU, alive>>
          /\ g \in pending /\ pending' = pending \ {g} /\ g \in alive
          /\ calls' = Stacks(Game, <<Call("UpdateScreen", g, NoOne)>>)
      BY <1>0, <1>3, <1>8 DEF BeginPlay, Traces
    <2>2. Call("UpdateScreen", g, NoOne) \in CallSet
      BY CallType DEF Labels
    <2>3. <<Call("UpdateScreen", g, NoOne)>> \o <<>>
            = <<Call("UpdateScreen", g, NoOne)>>
      BY <2>2
    <2>4. Unclaimed(Screen[g])'
      BY <2>1, NoOneApart
      DEF Unclaimed, Resting, Settled, Agree, Traces, Screens0
    <2>5. Settled([Screen EXCEPT ![g] = OldScreenCache[g]], OldScreenCache)'
      BY <2>1, NoOneApart DEF Resting, Settled, Agree, Traces, Screens0
    <2>6. Announcing(Game, <<>>, g, Screen[g])'
      BY <2>1, <2>3, <2>4, <2>5 DEF Announcing, BelowGpu, Busy
    <2> QED
      BY <1>0, <2>1, <2>6 DEF BindInv, Traces
  <1> QED
    BY <1>2, <1>4, <1>5, <1>6, <1>7, <1>8 DEF Next

LEMMA GoingStep ==
  ASSUME OneThread, Traces, NEW t \in AllThreads, NEW o \in Gpus \cup Screens,
         Going(t, o), Next
  PROVE  BindInv'
  <1> DEFINE a == Call("destroyed", o, NoOne)
  <1>1. a \in CallSet /\ a.at = "destroyed" /\ a.self = o
    BY CallType DEF Labels
  <1> HIDE DEF a
  <1>2. <<a>> = <<a>> \o <<>> /\ <<>> \in Seq(CallSet)
    BY <1>1
  <1>3. Busy(t, <<a>> \o <<>>)
    BY <1>2 DEF Going, a
  <1>4. /\ calls[t] # <<>> /\ Top(t) = a
        /\ \A l : At(t, l) <=> l = "destroyed"
        /\ \A u \in AllThreads : u # t => calls[u] = <<>>
        /\ calls # NoCalls
        /\ \A new : Instead(t, new) => calls' = Stacks(t, new \o <<>>)
    BY <1>1, <1>2, <1>3, BusyTop
  <1>5. Destroyed
    <2>1. \A u \in AllThreads : ~CallStep(u)
      BY <1>4 DEF CallStep, BindScreen, UpdateScreen, TellScreen, BindGPU,
                  TellGPU, At
    <2>2. ASSUME NEW u \in Threads, NEW g \in Gpus,
                 NEW s \in Screens \cup {NoOne}, netFunc_bindScreen(u, g, s)
          PROVE  FALSE
      BY <1>4, <2>2 DEF netFunc_bindScreen, OneThread, AllThreads
    <2> QED
      BY <1>4, <2>1, <2>2
      DEF Next, Quiet, EndPlay, CollectGarbage, Load, BeginPlay
  <1>6. t = Game
    BY <1>4, <1>5 DEF Destroyed, At, AllThreads
  <1>7. /\ alive' = alive \ {o} /\ calls' = Stacks(t, <<>>)
        /\ UNCHANGED <<Screen, OldScreenCache, GPU, pending>>
    BY <1>1, <1>4, <1>5, <1>6 DEF Destroyed, Returned
  <1>8. Traces'
    BY <1>7 DEF Traces, Going
  <1>9. Settled(Screen, OldScreenCache)'
    BY <1>7, NoOneApart DEF Going, Settled, Agree, Traces
  <1> QED
    BY <1>7, <1>8, <1>9 DEF BindInv, Resting, Quiet, NoCalls, Stacks

LEMMA BindInit ==
  Init => BindInv
  BY NoOneApart DEF Init, BindInv, Resting, Quiet, Traces, Settled, Agree,
                    Screens0, Gpus0

LEMMA BindStutter ==
  ASSUME BindInv, UNCHANGED vars
  PROVE  BindInv'
  <1>1. /\ UNCHANGED <<Screen, OldScreenCache, GPU>>
        /\ UNCHANGED <<calls, alive, pending>>
    BY DEF vars
  <1>2. ASSUME NEW t \in AllThreads, NEW D \in Bottom, NEW g \in Gpus,
               NEW x \in Screens0
        PROVE  /\ Binding(t, D, g, x) => Binding(t, D, g, x)'
               /\ Announcing(t, D, g, x) => Announcing(t, D, g, x)'
               /\ Leaving(t, D, g, x) => Leaving(t, D, g, x)'
               /\ Released(t, D, g, x) => Released(t, D, g, x)'
    <2>1. Binding(t, D, g, x) => Binding(t, D, g, x)'
      BY <1>1 DEF Binding, BelowGpu, Busy, Settled
    <2>2. Announcing(t, D, g, x) => Announcing(t, D, g, x)'
      BY <1>1 DEF Announcing, BelowGpu, Unclaimed, Busy, Settled
    <2>3. Leaving(t, D, g, x) => Leaving(t, D, g, x)'
      BY <1>1 DEF Leaving, BelowGpu, Unclaimed, Busy, Settled
    <2>4. Released(t, D, g, x) => Released(t, D, g, x)'
      BY <1>1 DEF Released, BelowGpu, Unclaimed, Busy, Settled, Without
    <2> QED
      BY <2>1, <2>2, <2>3, <2>4
  <1>3. ASSUME NEW t \in AllThreads, NEW D \in Bottom, NEW g \in Gpus0,
               NEW x \in Screens
        PROVE  /\ Taking(t, D, g, x) => Taking(t, D, g, x)'
               /\ \A o \in Gpus :
                    /\ LettingGo(t, D, g, x, o) => LettingGo(t, D, g, x, o)'
                    /\ Letting(t, D, g, x, o) => Letting(t, D, g, x, o)'
    <2>1. Taking(t, D, g, x) => Taking(t, D, g, x)'
      BY <1>1 DEF Taking, Holds, BelowScreen, Unclaimed, Busy, Settled, Without
    <2>2. ASSUME NEW o \in Gpus, LettingGo(t, D, g, x, o)
          PROVE  LettingGo(t, D, g, x, o)'
      BY <1>1, <2>2
      DEF LettingGo, Holds, BelowScreen, Unclaimed, Busy, Settled, Without
    <2>3. ASSUME NEW o \in Gpus, Letting(t, D, g, x, o)
          PROVE  Letting(t, D, g, x, o)'
      BY <1>1, <2>3
      DEF Letting, Holds, BelowScreen, Unclaimed, Busy, Settled, Without
    <2> QED
      BY <2>1, <2>2, <2>3
  <1>4. ASSUME NEW t \in AllThreads, NEW o \in Gpus \cup Screens, Going(t, o)
        PROVE  Going(t, o)'
    BY <1>1, <1>4 DEF Going, Busy, Settled
  <1>5. Traces' /\ (Resting => Resting')
    BY <1>1 DEF BindInv, Traces, Resting, Quiet, Settled
  <1> QED
    BY <1>2, <1>3, <1>4, <1>5 DEF BindInv

LEMMA BindStep ==
  ASSUME OneThread, BindInv, [Next]_vars
  PROVE  BindInv'
  <1>1. CASE UNCHANGED vars
    BY <1>1, BindStutter
  <1>2. CASE Next
    <2>1. CASE Resting
      BY <1>2, <2>1, RestingStep DEF BindInv
    <2>2. ASSUME NEW t \in AllThreads, NEW D \in Bottom, NEW g \in Gpus,
                 NEW x \in Screens0,
                 \/ Binding(t, D, g, x) \/ Announcing(t, D, g, x)
                 \/ Leaving(t, D, g, x) \/ Released(t, D, g, x)
          PROVE  BindInv'
      <3>1. Traces /\ Calling(t)
        BY <2>2, GpuStacks DEF BindInv
      <3>2. CallStep(t)
        BY <1>2, <3>1, CallingOnly
      <3> QED
        BY <2>2, <3>1, <3>2, BindingStep, AnnouncingStep, LeavingStep,
           ReleasedStep
    <2>3. ASSUME NEW t \in AllThreads, NEW D \in Bottom, NEW g \in Gpus0,
                 NEW x \in Screens,
                 \/ Taking(t, D, g, x)
                 \/ \E o \in Gpus : LettingGo(t, D, g, x, o)
                                      \/ Letting(t, D, g, x, o)
          PROVE  BindInv'
      <3>1. Traces /\ Calling(t)
        BY <2>3, ScreenStacks DEF BindInv
      <3>2. CallStep(t)
        BY <1>2, <3>1, CallingOnly
      <3> QED
        BY <2>3, <3>1, <3>2, TakingStep, LettingGoStep, LettingStep
    <2>4. ASSUME NEW t \in AllThreads, NEW o \in Gpus \cup Screens, Going(t, o)
          PROVE  BindInv'
      BY <1>2, <2>4, GoingStep DEF BindInv
    <2> QED
      BY <2>1, <2>2, <2>3, <2>4 DEF BindInv
  <1> QED
    BY <1>1, <1>2

-----------------------------------------------------------------------------
(* What follows.                                                           *)

LEMMA RestingIfQuiet ==
  ASSUME OneThread, BindInv, Quiet
  PROVE  Resting
  <1>1. ASSUME NEW t \in AllThreads, Calling(t)
        PROVE  FALSE
    BY <1>1, CallingOnly
  <1>2. ASSUME NEW t \in AllThreads, NEW o \in Gpus \cup Screens, Going(t, o)
        PROVE  FALSE
    BY <1>2 DEF Going, Busy, Stacks, Quiet, NoCalls
  <1> QED
    BY <1>1, <1>2, GpuStacks, ScreenStacks DEF BindInv

\* While one thread handles futures, the calls under way are always one of
\* the stacks listed above, and all objects but those it names agree.
THEOREM BindHolds ==
  ASSUME OneThread
  PROVE  Spec => []BindInv
  BY BindInit, BindStep, PTL DEF Spec

\* While one thread handles futures, a GPU and a screen agree whenever no
\* call is under way, however bindings, ends of objects, garbage collections
\* and loads follow each other.
THEOREM ScreensMutuallyBound ==
  ASSUME OneThread
  PROVE  Spec => []MutuallyBound
  <1>1. BindInv => MutuallyBound
    BY RestingIfQuiet DEF MutuallyBound, Resting, Settled, Agree
  <1> QED
    BY <1>1, BindHolds, PTL

\* While one thread handles futures, no call of these functions has more than
\* three others below it: calling each other, they do not use up the stack.
THEOREM NestsAtMostFour ==
  ASSUME OneThread
  PROVE  Spec => [](\A t \in AllThreads : Len(calls[t]) <= 4)
  <1>1. ASSUME BindInv, NEW t \in AllThreads
        PROVE  Len(calls[t]) <= 4
    <2>1. ASSUME NEW u \in AllThreads, Calling(u)
          PROVE  Len(calls[t]) <= 4
      <3>1. PICK a \in Binds, rest \in Seq(CallSet) :
              Len(rest) <= 3 /\ Busy(u, <<a>> \o rest)
        BY <2>1, WaitsAreCalls DEF Calling
      <3>2. Len(<<a>> \o rest) <= 4
        BY <3>1, PushLen DEF Binds
      <3>3. calls[t] = <<a>> \o rest \/ calls[t] = <<>>
        BY <3>1 DEF Busy, Stacks
      <3> QED
        BY <3>2, <3>3
    <2>2. ASSUME NEW u \in AllThreads, NEW o \in Gpus \cup Screens, Going(u, o)
          PROVE  Len(calls[t]) <= 4
      <3>1. calls[t] \in Bottom
        BY <2>2 DEF Going, Busy, Stacks, Bottom
      <3> QED
        BY <3>1, BottomLen, BottomType, LenProperties
    <2>3. Resting => calls[t] = <<>>
      BY DEF Resting, Quiet, NoCalls
    <2> QED
      BY <1>1, <2>1, <2>2, <2>3, GpuStacks, ScreenStacks DEF BindInv
  <1>2. BindInv => \A t \in AllThreads : Len(calls[t]) <= 4
    BY <1>1
  <1> QED
    BY <1>2, BindHolds, PTL
-----------------------------------------------------------------------------
(* Why the calls return: what they may still cost.                         *)

\* The steps that the calls of a stack cost, each as much as w says.
Total(s, w) ==
  LET cost(i) == IF i \in DOMAIN s THEN w[s[i]] ELSE 0
  IN  cost(1) + cost(2) + cost(3) + cost(4)

Costs == [c \in CallSet |-> StepsOf(c)]

LEMMA TotalOfPush ==
  ASSUME NEW w \in [CallSet -> Nat], NEW a \in CallSet, NEW s \in Seq(CallSet)
  PROVE  /\ Total(s, w) \in Nat /\ Total(<<a>> \o s, w) \in Nat
         /\ Total(<<a>> \o s, w) <= w[a] + Total(s, w)
         /\ Len(s) <= 3 => Total(<<a>> \o s, w) = w[a] + Total(s, w)
  <1> DEFINE n == Len(s)
             p == <<a>> \o s
             at(q, i) == IF i \in DOMAIN q THEN w[q[i]] ELSE 0
  <1>1. n \in Nat /\ DOMAIN s = 1 .. n /\ \A i \in 1 .. n : s[i] \in CallSet
    BY LenProperties
  <1>2. /\ <<a>> \in Seq(CallSet) /\ Len(<<a>>) = 1 /\ <<a>>[1] = a
    OBVIOUS
  <1>3. /\ DOMAIN p = 1 .. n + 1
        /\ p[1] = a /\ \A i \in 1 .. n : p[i + 1] = s[i]
    <2>1. /\ p \in Seq(CallSet) /\ Len(p) = 1 + n
          /\ \A i \in 1 .. 1 + n : p[i] = IF i <= 1 THEN a ELSE s[i - 1]
      BY <1>1, <1>2, ConcatProperties
    <2> HIDE DEF p, n
    <2>2. DOMAIN p = 1 .. n + 1
      BY <1>1, <2>1, LenProperties
    <2>3. \A i \in 1 .. n : i + 1 \in 1 .. 1 + n /\ ~(i + 1 <= 1) /\ (i + 1) - 1 = i
      BY <1>1
    <2> QED
      BY <1>1, <2>1, <2>2, <2>3
  <1> HIDE DEF p, n
  <1>4. /\ at(p, 1) = w[a] /\ at(p, 2) = at(s, 1)
        /\ at(p, 3) = at(s, 2) /\ at(p, 4) = at(s, 3)
    <2>1. 1 \in 1 .. n + 1
      BY <1>1
    <2>2. \A i \in {1, 2, 3} :
            /\ i \in 1 .. n <=> i + 1 \in 1 .. n + 1
            /\ i \in 1 .. n => p[i + 1] = s[i]
      BY <1>1, <1>3
    <2>3. /\ 1 \in 1 .. n <=> 2 \in 1 .. n + 1
          /\ 2 \in 1 .. n <=> 3 \in 1 .. n + 1
          /\ 3 \in 1 .. n <=> 4 \in 1 .. n + 1
          /\ 1 \in 1 .. n => p[2] = s[1]
          /\ 2 \in 1 .. n => p[3] = s[2]
          /\ 3 \in 1 .. n => p[4] = s[3]
      BY <2>2, 1 + 1 = 2, 2 + 1 = 3, 3 + 1 = 4
    <2> QED
      BY <1>1, <1>3, <2>1, <2>3
  <1>5. /\ at(s, 1) \in Nat /\ at(s, 2) \in Nat /\ at(s, 3) \in Nat
        /\ at(s, 4) \in Nat /\ w[a] \in Nat
    BY <1>1
  <1>6. n <= 3 => at(s, 4) = 0
    BY <1>1
  <1>7. /\ Total(s, w) = at(s, 1) + at(s, 2) + at(s, 3) + at(s, 4)
        /\ Total(p, w) = at(p, 1) + at(p, 2) + at(p, 3) + at(p, 4)
    BY DEF Total
  <1> HIDE DEF at
  <1>8. /\ Total(s, w) \in Nat /\ Total(p, w) \in Nat
        /\ Total(p, w) <= w[a] + Total(s, w)
        /\ n <= 3 => Total(p, w) = w[a] + Total(s, w)
    <2>1. PICK i \in Nat, j \in Nat, k \in Nat, l \in Nat, m \in Nat :
            /\ i = at(s, 1) /\ j = at(s, 2) /\ k = at(s, 3) /\ l = at(s, 4)
            /\ m = w[a]
      BY <1>5
    <2>2. Total(s, w) = i + j + k + l /\ Total(p, w) = m + i + j + k
      BY <1>4, <1>7, <2>1
    <2>3. n <= 3 => l = 0
      BY <1>6, <2>1
    <2>4. /\ i + j + k + l \in Nat /\ m + i + j + k \in Nat
          /\ m + i + j + k <= m + (i + j + k + l)
          /\ l = 0 => m + i + j + k = m + (i + j + k + l)
      OBVIOUS
    <2> QED
      BY <2>1, <2>2, <2>3, <2>4
  <1> QED
    BY <1>8 DEF p, n

\* Waiting calls cost the same wherever the traces point.
LEMMA TotalOfWaits ==
  ASSUME NEW s \in Seq(Waits), NEW w, NEW v, \A c \in Waits : w[c] = v[c]
  PROVE  Total(s, w) = Total(s, v)
  <1>1. \A i \in DOMAIN s : s[i] \in Waits
    BY LenProperties
  <1> QED
    BY <1>1 DEF Total

LEMMA StepsType ==
  ASSUME NEW c \in CallSet
  PROVE  /\ StepsOf(c) \in 0 .. 17 /\ StepsOf(c)' \in 0 .. 17
         /\ c \in Waits => StepsOf(c)' = StepsOf(c)
         /\ c.at # "destroyed" => StepsOf(c) > 0
  <1>1. \A s, g, x : Telling(s, g) \in {1, 7} /\ Handing(x) \in {1, 8}
    BY DEF Telling, Handing
  <1>2. \A s, g : Telling(s, g)' \in {1, 7}
    BY DEF Telling
  <1>3. c.at \in Labels
    BY DEF CallSet
  <1>4. StepsOf(c) \in 0 .. 17 /\ (c.at # "destroyed" => StepsOf(c) > 0)
    BY <1>1, <1>3 DEF StepsOf, Labels
  <1>5. StepsOf(c)' \in 0 .. 17
    BY <1>1, <1>2, <1>3 DEF StepsOf, Labels
  <1>6. ASSUME c \in Waits
        PROVE  StepsOf(c)' = StepsOf(c)
    BY <1>6 DEF StepsOf, Waits, Handing
  <1> QED
    BY <1>4, <1>5, <1>6

LEMMA CostOf ==
  /\ \A g \in Gpus, x \in Screens0 :
       StepsOf(Call("BindScreen", g, x)) =
         IF Screen[g] = x THEN 1
         ELSE 2 + Telling(OldScreenCache[g], NoOne) + Handing(x)
  /\ \A g \in Gpus :
       StepsOf(Call("UpdateScreen", g, NoOne)) =
         1 + Telling(OldScreenCache[g], NoOne) + Handing(Screen[g])
  /\ \A g \in Gpus, x \in Screens0 :
       StepsOf(Call("released", g, x)) = Handing(x)
  /\ \A s \in Screens, h \in Gpus0 :
       StepsOf(Call("BindGPU", s, h)) = IF GPU[s] = h THEN 1 ELSE 7
  /\ \A s \in Screens, h \in Gpus0 :
       StepsOf(Call("freed", s, h)) = IF h = NoOne THEN 1 ELSE 2
  BY DEF StepsOf, Call, Telling

LEMMA CostNext ==
  /\ \A g \in Gpus, x \in Screens0 :
       StepsOf(Call("BindScreen", g, x))' =
         IF Screen'[g] = x THEN 1
         ELSE 2 + Telling(OldScreenCache[g], NoOne)' + Handing(x)
  /\ \A g \in Gpus :
       StepsOf(Call("UpdateScreen", g, NoOne))' =
         1 + Telling(OldScreenCache[g], NoOne)' + Handing(Screen[g])'
  /\ \A g \in Gpus, x \in Screens0 :
       StepsOf(Call("released", g, x))' = Handing(x)
  /\ \A s \in Screens, h \in Gpus0 :
       StepsOf(Call("BindGPU", s, h))' = IF GPU'[s] = h THEN 1 ELSE 7
  /\ \A s \in Screens, h \in Gpus0 :
       StepsOf(Call("freed", s, h))' = IF h = NoOne THEN 1 ELSE 2
  BY DEF StepsOf, Call, Telling, Handing

\* What is left to a thread inside calls: the steps of the innermost one, and
\* those of the waiting ones, which are the same after any step.
LEMMA StepsOfStack ==
  ASSUME NEW t \in AllThreads, NEW a \in CallSet, NEW rest \in Seq(Waits),
         Len(rest) <= 3, Busy(t, <<a>> \o rest)
  PROVE  \E n \in Nat :
           /\ StepsLeft(t) = StepsOf(a) + n
           /\ calls' = Stacks(t, rest) => StepsLeft(t)' = n
           /\ \A b \in CallSet : calls' = Stacks(t, <<b>> \o rest) =>
                StepsLeft(t)' \in Nat /\ StepsLeft(t)' <= StepsOf(b)' + n
           /\ \A b \in CallSet, c \in CallSet :
                calls' = Stacks(t, <<b>> \o (<<c>> \o rest)) =>
                  /\ StepsLeft(t)' \in Nat
                  /\ StepsLeft(t)' <= StepsOf(b)' + StepsOf(c)' + n
  <1> DEFINE w == Costs
             v == [c \in CallSet |-> StepsOf(c)']
             n == Total(rest, w)
  <1>1. rest \in Seq(CallSet)
    BY WaitsAreCalls
  <1>2. w \in [CallSet -> Nat] /\ v \in [CallSet -> Nat]
    <2>1. \A c \in CallSet : StepsOf(c) \in 0 .. 17 /\ StepsOf(c)' \in 0 .. 17
      BY StepsType
    <2>2. w \in [CallSet -> Nat]
      BY <2>1 DEF Costs
    <2>3. v \in [CallSet -> Nat]
      BY <2>1
    <2> QED
      BY <2>2, <2>3
  <1>4. Total(rest, v) = n
    <2>1. \A c \in Waits : w[c] = v[c]
      BY WaitsAreCalls, StepsType DEF Costs
    <2> HIDE DEF w, v
    <2> QED
      BY <2>1, TotalOfWaits
  <1>5. ASSUME NEW s \in Seq(CallSet), calls[t] = s
        PROVE  StepsLeft(t) = Total(s, w)
    <2>1. \A i \in DOMAIN s : s[i] \in CallSet
      BY LenProperties
    <2> QED
      BY <1>5, <2>1 DEF StepsLeft, StepsAt, Total, Costs
  <1>6. ASSUME NEW s \in Seq(CallSet), calls' = Stacks(t, s)
        PROVE  StepsLeft(t)' = Total(s, v)
    <2>1. \A i \in DOMAIN s : s[i] \in CallSet
      BY LenProperties
    <2>2. calls'[t] = s
      BY <1>6 DEF Stacks
    <2> QED
      BY <2>1, <2>2 DEF StepsLeft, StepsAt, Total
  <1>7. w[a] = StepsOf(a) /\ \A c \in CallSet : v[c] = StepsOf(c)'
    BY DEF Costs
  <1> HIDE DEF w, v
  <1>8. n \in Nat
    BY <1>1, <1>2, TotalOfPush
  <1>9. StepsLeft(t) = StepsOf(a) + n
    <2>1. <<a>> \o rest \in Seq(CallSet)
      BY <1>1, PushType
    <2>2. calls[t] = <<a>> \o rest
      BY DEF Busy, Stacks
    <2> QED
      BY <1>1, <1>2, <1>5, <1>7, <2>1, <2>2, TotalOfPush
  <1>10. calls' = Stacks(t, rest) => StepsLeft(t)' = n
    BY <1>1, <1>4, <1>6
  <1>11. ASSUME NEW b \in CallSet, calls' = Stacks(t, <<b>> \o rest)
         PROVE  StepsLeft(t)' \in Nat /\ StepsLeft(t)' <= StepsOf(b)' + n
    <2>1. <<b>> \o rest \in Seq(CallSet)
      BY <1>1, PushType
    <2>2. StepsLeft(t)' = Total(<<b>> \o rest, v)
      BY <1>6, <1>11, <2>1
    <2> QED
      BY <1>1, <1>2, <1>4, <1>7, <2>2, TotalOfPush
  <1>12. ASSUME NEW b \in CallSet, NEW c \in CallSet,
                calls' = Stacks(t, <<b>> \o (<<c>> \o rest))
         PROVE  /\ StepsLeft(t)' \in Nat
                /\ StepsLeft(t)' <= StepsOf(b)' + StepsOf(c)' + n
    <2> DEFINE on == <<c>> \o rest
    <2>1. on \in Seq(CallSet)
      BY <1>1, PushType
    <2>2. Total(on, v) \in Nat /\ Total(on, v) <= StepsOf(c)' + n
      BY <1>1, <1>2, <1>4, <1>7, TotalOfPush
    <2> HIDE DEF on
    <2>3. <<b>> \o on \in Seq(CallSet)
      BY <2>1, PushType
    <2>4. StepsLeft(t)' = Total(<<b>> \o on, v)
      BY <1>6, <1>12, <2>3 DEF on
    <2>5. /\ Total(<<b>> \o on, v) \in Nat
          /\ Total(<<b>> \o on, v) <= StepsOf(b)' + Total(on, v)
      BY <1>2, <1>7, <2>1, TotalOfPush
    <2>6. StepsOf(b)' \in Nat /\ StepsOf(c)' \in Nat
      BY StepsType
    <2> QED
      BY <1>8, <2>2, <2>4, <2>5, <2>6
  <1> QED
    BY <1>8, <1>9, <1>10, <1>11, <1>12

\* A step of a thread inside calls leaves it fewer steps.
LEMMA CallShrinks ==
  ASSUME Traces, NEW t \in AllThreads, Calling(t), CallStep(t)
  PROVE  StepsLeft(t)' \in Nat /\ StepsLeft(t)' < StepsLeft(t)
  <1>1. PICK a \in Binds, rest \in Seq(Waits) :
          Meets(a) /\ Len(rest) <= 3 /\ Busy(t, <<a>> \o rest)
    BY DEF Calling
  <1>2. a \in CallSet /\ rest \in Seq(CallSet)
    BY WaitsAreCalls DEF Binds
  <1>3. PICK n \in Nat :
          /\ StepsLeft(t) = StepsOf(a) + n
          /\ calls' = Stacks(t, rest) => StepsLeft(t)' = n
          /\ \A b \in CallSet : calls' = Stacks(t, <<b>> \o rest) =>
               StepsLeft(t)' \in Nat /\ StepsLeft(t)' <= StepsOf(b)' + n
          /\ \A b \in CallSet, c \in CallSet :
               calls' = Stacks(t, <<b>> \o (<<c>> \o rest)) =>
                 /\ StepsLeft(t)' \in Nat
                 /\ StepsLeft(t)' <= StepsOf(b)' + StepsOf(c)' + n
    BY <1>1, <1>2, StepsOfStack
  <1>4. \A s, g, x : /\ Telling(s, g) \in {1, 7} /\ Handing(x) \in {1, 8}
                     /\ x # NoOne => Handing(x) = 8
    BY DEF Telling, Handing
  <1>5. \A s \in Screens, g \in Gpus0 :
          Telling(s, g) = IF GPU[s] = g THEN 1 ELSE 7
    BY DEF Telling
  <1>6. UNCHANGED GPU => \A s, g : Telling(s, g)' = Telling(s, g)
    BY DEF Telling
  <1>7. /\ NoOne \in Screens0 /\ NoOne \in Gpus0 /\ NoOne \notin alive
        /\ Handing(NoOne) = 1
    BY NoOneApart DEF Screens0, Gpus0, Traces, Handing
  <1>8. StepsOf(a) \in Nat /\ StepsOf(a) > 0
    BY <1>1, <1>2, StepsType DEF Binds
  <1>9. calls' = Stacks(t, rest) =>
          StepsLeft(t)' \in Nat /\ StepsLeft(t)' < StepsLeft(t)
    BY <1>3, <1>8
  <1>10. ASSUME NEW g \in Gpus, NEW x \in Screens0, a = Call("BindScreen", g, x)
         PROVE  StepsLeft(t)' \in Nat /\ StepsLeft(t)' < StepsLeft(t)
    <2> DEFINE b == Call("UpdateScreen", g, NoOne)
    <2>1. /\ UNCHANGED <<OldScreenCache, GPU>>
          /\ \/ calls' = Stacks(t, rest)
             \/ /\ Screen[g] # x /\ Screen' = [Screen EXCEPT ![g] = x]
                /\ calls' = Stacks(t, <<b>> \o rest)
      BY <1>1, <1>2, <1>10, DoBindScreen
    <2>2. CASE Screen[g] # x /\ Screen' = [Screen EXCEPT ![g] = x]
               /\ calls' = Stacks(t, <<b>> \o rest)
      <3>1. Screen'[g] = x
        BY <2>2 DEF Traces
      <3>2. Handing(Screen[g])' = Handing(x)
        BY <3>1 DEF Handing
      <3>3. StepsOf(b)' = 1 + Telling(OldScreenCache[g], NoOne) + Handing(x)
        BY <1>6, <2>1, <3>2, CostNext, <1>7
      <3>4. StepsOf(a) = 2 + Telling(OldScreenCache[g], NoOne) + Handing(x)
        BY <1>7, <1>10, <2>2, CostOf
      <3>5. b \in CallSet
        BY CallType DEF Labels
      <3> QED
        BY <1>3, <1>4, <2>2, <3>3, <3>4, <3>5
    <2> QED
      BY <1>9, <2>1, <2>2
  <1>11. ASSUME NEW g \in Gpus, a = Call("UpdateScreen", g, NoOne)
         PROVE  StepsLeft(t)' \in Nat /\ StepsLeft(t)' < StepsLeft(t)
    <2>0. PICK x \in Screens0, old \in Screens0 :
            x = Screen[g] /\ old = OldScreenCache[g]
      BY DEF Traces
    <2> DEFINE b == Call("BindGPU", old, NoOne)
               c == Call("released", g, x)
    <2>1. /\ UNCHANGED <<OldScreenCache, GPU>>
          /\ \/ calls' = Stacks(t, <<c>> \o rest)
             \/ old \in alive /\ calls' = Stacks(t, <<b>> \o (<<c>> \o rest))
      BY <1>1, <1>2, <1>11, <2>0, DoUpdateScreen
    <2>2. StepsOf(a) = 1 + Telling(old, NoOne) + Handing(x)
      BY <1>7, <1>11, <2>0, CostOf
    <2>3. c \in CallSet /\ StepsOf(c)' = Handing(x)
      BY <1>7, CallType, CostNext DEF Labels, Screens0
    <2>4. ASSUME old \in alive
          PROVE  b \in CallSet /\ StepsOf(b)' = Telling(old, NoOne)
      <3>1. old \in Screens
        BY <1>7, <2>4 DEF Screens0
      <3>2. StepsOf(b)' = IF GPU'[old] = NoOne THEN 1 ELSE 7
        BY <1>7, <3>1, CostNext
      <3>3. Telling(old, NoOne) = IF GPU[old] = NoOne THEN 1 ELSE 7
        BY <1>5, <1>7, <3>1
      <3> QED
        BY <2>1, <3>1, <3>2, <3>3, CallType DEF Labels
    <2> HIDE DEF b, c
    <2> QED
      BY <1>3, <1>4, <2>1, <2>2, <2>3, <2>4
  <1>12. ASSUME NEW g \in Gpus, NEW x \in Screens0, a = Call("released", g, x)
         PROVE  StepsLeft(t)' \in Nat /\ StepsLeft(t)' < StepsLeft(t)
    <2> DEFINE b == Call("BindGPU", x, g)
    <2>1. \/ calls' = Stacks(t, rest)
          \/ x \in alive /\ calls' = Stacks(t, <<b>> \o rest)
      BY <1>1, <1>2, <1>12, DoTellScreen
    <2>2. CASE x \in alive /\ calls' = Stacks(t, <<b>> \o rest)
      <3>1. x \in Screens /\ g \in Gpus0 /\ x # NoOne
        BY <1>7, <2>2 DEF Screens0, Gpus0
      <3>2. b \in CallSet /\ StepsOf(b)' \in {1, 7}
        BY <3>1, CallType, CostNext, <1>7 DEF Labels
      <3>3. StepsOf(a) = 8
        BY <1>4, <1>7, <1>12, <3>1, CostOf
      <3> QED
        BY <1>3, <2>2, <3>2, <3>3
    <2> QED
      BY <1>9, <2>1, <2>2
  <1>13. ASSUME NEW s \in Screens, NEW x \in Gpus0, a = Call("BindGPU", s, x)
         PROVE  StepsLeft(t)' \in Nat /\ StepsLeft(t)' < StepsLeft(t)
    <2>0. PICK old \in Gpus0 : old = GPU[s]
      BY DEF Traces
    <2> DEFINE b == Call("BindScreen", old, NoOne)
               c == Call("freed", s, x)
    <2>1. /\ UNCHANGED <<Screen, OldScreenCache>>
          /\ \/ calls' = Stacks(t, rest)
             \/ /\ old # x /\ GPU' = [GPU EXCEPT ![s] = NoOne]
                /\ \/ calls' = Stacks(t, <<c>> \o rest)
                   \/ old \in alive /\ calls' = Stacks(t, <<b>> \o (<<c>> \o rest))
      BY <1>1, <1>2, <1>13, <2>0, DoBindGPU
    <2>2. CASE old # x /\ GPU' = [GPU EXCEPT ![s] = NoOne]
      <3>1. StepsOf(a) = 7
        BY <1>7, <1>13, <2>0, <2>2, CostOf
      <3>2. c \in CallSet /\ StepsOf(c)' \in {1, 2}
        BY <1>7, CallType, CostNext DEF Labels, Gpus0
      <3>3. ASSUME old \in alive
            PROVE  b \in CallSet /\ StepsOf(b)' \in {1, 4}
        <4>1. old \in Gpus /\ b \in CallSet
          BY <1>7, <3>3, CallType DEF Gpus0, Labels
        <4>2. Screen[old] = NoOne \/ OldScreenCache[old] = s
          BY <1>1, <1>13, <2>0, <2>2, <3>3 DEF Meets, Call
        <4>3. StepsOf(b)' = IF Screen[old] = NoOne THEN 1
                            ELSE 2 + Telling(OldScreenCache[old], NoOne)' + 1
          BY <1>7, <2>1, <4>1, CostNext
        <4>4. Telling(s, NoOne)' = 1
          BY <2>2 DEF Telling, Traces
        <4>5. OldScreenCache[old] = s => Telling(OldScreenCache[old], NoOne)' = 1
          BY <2>1, <4>4 DEF Telling
        <4> QED
          BY <4>1, <4>2, <4>3, <4>5
      <3> HIDE DEF b, c
      <3> QED
        BY <1>3, <1>9, <2>1, <3>1, <3>2, <3>3
    <2> QED
      BY <1>9, <2>1, <2>2
  <1>14. ASSUME NEW s \in Screens, NEW x \in Gpus0, a = Call("freed", s, x),
                x \in alive => Screen[x] = s
         PROVE  StepsLeft(t)' \in Nat /\ StepsLeft(t)' < StepsLeft(t)
    <2> DEFINE b == Call("BindScreen", x, s)
    <2>1. /\ UNCHANGED <<Screen, OldScreenCache>>
          /\ \/ calls' = Stacks(t, rest)
             \/ x \in alive /\ calls' = Stacks(t, <<b>> \o rest)
      BY <1>1, <1>2, <1>14, DoTellGPU
    <2>2. CASE x \in alive /\ calls' = Stacks(t, <<b>> \o rest)
      <3>1. x \in Gpus /\ x # NoOne /\ s \in Screens0
        BY <1>7, <2>2 DEF Gpus0, Screens0
      <3>2. b \in CallSet /\ StepsOf(b)' = 1
        BY <1>7, <1>14, <2>1, <2>2, <3>1, CallType, CostNext DEF Labels
      <3>3. StepsOf(a) = 2
        BY <1>7, <1>14, <3>1, CostOf
      <3> QED
        BY <1>3, <2>2, <3>2, <3>3
    <2> QED
      BY <1>9, <2>1, <2>2
  <1>15. \/ \E g \in Gpus, x \in Screens0 : a = Call("BindScreen", g, x)
         \/ \E g \in Gpus : a = Call("UpdateScreen", g, NoOne)
         \/ \E g \in Gpus, x \in Screens0 : a = Call("released", g, x)
         \/ \E s \in Screens, x \in Gpus0 : a = Call("BindGPU", s, x)
         \/ \E s \in Screens, x \in Gpus0 :
              a = Call("freed", s, x) /\ (x \in alive => Screen[x] = s)
    BY <1>1 DEF Meets
  <1> QED
    BY <1>10, <1>11, <1>12, <1>13, <1>14, <1>15

\* A thread that takes a step in a call is inside calls that bind something, and
\* no other thread is inside any.
LEMMA SteppingCalls ==
  ASSUME BindInv, NEW t \in AllThreads, CallStep(t)
  PROVE  Calling(t)
  <1>1. \E l \in {"BindScreen", "UpdateScreen", "released", "BindGPU", "freed"} :
          At(t, l)
    BY DEF CallStep, BindScreen, UpdateScreen, TellScreen, BindGPU, TellGPU
  <1>2. calls[t] # <<>> /\ ~At(t, "destroyed")
    BY <1>1 DEF At
  <1>3. ASSUME NEW u \in AllThreads, Calling(u)
        PROVE  Calling(t)
    BY <1>2, <1>3 DEF Calling, Busy, Stacks
  <1>4. ASSUME NEW u \in AllThreads, NEW o \in Gpus \cup Screens, Going(u, o)
        PROVE  FALSE
    <2>1. Call("destroyed", o, NoOne).at = "destroyed"
      BY DEF Call
    <2>2. calls[t] = <<Call("destroyed", o, NoOne)>>
      BY <1>2, <1>4 DEF Going, Busy, Stacks
    <2> QED
      BY <1>2, <2>1, <2>2 DEF At, Top
  <1>5. ~Resting
    BY <1>2 DEF Resting, Quiet, NoCalls
  <1> QED
    BY <1>3, <1>4, <1>5, GpuStacks, ScreenStacks DEF BindInv

StepsBounded == \A t \in AllThreads : StepsLeft(t) \in 0 .. 17

LEMMA NoStepsLeft ==
  ASSUME NEW t \in AllThreads
  PROVE  /\ calls[t] = <<>> => StepsLeft(t) = 0
         /\ calls'[t] = <<>> => StepsLeft(t)' = 0
         /\ \A c \in CallSet : calls'[t] = <<c>> => StepsLeft(t)' \in 0 .. 17
         /\ \A c \in CallSet, d \in CallSet :
              calls'[t] = <<c, d>> /\ d.at = "destroyed" =>
                StepsLeft(t)' \in 0 .. 17
  <1>1. DOMAIN <<>> = {} /\ 1 \notin {} /\ 2 \notin {} /\ 3 \notin {} /\ 4 \notin {}
    OBVIOUS
  <1>2. calls[t] = <<>> => StepsLeft(t) = 0
    BY <1>1 DEF StepsLeft, StepsAt
  <1>3. calls'[t] = <<>> => StepsLeft(t)' = 0
    BY <1>1 DEF StepsLeft, StepsAt
  <1>4. ASSUME NEW c \in CallSet, calls'[t] = <<c>>
        PROVE  StepsLeft(t)' \in 0 .. 17
    <2>1. /\ 1 \in DOMAIN <<c>> /\ 2 \notin DOMAIN <<c>> /\ 3 \notin DOMAIN <<c>>
          /\ 4 \notin DOMAIN <<c>> /\ <<c>>[1] = c
      OBVIOUS
    <2>2. StepsOf(c)' \in 0 .. 17
      BY StepsType
    <2>3. StepsLeft(t)' = StepsOf(c)' + 0 + 0 + 0
      BY <1>4, <2>1 DEF StepsLeft, StepsAt
    <2> QED
      BY <2>2, <2>3
  <1>5. ASSUME NEW c \in CallSet, NEW d \in CallSet, calls'[t] = <<c, d>>,
               d.at = "destroyed"
        PROVE  StepsLeft(t)' \in 0 .. 17
    <2>1. /\ 1 \in DOMAIN <<c, d>> /\ 2 \in DOMAIN <<c, d>>
          /\ 3 \notin DOMAIN <<c, d>> /\ 4 \notin DOMAIN <<c, d>>
          /\ <<c, d>>[1] = c /\ <<c, d>>[2] = d
      OBVIOUS
    <2>2. StepsOf(c)' \in 0 .. 17 /\ StepsOf(d)' = 0
      BY <1>5, StepsType DEF StepsOf
    <2>3. StepsLeft(t)' = StepsOf(c)' + StepsOf(d)' + 0 + 0
      BY <1>5, <2>1 DEF StepsLeft, StepsAt
    <2> QED
      BY <2>2, <2>3
  <1> QED
    BY <1>2, <1>3, <1>4, <1>5

LEMMA BoundStep ==
  ASSUME OneThread, BindInv, StepsBounded, [Next]_vars
  PROVE  StepsBounded'
  <1> SUFFICES ASSUME NEW u \in AllThreads
               PROVE  StepsLeft(u)' \in 0 .. 17
    BY DEF StepsBounded
  <1>1. UNCHANGED calls /\ calls[u] = <<>> => StepsLeft(u)' \in 0 .. 17
    BY NoStepsLeft
  <1>2. Quiet => calls[u] = <<>>
    BY DEF Quiet, NoCalls
  <1>3. calls'[u] = <<>> => StepsLeft(u)' \in 0 .. 17
    BY NoStepsLeft
  <1>4. ASSUME UNCHANGED vars
        PROVE  StepsLeft(u)' \in 0 .. 17
    <2>1. StepsLeft(u)' = StepsLeft(u)
      BY <1>4 DEF vars, StepsLeft, StepsAt, StepsOf, Telling, Handing
    <2> QED
      BY <2>1 DEF StepsBounded
  <1>5. ASSUME NEW t \in AllThreads, CallStep(t)
        PROVE  StepsLeft(u)' \in 0 .. 17
    <2>1. Calling(t)
      BY <1>5, SteppingCalls
    <2>2. CASE u = t
      <3>1. StepsLeft(t)' \in Nat /\ StepsLeft(t)' < StepsLeft(t)
        BY <1>5, <2>1, CallShrinks DEF BindInv
      <3> QED
        BY <2>2, <3>1 DEF StepsBounded
    <2>3. CASE u # t
      <3>1. calls[u] = <<>>
        BY <2>1, <2>3 DEF Calling, Busy, Stacks
      <3>2. \E new : calls' = [calls EXCEPT ![t] = new]
        BY <1>5 DEF CallStep, BindScreen, UpdateScreen, TellScreen, BindGPU,
                    TellGPU, Instead, Returned
      <3>3. calls'[u] = <<>>
        BY <2>3, <3>1, <3>2
      <3> QED
        BY <1>3, <3>3
    <2> QED
      BY <2>2, <2>3
  <1>6. ASSUME NEW t \in Threads, NEW g \in Gpus, NEW s \in Screens \cup {NoOne},
               netFunc_bindScreen(t, g, s)
        PROVE  StepsLeft(u)' \in 0 .. 17
    <2>1. calls' = [calls EXCEPT ![t] = <<Call("BindScreen", g, s)>>]
          /\ calls[Game] = <<>> /\ calls[t] = <<>>
      BY <1>6 DEF netFunc_bindScreen
    <2>2. calls[u] = <<>>
      BY <2>1 DEF OneThread, AllThreads
    <2>3. Call("BindScreen", g, s) \in CallSet
      BY CallType DEF Labels
    <2>4. calls'[u] = <<>> \/ calls'[u] = <<Call("BindScreen", g, s)>>
      BY <2>1, <2>2
    <2> QED
      BY <2>3, <2>4, NoStepsLeft
  <1>7. ASSUME NEW o \in Gpus \cup Screens, EndPlay(o)
        PROVE  StepsLeft(u)' \in 0 .. 17
    <2> DEFINE d == Call("destroyed", o, NoOne)
    <2>1. /\ d \in CallSet /\ d.at = "destroyed"
          /\ Call("BindScreen", o, NoOne) \in CallSet
          /\ Call("BindGPU", o, NoOne) \in CallSet
      BY CallType DEF Labels
    <2> HIDE DEF d
    <2>2. PICK c \in CallSet : calls' = [calls EXCEPT ![Game] = <<c, d>>]
      BY <1>7, <2>1 DEF EndPlay, d
    <2>3. calls[u] = <<>>
      BY <1>2, <1>7 DEF EndPlay
    <2>4. calls'[u] = <<>> \/ calls'[u] = <<c, d>>
      BY <2>2, <2>3
    <2> QED
      BY <2>1, <2>4, NoStepsLeft
  <1>8. ASSUME Destroyed
        PROVE  StepsLeft(u)' \in 0 .. 17
    <2>1. Game \in AllThreads /\ calls[Game] # <<>> /\ At(Game, "destroyed")
      BY <1>8 DEF Destroyed, At, AllThreads
    <2>2. PICK o \in Gpus \cup Screens, t \in AllThreads : Going(t, o)
      <3>1. ASSUME NEW t \in AllThreads, Calling(t)
            PROVE  FALSE
        BY <2>1, <3>1, BusyTop, WaitsAreCalls
        DEF Calling, Binds, Busy, Stacks, At, Top
      <3>2. ~Resting
        BY <2>1 DEF Resting, Quiet, NoCalls
      <3> QED
        BY <3>1, <3>2, GpuStacks, ScreenStacks DEF BindInv
    <2>3. calls = Stacks(Game, <<Call("destroyed", o, NoOne)>>)
      BY <2>1, <2>2 DEF Going, Busy, Stacks
    <2>4. calls' = [calls EXCEPT ![Game] = <<>> \o Tail(calls[Game])]
      BY <1>8 DEF Destroyed, Returned, Instead
    <2>5. calls[Game] = <<Call("destroyed", o, NoOne)>>
      BY <2>1, <2>3 DEF Stacks
    <2>6. <<>> \o Tail(<<Call("destroyed", o, NoOne)>>) = <<>>
      OBVIOUS
    <2>7. calls'[u] = <<>>
      BY <2>1, <2>3, <2>4, <2>5, <2>6 DEF Stacks
    <2> QED
      BY <1>3, <2>7
  <1>9. ASSUME CollectGarbage \/ Load
        PROVE  StepsLeft(u)' \in 0 .. 17
    BY <1>1, <1>2, <1>9 DEF CollectGarbage, Load
  <1>10. ASSUME NEW g \in Gpus, BeginPlay(g)
         PROVE  StepsLeft(u)' \in 0 .. 17
    <2>1. /\ Call("UpdateScreen", g, NoOne) \in CallSet /\ calls[u] = <<>>
          /\ calls' = [calls EXCEPT ![Game] = <<Call("UpdateScreen", g, NoOne)>>]
      BY <1>2, <1>10, CallType DEF Labels, BeginPlay
    <2>2. calls'[u] = <<>> \/ calls'[u] = <<Call("UpdateScreen", g, NoOne)>>
      BY <2>1
    <2> QED
      BY <2>1, <2>2, NoStepsLeft
  <1> QED
    BY <1>4, <1>5, <1>6, <1>7, <1>8, <1>9, <1>10 DEF Next

\* While one thread handles futures, the functions that call each other do not
\* do so for ever: at most seventeen steps are ever left of the calls of a thread,
\* and each of its steps is one of them.
THEOREM BindingsEnd ==
  ASSUME OneThread
  PROVE  Spec => CallsEnd
  <1>1. Init => StepsBounded
    <2>1. ASSUME Init, NEW t \in AllThreads
          PROVE  StepsLeft(t) \in 0 .. 17
      BY <2>1, NoStepsLeft DEF Init, NoCalls
    <2> QED
      BY <2>1 DEF StepsBounded
  <1>2. BindInv /\ StepsBounded /\ [Next]_vars => StepsBounded'
    BY BoundStep
  <1>3. BindInv /\ [Next]_vars =>
          [\A t \in AllThreads :
             CallStep(t) => StepsLeft(t)' < StepsLeft(t)]_vars
    BY SteppingCalls, CallShrinks DEF BindInv
  <1>4. StepsBounded <=> \A t \in AllThreads : StepsLeft(t) \in 0 .. 17
    BY DEF StepsBounded
  <1>5. Spec => []StepsBounded
    BY <1>1, <1>2, BindHolds, PTL DEF Spec
  <1>6. Spec => [](\A t \in AllThreads : StepsLeft(t) \in 0 .. 17)
    BY <1>4, <1>5, PTL
  <1>7. Spec => [][\A t \in AllThreads :
                    CallStep(t) => StepsLeft(t)' < StepsLeft(t)]_vars
    BY <1>3, BindHolds, PTL DEF Spec
  <1> QED
    BY <1>6, <1>7 DEF CallsEnd

=============================================================================
