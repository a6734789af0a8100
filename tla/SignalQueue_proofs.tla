-------------------------- MODULE SignalQueue_proofs --------------------------
(***************************************************************************)
(* Proofs about SignalQueue, for any computers, objects, threads, lengths  *)
(* of queues and numbers of signals, across saves and loads.               *)
(***************************************************************************)
EXTENDS SignalQueue, TLAPS, FiniteSetTheorems, FunctionTheorems, SequenceTheorems

----------------------------------------------------------------------------
(* Induction.  The theorems of the library take the predicate as a         *)
(* parameter; here it is the set of the numbers it holds of.               *)

\* A set of naturals that is not empty has a least element.
LEMMA LeastOfFinite ==
  ASSUME NEW T \in SUBSET Nat, IsFiniteSet(T), T # {}
  PROVE  \E m \in T : \A k \in T : m <= k
<1> DEFINE Below(t) == {s \in T : s < t}
           n == Cardinality(T)
           rank == [t \in T |-> Cardinality(Below(t))]
<1>1. ASSUME NEW t \in T PROVE IsFiniteSet(Below(t)) /\ Cardinality(Below(t)) \in 0 .. n - 1
  <2>1. Below(t) \in SUBSET T /\ Below(t) # T
    OBVIOUS
  <2>2. QED
    BY <2>1, FS_Subset, FS_CardinalityType
<1>2. n \in Nat /\ n # 0
  BY FS_CardinalityType, FS_EmptySet
<1>3. ASSUME NEW s \in T, NEW t \in T, s < t PROVE Cardinality(Below(s)) # Cardinality(Below(t))
  <2>1. Below(s) \in SUBSET Below(t) /\ Below(s) # Below(t)
    <3>1. s \in Below(t) /\ s \notin Below(s)
      BY <1>3
    <3>2. ASSUME NEW x \in T, x < s PROVE x < t
      <4>1. x \in Nat /\ s \in Nat /\ t \in Nat
        OBVIOUS
      <4>2. QED
        BY <1>3, <3>2, <4>1
    <3>3. QED
      BY <3>1, <3>2
  <2>2. QED
    BY <1>1, <2>1, FS_Subset
<1>4. rank \in Injection(T, 0 .. n - 1)
  <2>1. rank \in [T -> 0 .. n - 1]
    BY <1>1
  <2>2. ASSUME NEW s \in T, NEW t \in T, s # t PROVE rank[s] # rank[t]
    BY <1>3, <2>2
  <2> HIDE DEF rank, n
  <2>3. QED
    BY <2>1, <2>2 DEF Injection, IsInjective
<1>5. IsFiniteSet(0 .. n - 1) /\ Cardinality(0 .. n - 1) = n
  BY <1>2, FS_Interval
<1>6. PICK m \in T : rank[m] = 0
  <2>1. rank \in Surjection(T, 0 .. n - 1)
    BY <1>4, <1>5, FS_Injection
  <2>2. 0 \in 0 .. n - 1
    BY <1>2
  <2> HIDE DEF rank, n
  <2>3. QED
    BY <2>1, <2>2 DEF Surjection
<1>7. Below(m) = {}
  BY <1>1, <1>6, FS_EmptySet
<1>8. QED
  BY <1>7

\* Induction over the naturals, with the set of the numbers that have been done
\* in the place of a predicate.
LEMMA InductionBySet ==
  ASSUME NEW D, 0 \in D, \A n \in Nat : n \in D => n + 1 \in D
  PROVE  Nat \subseteq D
<1> SUFFICES ASSUME NEW n \in Nat, n \notin D PROVE FALSE
  OBVIOUS
<1> DEFINE T == {k \in 0 .. n : k \notin D}
<1>1. T \in SUBSET Nat /\ IsFiniteSet(T) /\ T # {}
  <2>1. IsFiniteSet(0 .. n) /\ T \in SUBSET (0 .. n)
    BY FS_Interval
  <2>2. QED
    BY <2>1, FS_Subset
<1>2. PICK m \in T : \A k \in T : m <= k
  BY <1>1, LeastOfFinite
<1>3. m # 0 /\ m - 1 \in 0 .. n /\ m - 1 \notin T
  BY <1>2
<1>4. QED
  BY <1>3


----------------------------------------------------------------------------
(* What Without returns.                                                   *)

\* The lists kept by the loop of Without up to each place of a list.
Keeps(f, n, list, R) ==
  f = [i \in 0 .. n |->
        IF i = 0 THEN <<>>
        ELSE IF list[i] \in R THEN f[i - 1] ELSE Append(f[i - 1], list[i])]

LEMMA KeepsExists ==
  ASSUME NEW list, NEW R, NEW n \in Nat
  PROVE  \E f : Keeps(f, n, list, R)
<1> DEFINE D == {m \in Nat : \E f : Keeps(f, m, list, R)}
<1>1. 0 \in D
  <2> DEFINE f == [i \in 0 .. 0 |-> <<>>]
  <2>1. Keeps(f, 0, list, R)
    BY DEF Keeps
  <2>2. QED
    BY <2>1
<1>2. ASSUME NEW m \in Nat, m \in D PROVE m + 1 \in D
  <2>1. PICK f : Keeps(f, m, list, R)
    BY <1>2
  <2> DEFINE x == IF list[m + 1] \in R THEN f[m] ELSE Append(f[m], list[m + 1])
             g == [i \in 0 .. m + 1 |-> IF i <= m THEN f[i] ELSE x]
             G(i) == IF i = 0 THEN <<>>
                     ELSE IF list[i] \in R THEN g[i - 1]
                          ELSE Append(g[i - 1], list[i])
  <2>2. ASSUME NEW i \in 0 .. m + 1
        PROVE  g[i] = G(i)
    <3>1. CASE i = m + 1
      BY <3>1
    <3>2. CASE i \in 0 .. m
      <4>1. g[i] = f[i]
        BY <3>2
      <4>2. i # 0 => g[i - 1] = f[i - 1]
        BY <3>2
      <4>3. f[i] = IF i = 0 THEN <<>>
                   ELSE IF list[i] \in R THEN f[i - 1] ELSE Append(f[i - 1], list[i])
        BY <2>1, <3>2 DEF Keeps
      <4> HIDE DEF g
      <4>4. QED
        BY <4>1, <4>2, <4>3
    <3>3. QED
      BY <3>1, <3>2
  <2>3. g = [i \in 0 .. m + 1 |-> g[i]]
    OBVIOUS
  <2> HIDE DEF g
  <2>4. Keeps(g, m + 1, list, R)
    BY <2>2, <2>3 DEF Keeps
  <2>5. QED
    BY <2>4
<1> HIDE DEF D
<1>3. Nat \subseteq D
  BY <1>1, <1>2, InductionBySet
<1>4. QED
  BY <1>3 DEF D

LEMMA WithoutKeeps ==
  ASSUME NEW list, NEW R, Len(list) \in Nat
  PROVE  \E f : Keeps(f, Len(list), list, R) /\ Without(list, R) = f[Len(list)]
<1>1. \E f : Keeps(f, Len(list), list, R)
  BY KeepsExists
<1>2. QED
  BY <1>1, Zenon DEF Without, Keeps

LEMMA AppendToList ==
  ASSUME NEW C, NEW s \in Seq(C), NEW c \in C
  PROVE  /\ Append(s, c) \in Seq(C) /\ Append(s, c) # <<>>
         /\ ToSet(Append(s, c)) = ToSet(s) \cup {c}
         /\ IsInjective(s) /\ c \notin ToSet(s) => IsInjective(Append(s, c))
<1>1. /\ Append(s, c) \in Seq(C) /\ Append(s, c) # <<>>
      /\ Len(Append(s, c)) = Len(s) + 1
      /\ \A i \in 1 .. Len(s) : Append(s, c)[i] = s[i]
      /\ Append(s, c)[Len(s) + 1] = c
  BY AppendProperties
<1>2. /\ DOMAIN s = 1 .. Len(s) /\ Len(s) \in Nat
      /\ DOMAIN Append(s, c) = 1 .. Len(s) + 1
  BY <1>1, LenProperties
<1>3. PICK n \in Nat : n = Len(s)
  BY <1>2
<1>4. PICK a : a = Append(s, c)
  OBVIOUS
<1>5. ToSet(a) = ToSet(s) \cup {c}
  BY <1>1, <1>2, <1>3, <1>4 DEF ToSet
<1>6. ASSUME IsInjective(s), c \notin ToSet(s) PROVE IsInjective(a)
  BY <1>1, <1>2, <1>3, <1>4, <1>6 DEF ToSet, IsInjective
<1>7. QED
  BY <1>1, <1>4, <1>5, <1>6

\* Without keeps of a list what is not in R: in its order, without doubling.
LEMMA WithoutProperties ==
  ASSUME NEW C, NEW list \in Seq(C), NEW R
  PROVE  /\ Without(list, R) \in Seq(C)
         /\ ToSet(Without(list, R)) = ToSet(list) \ R
         /\ IsInjective(list) => IsInjective(Without(list, R))
         /\ list = <<>> => Without(list, R) = <<>>
<1>1. PICK n \in Nat : n = Len(list)
  BY LenProperties
<1>2. list \in [1 .. n -> C] /\ DOMAIN list = 1 .. n
  BY <1>1, LenProperties
<1>3. PICK f : Keeps(f, n, list, R) /\ Without(list, R) = f[n]
  BY <1>1, WithoutKeeps
<1> DEFINE Good(m) ==
             /\ f[m] \in Seq(C)
             /\ ToSet(f[m]) = {list[i] : i \in 1 .. m} \ R
             /\ IsInjective(list) => IsInjective(f[m])
           D == {m \in Nat : m <= n => Good(m)}
<1>4. 0 \in D
  <2>1. f[0] = <<>>
    BY <1>3 DEF Keeps
  <2>2. ToSet(<<>>) = {} /\ IsInjective(<<>>) /\ <<>> \in Seq(C)
    BY DEF ToSet, IsInjective
  <2>3. {list[i] : i \in 1 .. 0} = {}
    OBVIOUS
  <2>4. QED
    BY <2>1, <2>2, <2>3
<1>5. ASSUME NEW m \in Nat, m \in D PROVE m + 1 \in D
  <2> SUFFICES ASSUME m + 1 <= n PROVE Good(m + 1)
    OBVIOUS
  <2>1. Good(m)
    BY <1>5
  <2>2. m + 1 \in 1 .. n /\ list[m + 1] \in C
    BY <1>2
  <2>3. f[m + 1] = IF list[m + 1] \in R THEN f[m] ELSE Append(f[m], list[m + 1])
    <3>1. /\ m + 1 \in 0 .. n /\ m + 1 # 0 /\ (m + 1) - 1 = m
      BY <2>2
    <3>2. f[m + 1] = IF list[m + 1] \in R THEN f[(m + 1) - 1]
                     ELSE Append(f[(m + 1) - 1], list[m + 1])
      BY <1>3, <3>1, Zenon DEF Keeps
    <3>3. QED
      BY <3>1, <3>2
  <2>4. {list[i] : i \in 1 .. m + 1} = {list[i] : i \in 1 .. m} \cup {list[m + 1]}
    OBVIOUS
  <2>5. CASE list[m + 1] \in R
    BY <2>1, <2>3, <2>4, <2>5
  <2>6. CASE list[m + 1] \notin R
    <3>1. f[m + 1] = Append(f[m], list[m + 1])
      BY <2>3, <2>6
    <3>2. f[m + 1] \in Seq(C) /\ ToSet(f[m + 1]) = ToSet(f[m]) \cup {list[m + 1]}
      BY <2>1, <2>2, <3>1, AppendToList
    <3>3. ASSUME IsInjective(list) PROVE IsInjective(f[m + 1])
      <4>1. ASSUME NEW i \in 1 .. m PROVE list[i] # list[m + 1]
        BY <1>2, <2>2, <3>3 DEF IsInjective
      <4>2. list[m + 1] \notin ToSet(f[m])
        BY <2>1, <4>1
      <4>3. QED
        BY <2>1, <2>2, <3>1, <3>3, <4>2, AppendToList
    <3>4. QED
      BY <2>1, <2>4, <2>6, <3>2, <3>3
  <2>7. QED
    BY <2>5, <2>6
<1>6. n \in D
  <2> HIDE DEF D
  <2>1. QED
    BY <1>4, <1>5, InductionBySet
<1>7. Good(n)
  BY <1>6
<1>8. ToSet(list) = {list[i] : i \in 1 .. n}
  BY <1>2 DEF ToSet
<1>9. list = <<>> => f[n] = <<>>
  BY <1>1, <1>3 DEF Keeps
<1> HIDE DEF D
<1>10. QED
  BY <1>3, <1>7, <1>8, <1>9

LEMMA AddUniqueProperties ==
  ASSUME NEW C, NEW list \in Seq(C), NEW c \in C
  PROVE  /\ AddUnique(list, c) \in Seq(C) /\ AddUnique(list, c) # <<>>
         /\ ToSet(AddUnique(list, c)) = ToSet(list) \cup {c}
         /\ IsInjective(list) => IsInjective(AddUnique(list, c))
<1>1. Contains(list, c) <=> c \in ToSet(list)
  BY DEF Contains, ToSet
<1>2. c \in ToSet(list) => list # <<>>
  BY DEF ToSet
<1>3. QED
  BY <1>1, <1>2, AppendToList DEF AddUnique

LEMMA ContainsIsToSet ==
  ASSUME NEW C, NEW s \in Seq(C), NEW c
  PROVE  Contains(s, c) <=> c \in ToSet(s)
BY LenProperties DEF Contains, ToSet

LEMMA ConcatOfLists ==
  ASSUME NEW C, NEW s \in Seq(C), NEW t \in Seq(C)
  PROVE  ToSet(s \o t) \subseteq C
<1>1. s \o t \in Seq(C)
  BY ConcatProperties
<1>2. QED
  BY <1>1, LenProperties DEF ToSet

----------------------------------------------------------------------------
(* Queues in order.                                                        *)

InOrder(q, S) ==
  /\ \A i, j \in DOMAIN q : i < j => Before(q[i], q[j])
  /\ \A r \in S, s \in ToSet(q) : Before(r, s)

LEMMA EmptyInOrder == \A S : InOrder(<<>>, S)
BY DEF InOrder, ToSet

LEMMA AppendInOrder ==
  ASSUME NEW T, NEW q \in Seq(T), NEW s \in T, NEW S, InOrder(q, S),
         \A r \in S \cup ToSet(q) : Before(r, s)
  PROVE  InOrder(Append(q, s), S)
<1>1. PICK n \in Nat : n = Len(q)
  BY LenProperties
<1>2. PICK a : a = Append(q, s)
  OBVIOUS
<1>3. /\ DOMAIN q = 1 .. n /\ DOMAIN a = 1 .. n + 1
      /\ \A i \in 1 .. n : a[i] = q[i]
      /\ a[n + 1] = s /\ ToSet(a) = ToSet(q) \cup {s}
  BY <1>1, <1>2, AppendProperties, AppendToList, LenProperties
<1>4. ASSUME NEW i \in 1 .. n + 1, NEW j \in 1 .. n + 1, i < j
      PROVE  Before(a[i], a[j])
  <2>1. i \in 1 .. n
    BY <1>4
  <2>2. CASE j = n + 1
    <3>1. a[i] \in ToSet(q)
      BY <1>3, <2>1 DEF ToSet
    <3>2. QED
      BY <1>3, <2>2, <3>1
  <2>3. CASE j \in 1 .. n
    BY <1>3, <1>4, <2>1, <2>3 DEF InOrder
  <2>4. QED
    BY <2>2, <2>3
<1>5. QED
  BY <1>2, <1>3, <1>4 DEF InOrder

LEMMA HeadAndTail ==
  ASSUME NEW T, NEW q \in Seq(T), q # <<>>
  PROVE  /\ Head(q) \in T /\ Tail(q) \in Seq(T) /\ Len(Tail(q)) = Len(q) - 1
         /\ ToSet(q) = {Head(q)} \cup ToSet(Tail(q))
<1>1. /\ Head(q) \in T /\ Tail(q) \in Seq(T) /\ Len(Tail(q)) = Len(q) - 1
      /\ \A i \in 1 .. Len(q) - 1 : Tail(q)[i] = q[i + 1]
  BY HeadTailProperties
<1>2. PICK n \in Nat : n = Len(q) - 1
  BY EmptySeq
<1>3. Head(q) = q[1] /\ DOMAIN q = 1 .. n + 1 /\ DOMAIN Tail(q) = 1 .. n
  BY <1>1, <1>2, LenProperties
<1>4. PICK t : t = Tail(q)
  OBVIOUS
<1>5. ASSUME NEW i \in 1 .. n + 1 PROVE q[i] = q[1] \/ q[i] \in ToSet(t)
  <2>1. CASE i = 1
    BY <2>1
  <2>2. CASE i # 1
    <3>1. i - 1 \in 1 .. n /\ t[i - 1] = q[i]
      BY <1>1, <1>2, <1>4, <2>2
    <3>2. QED
      BY <1>3, <1>4, <3>1 DEF ToSet
  <2>3. QED
    BY <2>1, <2>2
<1>6. ASSUME NEW i \in 1 .. n PROVE t[i] \in ToSet(q)
  <2>1. i + 1 \in 1 .. n + 1 /\ t[i] = q[i + 1]
    BY <1>1, <1>2, <1>4
  <2>2. QED
    BY <1>3, <2>1 DEF ToSet
<1>7. q[1] \in ToSet(q)
  BY <1>3 DEF ToSet
<1>8. ToSet(q) = {q[1]} \cup ToSet(t)
  BY <1>3, <1>4, <1>5, <1>6, <1>7 DEF ToSet
<1>9. QED
  BY <1>1, <1>3, <1>4, <1>8

LEMMA PopInOrder ==
  ASSUME NEW T, NEW q \in Seq(T), q # <<>>, NEW S, InOrder(q, S)
  PROVE  InOrder(Tail(q), S \cup {Head(q)})
<1>1. PICK n \in Nat : n = Len(q) - 1
  BY EmptySeq
<1>2. PICK t : t = Tail(q)
  OBVIOUS
<1>3. /\ Head(q) = q[1] /\ DOMAIN q = 1 .. n + 1 /\ DOMAIN t = 1 .. n
      /\ \A i \in 1 .. n : t[i] = q[i + 1]
  BY <1>1, <1>2, HeadTailProperties, LenProperties
<1>4. ToSet(t) \subseteq ToSet(q)
  BY <1>2, HeadAndTail
<1>5. ASSUME NEW i \in 1 .. n, NEW j \in 1 .. n, i < j PROVE Before(t[i], t[j])
  <2>1. /\ t[i] = q[i + 1] /\ t[j] = q[j + 1]
        /\ i + 1 \in 1 .. n + 1 /\ j + 1 \in 1 .. n + 1 /\ i + 1 < j + 1
    BY <1>3, <1>5
  <2>2. QED
    BY <1>3, <2>1 DEF InOrder
<1>6. ASSUME NEW s \in ToSet(t) PROVE Before(q[1], s)
  <2>1. PICK i \in 1 .. n : s = t[i]
    BY <1>3, <1>6 DEF ToSet
  <2>2. /\ s = q[i + 1] /\ 1 < i + 1
        /\ i + 1 \in 1 .. n + 1 /\ 1 \in 1 .. n + 1
    BY <1>3, <2>1
  <2>3. QED
    BY <1>3, <2>2 DEF InOrder
<1>7. \A i, j \in DOMAIN t : i < j => Before(t[i], t[j])
  BY <1>3, <1>5
<1>8. \A r \in S \cup {q[1]}, s \in ToSet(t) : Before(r, s)
  BY <1>4, <1>6 DEF InOrder
<1>9. QED
  BY <1>2, <1>3, <1>7, <1>8 DEF InOrder

----------------------------------------------------------------------------
(* What the parts of the actions do.                                       *)

LEMMA RelistProperties ==
  ASSUME TypeOK, NEW new, Relist(new)
  PROVE  /\ Listeners' = new /\ walk' \in [Thread -> Walk \cup {None}]
         /\ \A t \in Thread :
              /\ walk'[t] # None <=> walk[t] # None
              /\ walk[t] # None =>
                   /\ walk'[t].from = walk[t].from /\ walk'[t].list = walk[t].list
                   /\ walk'[t].at = walk[t].at /\ walk'[t].n = walk[t].n
                   /\ ~walk'[t].racy => ~walk[t].racy
<1>1. walk \in [Thread -> Walk \cup {None}] /\ None \notin Walk
  BY SignalAssumptions DEF TypeOK
<1>2. ASSUME NEW t \in Thread, walk[t] # None
      PROVE  /\ walk[t] \in Walk /\ [walk[t] EXCEPT !.racy = TRUE] \in Walk
             /\ [walk[t] EXCEPT !.racy = TRUE].from = walk[t].from
             /\ [walk[t] EXCEPT !.racy = TRUE].list = walk[t].list
             /\ [walk[t] EXCEPT !.racy = TRUE].at = walk[t].at
             /\ [walk[t] EXCEPT !.racy = TRUE].n = walk[t].n
             /\ [walk[t] EXCEPT !.racy = TRUE].racy
  BY <1>1, <1>2 DEF Walk
<1>3. walk' = [t \in Thread |->
         IF walk[t] # None /\ new[walk[t].from] # Listeners[walk[t].from]
         THEN [walk[t] EXCEPT !.racy = TRUE] ELSE walk[t]]
  BY DEF Relist
<1>4. ASSUME NEW t \in Thread
      PROVE  \/ walk'[t] = walk[t]
             \/ walk[t] # None /\ walk'[t] = [walk[t] EXCEPT !.racy = TRUE]
  <2>1. walk'[t] = IF walk[t] # None /\ new[walk[t].from] # Listeners[walk[t].from]
                   THEN [walk[t] EXCEPT !.racy = TRUE] ELSE walk[t]
    BY <1>3
  <2>2. QED
    BY <2>1, Zenon
<1>5. walk' = [t \in Thread |-> walk'[t]]
  BY <1>3
<1>6. \A t \in Thread : walk'[t] \in Walk \cup {None}
  BY <1>1, <1>2, <1>4
<1>7. ASSUME NEW t \in Thread
      PROVE  walk'[t] # None <=> walk[t] # None
  BY <1>1, <1>2, <1>4
<1>8. ASSUME NEW t \in Thread, walk[t] # None
      PROVE  /\ walk'[t].from = walk[t].from /\ walk'[t].list = walk[t].list
             /\ walk'[t].at = walk[t].at /\ walk'[t].n = walk[t].n
             /\ ~walk'[t].racy => ~walk[t].racy
  <2>1. CASE walk'[t] = walk[t]
    BY <2>1
  <2>2. CASE walk'[t] = [walk[t] EXCEPT !.racy = TRUE]
    BY <1>2, <1>8, <2>2
  <2>3. QED
    BY <1>4, <2>1, <2>2
<1>9. Listeners' = new
  BY DEF Relist
<1>10. QED
  BY <1>5, <1>6, <1>7, <1>8, <1>9

LEMMA PushProperties ==
  ASSUME TypeOK, NEW c \in Computer, NEW s \in Signal
  PROVE  /\ PushSignal(c, s) \in [Computer -> Seq(Signal)]
         /\ \A d \in Computer :
              /\ Len(PushSignal(c, s)[d]) <= MaxSignalCount
              /\ \/ PushSignal(c, s)[d] = queue[d]
                 \/ d = c /\ c \in alive /\ PushSignal(c, s)[d] = Append(queue[d], s)
<1>1. queue \in [Computer -> Seq(Signal)] /\ queue[c] \in Seq(Signal)
  BY DEF TypeOK
<1>2. Append(queue[c], s) \in Seq(Signal) /\ Len(Append(queue[c], s)) = Len(queue[c]) + 1
  BY <1>1, AppendProperties
<1>3. Len(queue[c]) \in Nat /\ MaxSignalCount \in Nat
  BY <1>1, LenProperties, SignalAssumptions
<1>4. QED
  BY <1>1, <1>2, <1>3 DEF PushSignal, TypeOK

\* A step of a walk: who may be handed what.
LEMMA HandleProperties ==
  ASSUME TypeOK, NEW t \in Thread, HandleSignal(t)
  PROVE  /\ walk[t] # None /\ walk[t] \in Walk
         /\ \/ UNCHANGED queue
            \/ \E c \in Computer, s \in Signal :
                 /\ s.n = walk[t].n /\ s.by = t /\ s.racy = walk[t].racy
                 /\ ~s.racy => c = walk[t].list[walk[t].at]
                 /\ queue' = PushSignal(c, s)
         /\ walk[t].at \in 1 .. Len(walk[t].list)
         /\ walk' = [walk EXCEPT ![t] =
              IF walk[t].at = Len(walk[t].list) THEN None
              ELSE [walk[t] EXCEPT !.at = walk[t].at + 1]]
<1>1. PICK w : w = walk[t]
  OBVIOUS
<1>2. w # None /\ w \in Walk
  BY <1>1 DEF TypeOK, HandleSignal
<1>3. /\ w.list \in Seq(Computer) /\ w.from \in Object
      /\ w.n \in 1 .. MaxEmissions /\ w.racy \in BOOLEAN /\ w.at \in Nat \ {0}
  BY <1>2 DEF Walk
<1>4. w.at \in 1 .. Len(w.list) /\ w.list[w.at] \in Computer
  <2>1. Len(w.list) \in Nat /\ w.at <= Len(w.list)
    BY <1>1, <1>2, <1>3, LenProperties DEF TypeOK
  <2>2. w.at \in 1 .. Len(w.list)
    BY <1>3, <2>1
  <2>3. QED
    BY <1>3, <2>2, ElementOfSeq
<1>5. PICK s : s = [n |-> w.n, by |-> t, racy |-> w.racy]
  OBVIOUS
<1>6. s \in Signal /\ s.n = w.n /\ s.by = t /\ s.racy = w.racy
  BY <1>3, <1>5 DEF Signal
<1>7. ToSet(w.list \o Listeners[w.from]) \subseteq Computer
  BY <1>3, ConcatOfLists DEF TypeOK
<1>8. \/ ~w.racy /\ queue' = PushSignal(w.list[w.at], s)
      \/ w.racy /\ \E c \in ToSet(w.list \o Listeners[w.from]) :
           queue' = PushSignal(c, s)
      \/ UNCHANGED queue
  BY <1>1, <1>5 DEF HandleSignal
<1>9. \/ UNCHANGED queue
      \/ \E c \in Computer :
           (~s.racy => c = w.list[w.at]) /\ queue' = PushSignal(c, s)
  BY <1>4, <1>6, <1>7, <1>8
<1>10. walk' = [walk EXCEPT ![t] =
         IF w.at = Len(w.list) THEN None ELSE [w EXCEPT !.at = w.at + 1]]
  BY <1>1 DEF HandleSignal
<1>11. QED
  BY <1>1, <1>2, <1>4, <1>6, <1>9, <1>10

\* Only the save writes the disk.
LEMMA DiskChanges ==
  ASSUME [Next]_vars
  PROVE  Serialize \/ UNCHANGED disk
BY Zenon DEF Next, vars, saveVars, luaListen, luaIgnore, luaIgnoreAll, luaKaito,
   Destroy, BroadcastSignal, HandleSignal, PopSignal, ClearSignals, SaveStarts,
   PreSaveNetwork, PreSaveProcessor, PreSaveSignals, PostSaveGame, Load, BeginPlay

----------------------------------------------------------------------------
(* Type correctness.                                                       *)

LEMMA RelistTyped ==
  ASSUME TypeOK, NEW new, Relist(new),
         \A o \in Object : new[o] \in Seq(Computer) /\ IsInjective(new[o]),
         new = [o \in Object |-> new[o]],
         hooks' \in SUBSET Object, wanted' \in [Computer -> SUBSET Object],
         presaved' \in SUBSET Saver(Computer),
         UNCHANGED <<alive, queueVars, locked, phase, storage, disk, emitted>>
  PROVE  TypeOK'
<1>1. new \in [Object -> Seq(Computer)]
  OBVIOUS
<1>2. /\ Listeners' = new /\ walk' \in [Thread -> Walk \cup {None}]
      /\ \A t \in Thread : walk'[t] # None =>
           walk[t] # None /\ walk'[t].at = walk[t].at /\ walk'[t].list = walk[t].list
  BY RelistProperties
<1>3. QED
  BY <1>1, <1>2 DEF TypeOK, queueVars

\* The lists and queues on disk are as those in memory.
DiskFits ==
  disk # None => /\ \A o \in Object : IsInjective(disk.Listeners[o])
                 /\ \A c \in Computer : Len(disk.queue[c]) <= MaxSignalCount

LEMMA TypeStep ==
  ASSUME TypeOK, DiskFits, [Next]_vars
  PROVE  TypeOK' /\ DiskFits'
<1>1. /\ Listeners \in [Object -> Seq(Computer)]
      /\ \A o \in Object : Listeners[o] \in Seq(Computer) /\ IsInjective(Listeners[o])
      /\ hooks \subseteq Object /\ wanted \in [Computer -> SUBSET Object]
      /\ presaved \subseteq Saver(Computer) /\ phase \in {"play", "save", "saved", "load"}
      /\ Native \subseteq Object /\ Native \cap Component \subseteq Object
  BY SignalAssumptions DEF TypeOK
<1>2. ASSUME NEW c \in Computer, NEW o \in Object, luaListen(c, o)
      PROVE  TypeOK'
  <2> DEFINE new == [Listeners EXCEPT ![o] = AddUnique(@, c)]
  <2>1. \A x \in Object : new[x] \in Seq(Computer) /\ IsInjective(new[x])
    BY <1>1, AddUniqueProperties
  <2>2. new = [x \in Object |-> new[x]]
    BY <1>1
  <2>3. /\ Relist(new) /\ hooks' \in SUBSET Object
        /\ wanted' \in [Computer -> SUBSET Object] /\ UNCHANGED presaved
        /\ UNCHANGED <<alive, queueVars, locked, phase, storage, disk, emitted>>
    BY <1>1, <1>2 DEF luaListen, saveVars
  <2> HIDE DEF new
  <2>4. QED
    BY <1>1, <2>1, <2>2, <2>3, RelistTyped
<1>3. ASSUME NEW c \in Computer, NEW o \in Object, luaIgnore(c, o)
      PROVE  TypeOK'
  <2> DEFINE new == [Listeners EXCEPT ![o] = Without(@, {StartOf(c, o)})]
  <2>1. \A x \in Object : new[x] \in Seq(Computer) /\ IsInjective(new[x])
    BY <1>1, WithoutProperties
  <2>2. new = [x \in Object |-> new[x]]
    BY <1>1
  <2>3. /\ Relist(new) /\ hooks' \in SUBSET Object
        /\ wanted' \in [Computer -> SUBSET Object] /\ UNCHANGED presaved
        /\ UNCHANGED <<alive, queueVars, locked, phase, storage, disk, emitted>>
    BY <1>1, <1>3 DEF luaIgnore, saveVars, Unhooked
  <2> HIDE DEF new
  <2>4. QED
    BY <1>1, <2>1, <2>2, <2>3, RelistTyped
<1>4. ASSUME NEW c \in Computer, luaIgnoreAll(c)
      PROVE  TypeOK'
  <2> DEFINE new == [o \in Object |-> Without(Listeners[o], {c})]
  <2>1. \A x \in Object : new[x] \in Seq(Computer) /\ IsInjective(new[x])
    BY <1>1, WithoutProperties
  <2>2. new = [x \in Object |-> new[x]]
    OBVIOUS
  <2>3. /\ Relist(new) /\ hooks' \in SUBSET Object
        /\ wanted' \in [Computer -> SUBSET Object] /\ UNCHANGED presaved
        /\ UNCHANGED <<alive, queueVars, locked, phase, storage, disk, emitted>>
    BY <1>1, <1>4 DEF luaIgnoreAll, saveVars, Unhooked
  <2> HIDE DEF new
  <2>4. QED
    BY <1>1, <2>1, <2>2, <2>3, RelistTyped
<1>5. ASSUME NEW c \in Computer, luaKaito(c)
      PROVE  TypeOK'
  <2> DEFINE new == [o \in Object |->
               IF o \in Component THEN AddUnique(Listeners[o], c) ELSE Listeners[o]]
  <2>1. \A x \in Object : new[x] \in Seq(Computer) /\ IsInjective(new[x])
    BY <1>1, AddUniqueProperties
  <2>2. new = [x \in Object |-> new[x]]
    OBVIOUS
  <2>3. Component \subseteq Object
    BY DEF Component
  <2>4. /\ Relist(new) /\ hooks' \in SUBSET Object
        /\ wanted' \in [Computer -> SUBSET Object] /\ UNCHANGED presaved
        /\ UNCHANGED <<alive, queueVars, locked, phase, storage, disk, emitted>>
    BY <1>1, <1>5, <2>3 DEF luaKaito, saveVars
  <2> HIDE DEF new
  <2>5. QED
    BY <1>1, <2>1, <2>2, <2>4, RelistTyped
<1>6. ASSUME PreSaveSignals
      PROVE  TypeOK'
  <2>1. \A x \in Object : Cleaned[x] \in Seq(Computer) /\ IsInjective(Cleaned[x])
    <3>1. <<>> \in Seq(Computer) /\ IsInjective(<<>>)
      BY DEF IsInjective
    <3>2. QED
      BY <1>1, <3>1, WithoutProperties DEF Cleaned
  <2>2. Cleaned = [x \in Object |-> Cleaned[x]]
    BY DEF Cleaned
  <2>3. presaved' \in SUBSET Saver(Computer)
    BY <1>1, <1>6 DEF PreSaveSignals, PreSaves, ToPresave, Saver
  <2>4. /\ Relist(Cleaned) /\ UNCHANGED <<hooks, wanted>>
        /\ UNCHANGED <<alive, queueVars, locked, phase, storage, disk, emitted>>
    BY <1>6 DEF PreSaveSignals
  <2>5. QED
    BY <1>1, <2>1, <2>2, <2>3, <2>4, RelistTyped
<1>7. ASSUME NEW x \in Computer \cup Object, Destroy(x)
      PROVE  TypeOK'
  <2>1. alive' \subseteq Computer \cup Object
    BY <1>7 DEF Destroy, TypeOK
  <2>2. queue' \in [Computer -> Seq(Signal)]
    BY <1>7 DEF Destroy, TypeOK
  <2>3. \A c \in Computer : Len(queue'[c]) <= MaxSignalCount
    BY <1>7, SignalAssumptions DEF Destroy, TypeOK
  <2>4. QED
    BY <1>7, <2>1, <2>2, <2>3 DEF Destroy, TypeOK, signalVars, saveVars
<1>8. ASSUME NEW t \in Thread, NEW o \in Object, BroadcastSignal(t, o)
      PROVE  TypeOK'
  <2> DEFINE w == [from |-> o, list |-> Listeners[o], at |-> 1, n |-> emitted + 1,
                   racy |-> FALSE]
  <2>1. emitted + 1 \in 1 .. MaxEmissions /\ emitted' = emitted + 1
        /\ emitted' \in 0 .. MaxEmissions
    BY <1>8, SignalAssumptions DEF BroadcastSignal, TypeOK
  <2>2. w \in Walk /\ w.at = 1 /\ w.list = Listeners[o] /\ w # None
    <3>1. w \in Walk
      BY <1>1, <2>1 DEF Walk
    <3>2. QED
      BY <3>1, SignalAssumptions
  <2>3. 1 <= Len(Listeners[o])
    BY <1>1, <1>8, EmptySeq DEF BroadcastSignal
  <2>4. walk' = [walk EXCEPT ![t] = w]
    BY <1>8 DEF BroadcastSignal
  <2> HIDE DEF w
  <2>5. walk' \in [Thread -> Walk \cup {None}]
    BY <2>2, <2>4 DEF TypeOK
  <2>6. \A u \in Thread : walk'[u] # None => walk'[u].at <= Len(walk'[u].list)
    BY <2>2, <2>3, <2>4 DEF TypeOK
  <2>7. QED
    BY <1>8, <2>1, <2>5, <2>6 DEF BroadcastSignal, TypeOK, signalVars, queueVars, saveVars
<1>9. ASSUME NEW t \in Thread, HandleSignal(t)
      PROVE  TypeOK'
  <2>1. queue' \in [Computer -> Seq(Signal)]
        /\ \A c \in Computer : Len(queue'[c]) <= MaxSignalCount
    <3>1. CASE UNCHANGED queue
      BY <3>1 DEF TypeOK
    <3>2. ASSUME NEW c \in Computer, NEW s \in Signal, queue' = PushSignal(c, s)
          PROVE  /\ queue' \in [Computer -> Seq(Signal)]
                 /\ \A d \in Computer : Len(queue'[d]) <= MaxSignalCount
      BY <3>2, PushProperties
    <3>3. QED
      BY <1>9, <3>1, <3>2, HandleProperties
  <2> DEFINE w == IF walk[t].at = Len(walk[t].list) THEN None
                  ELSE [walk[t] EXCEPT !.at = walk[t].at + 1]
  <2>2. walk' = [walk EXCEPT ![t] = w]
    BY <1>9, HandleProperties
  <2>3. /\ w \in Walk \cup {None}
        /\ w # None => w.at <= Len(w.list)
    <3>1. walk[t] \in Walk /\ walk[t].at \in 1 .. Len(walk[t].list)
      BY <1>9, HandleProperties
    <3>2. Len(walk[t].list) \in Nat
      BY <3>1, LenProperties DEF Walk
    <3>3. CASE walk[t].at # Len(walk[t].list)
      <4>1. w = [walk[t] EXCEPT !.at = walk[t].at + 1]
        BY <3>3
      <4>2. w \in Walk /\ w.at = walk[t].at + 1 /\ w.list = walk[t].list
        BY <3>1, <4>1 DEF Walk
      <4>3. QED
        BY <3>1, <3>2, <3>3, <4>2
    <3>4. QED
      BY <3>3
  <2> HIDE DEF w
  <2>4. walk' \in [Thread -> Walk \cup {None}]
    BY <2>2, <2>3 DEF TypeOK
  <2>5. \A u \in Thread : walk'[u] # None => walk'[u].at <= Len(walk'[u].list)
    BY <2>2, <2>3 DEF TypeOK
  <2>6. QED
    BY <1>9, <2>1, <2>4, <2>5 DEF HandleSignal, TypeOK, signalVars, saveVars
<1>10. ASSUME NEW c \in Computer, PopSignal(c)
       PROVE  TypeOK'
  <2>1. queue[c] \in Seq(Signal) /\ queue[c] # <<>>
    BY <1>10 DEF PopSignal, TypeOK
  <2>2. /\ Head(queue[c]) \in Signal /\ Tail(queue[c]) \in Seq(Signal)
        /\ Len(Tail(queue[c])) = Len(queue[c]) - 1 /\ Len(queue[c]) \in Nat
    BY <2>1, HeadAndTail, LenProperties
  <2>3. /\ queue' = [queue EXCEPT ![c] = Tail(@)]
        /\ seen' = [seen EXCEPT ![c] = @ \cup {Head(queue[c])}]
    BY <1>10 DEF PopSignal
  <2>4. queue' \in [Computer -> Seq(Signal)] /\ seen' \in [Computer -> SUBSET Signal]
    BY <2>2, <2>3 DEF TypeOK
  <2>5. \A d \in Computer : Len(queue'[d]) <= MaxSignalCount
    BY <2>2, <2>3, SignalAssumptions DEF TypeOK
  <2>6. QED
    BY <1>10, <2>4, <2>5 DEF PopSignal, TypeOK, signalVars, saveVars
<1>11. ASSUME NEW c \in Computer, ClearSignals(c)
       PROVE  TypeOK'
  <2>1. ToSet(queue[c]) \subseteq Signal
    BY LenProperties DEF ToSet, TypeOK
  <2>2. /\ queue' = [queue EXCEPT ![c] = <<>>]
        /\ seen' = [seen EXCEPT ![c] = @ \cup ToSet(queue[c])]
    BY <1>11 DEF ClearSignals
  <2>3. queue' \in [Computer -> Seq(Signal)] /\ seen' \in [Computer -> SUBSET Signal]
    BY <2>1, <2>2 DEF TypeOK
  <2>4. \A d \in Computer : Len(queue'[d]) <= MaxSignalCount
    BY <2>2, SignalAssumptions DEF TypeOK
  <2>5. QED
    BY <1>11, <2>3, <2>4 DEF ClearSignals, TypeOK, signalVars, saveVars
<1>12. ASSUME SaveStarts
       PROVE  TypeOK'
  BY <1>12 DEF SaveStarts, TypeOK, signalVars, queueVars
<1>13. ASSUME NEW c \in Computer, PreSaveNetwork(c)
       PROVE  TypeOK'
  <2>1. presaved' \in SUBSET Saver(Computer)
    BY <1>1, <1>13 DEF PreSaveNetwork, PreSaves, ToPresave, Saver
  <2>2. QED
    BY <1>13, <2>1 DEF PreSaveNetwork, TypeOK, signalVars, queueVars
<1>14. ASSUME NEW c \in Computer, PreSaveProcessor(c)
       PROVE  TypeOK'
  <2>1. presaved' \in SUBSET Saver(Computer)
    BY <1>1, <1>14 DEF PreSaveProcessor, PreSaves, ToPresave, Saver
  <2>2. QED
    BY <1>14, <2>1 DEF PreSaveProcessor, TypeOK, signalVars, queueVars
<1>15. ASSUME NEW c \in Computer, PostSaveGame(c)
       PROVE  TypeOK'
  BY <1>15 DEF PostSaveGame, TypeOK, signalVars, queueVars
<1>16. ASSUME Serialize
       PROVE  TypeOK'
  <2>1. \A c \in Computer : seen[c] \cup ToSet(queue[c]) \subseteq Signal
    BY LenProperties DEF ToSet, TypeOK
  <2>2. disk' \in Saved
    BY <1>16, <2>1 DEF Serialize, Saved, TypeOK
  <2>3. QED
    BY <1>16, <2>2 DEF Serialize, TypeOK, signalVars, queueVars
<1>17. ASSUME Load
       PROVE  TypeOK'
  <2>1. disk \in Saved
    BY <1>17 DEF Load, TypeOK
  <2>2. /\ alive' \subseteq Computer \cup Object
        /\ Listeners' \in [Object -> Seq(Computer)]
        /\ queue' \in [Computer -> Seq(Signal)] /\ seen' \in [Computer -> SUBSET Signal]
        /\ wanted' \in [Computer -> SUBSET Object]
        /\ emitted' \in 0 .. MaxEmissions /\ storage' \in [Computer -> SUBSET Signal]
    BY <1>17, <2>1 DEF Load, Saved
  <2>3. /\ \A o \in Object : IsInjective(Listeners'[o])
        /\ \A c \in Computer : Len(queue'[c]) <= MaxSignalCount
    BY <1>17 DEF Load, DiskFits
  <2>4. /\ walk' \in [Thread -> Walk \cup {None}]
        /\ \A t \in Thread : walk'[t] = None
    BY <1>17 DEF Load
  <2>5. QED
    BY <1>17, <2>2, <2>3, <2>4 DEF Load, TypeOK
<1>18. ASSUME BeginPlay
       PROVE  TypeOK'
  BY <1>1, <1>18 DEF BeginPlay, TypeOK, queueVars
<1>19. ASSUME UNCHANGED vars
       PROVE  TypeOK'
  BY <1>19 DEF TypeOK, vars, signalVars, queueVars, saveVars
<1>20. DiskFits'
  <2>1. CASE UNCHANGED disk
    BY <2>1 DEF DiskFits
  <2>2. CASE Serialize
    BY <2>2 DEF Serialize, DiskFits, TypeOK
  <2>3. QED
    BY <2>1, <2>2, DiskChanges
<1>21. QED
  BY <1>20, <1>2, <1>3, <1>4, <1>5, <1>6, <1>7, <1>8, <1>9, <1>10, <1>11, <1>12, <1>13,
     <1>14, <1>15, <1>16, <1>17, <1>18, <1>19 DEF Next
----------------------------------------------------------------------------
(* Hooks.                                                                  *)

LEMMA WithoutEmpty ==
  ASSUME NEW list \in Seq(Computer), NEW R, Without(list, R) # <<>>
  PROVE  list # <<>>
BY WithoutProperties

\* Every step keeps the hooks of what is listened to.
LEMMA HookStep ==
  ASSUME TypeOK, ListenedIsHooked, [Next]_vars
  PROVE  ListenedIsHooked'
<1> DEFINE Hooked(L, H) == \A o \in Native \cap alive : L[o] # <<>> => o \in H
<1>1. Native \subseteq Object
  BY SignalAssumptions
<1>2. /\ Listeners = [o \in Object |-> Listeners[o]]
      /\ \A o \in Object : Listeners[o] \in Seq(Computer)
      /\ phase # "load" => Hooked(Listeners, hooks)
  BY DEF TypeOK, ListenedIsHooked
<1>3. ASSUME NEW c \in Computer, NEW o \in Object, luaListen(c, o)
      PROVE  ListenedIsHooked'
  <2>1. /\ Listeners' = [Listeners EXCEPT ![o] = AddUnique(@, c)]
        /\ hooks' = hooks \cup (Native \cap {o}) /\ phase = "play"
        /\ UNCHANGED <<alive, phase>>
    BY <1>3 DEF luaListen, Relist, Served, saveVars
  <2>2. \A x \in Object : x # o => Listeners'[x] = Listeners[x]
    BY <1>2, <2>1
  <2>3. QED
    BY <1>1, <1>2, <2>1, <2>2 DEF ListenedIsHooked
<1>4. ASSUME NEW c \in Computer, NEW o \in Object, luaIgnore(c, o)
      PROVE  ListenedIsHooked'
  <2> DEFINE rest == Without(Listeners[o], {StartOf(c, o)})
  <2>1. /\ Listeners' = [Listeners EXCEPT ![o] = rest]
        /\ hooks' = Unhooked({o}, Listeners') /\ phase = "play"
        /\ UNCHANGED <<alive, phase>>
    BY <1>4 DEF luaIgnore, Relist, Served, saveVars
  <2>2. ASSUME NEW x \in Object, Listeners'[x] # <<>>
        PROVE  Listeners[x] # <<>>
    BY <1>2, <2>1, <2>2, WithoutEmpty
  <2>3. QED
    BY <1>1, <1>2, <2>1, <2>2 DEF ListenedIsHooked, Unhooked
<1>5. ASSUME NEW c \in Computer, luaIgnoreAll(c)
      PROVE  ListenedIsHooked'
  <2>1. /\ Listeners' = [o \in Object |-> Without(Listeners[o], {c})]
        /\ hooks' = Unhooked(Object, Listeners') /\ phase = "play"
        /\ UNCHANGED <<alive, phase>>
    BY <1>5 DEF luaIgnoreAll, Relist, Served, saveVars
  <2>2. ASSUME NEW x \in Object, Listeners'[x] # <<>>
        PROVE  Listeners[x] # <<>>
    BY <1>2, <2>1, <2>2, WithoutEmpty
  <2>3. QED
    BY <1>1, <1>2, <2>1, <2>2 DEF ListenedIsHooked, Unhooked
<1>6. ASSUME NEW c \in Computer, luaKaito(c)
      PROVE  ListenedIsHooked'
  <2>1. /\ Listeners' = [o \in Object |->
              IF o \in Component THEN AddUnique(Listeners[o], c) ELSE Listeners[o]]
        /\ hooks' = hooks \cup (Native \cap Component) /\ phase # "load"
        /\ UNCHANGED <<alive, phase>>
    BY <1>6 DEF luaKaito, Relist, Runs, saveVars
  <2>2. QED
    BY <1>1, <1>2, <2>1 DEF ListenedIsHooked
<1>7. ASSUME PreSaveSignals
      PROVE  ListenedIsHooked'
  <2>1. /\ Listeners' = Cleaned /\ phase = "save" /\ hooks' = hooks
        /\ UNCHANGED <<alive, phase>>
    BY <1>7 DEF PreSaveSignals, PreSaves, Relist
  <2>2. ASSUME NEW x \in Object, Listeners'[x] # <<>>
        PROVE  Listeners[x] # <<>>
    BY <1>2, <2>1, <2>2, WithoutEmpty DEF Cleaned
  <2>3. QED
    BY <1>1, <1>2, <2>1, <2>2 DEF ListenedIsHooked
<1>8. ASSUME NEW x \in Computer \cup Object, Destroy(x)
      PROVE  ListenedIsHooked'
  BY <1>8 DEF Destroy, ListenedIsHooked, signalVars, saveVars
<1>9. ASSUME Serialize
      PROVE  ListenedIsHooked'
  <2>1. /\ UNCHANGED <<alive, Listeners, hooks>> /\ phase = "save"
        /\ disk'.Listeners = Listeners
    BY <1>9 DEF Serialize, signalVars
  <2>2. QED
    BY <1>2, <2>1 DEF ListenedIsHooked
<1>10. ASSUME Load
       PROVE  ListenedIsHooked'
  BY <1>10 DEF Load, ListenedIsHooked
<1>11. ASSUME BeginPlay
       PROVE  ListenedIsHooked'
  BY <1>11 DEF BeginPlay, ListenedIsHooked
<1>12. ASSUME UNCHANGED <<alive, Listeners, hooks>>,
              phase' = "load" => phase = "load", phase = "load" => phase' = "load"
       PROVE  ListenedIsHooked'
  BY <1>12 DEF ListenedIsHooked
<1>13. ASSUME NEW t \in Thread, NEW o \in Object, BroadcastSignal(t, o)
       PROVE  ListenedIsHooked'
  BY <1>12, <1>13 DEF BroadcastSignal, signalVars, saveVars
<1>14. ASSUME NEW t \in Thread, HandleSignal(t)
       PROVE  ListenedIsHooked'
  BY <1>12, <1>14 DEF HandleSignal, signalVars, saveVars
<1>15. ASSUME NEW c \in Computer, PopSignal(c) \/ ClearSignals(c)
       PROVE  ListenedIsHooked'
  BY <1>12, <1>15 DEF PopSignal, ClearSignals, signalVars, saveVars
<1>16. ASSUME NEW c \in Computer,
              PreSaveNetwork(c) \/ PreSaveProcessor(c) \/ PostSaveGame(c)
       PROVE  ListenedIsHooked'
  BY <1>12, <1>16 DEF PreSaveNetwork, PreSaveProcessor, PostSaveGame, PreSaves,
                      signalVars
<1>17. ASSUME SaveStarts
       PROVE  ListenedIsHooked'
  BY <1>12, <1>17 DEF SaveStarts, signalVars
<1>18. ASSUME UNCHANGED vars
       PROVE  ListenedIsHooked'
  BY <1>12, <1>18 DEF vars, signalVars, saveVars
<1>19. QED
  BY <1>3, <1>4, <1>5, <1>6, <1>7, <1>8, <1>9, <1>10, <1>11, <1>13, <1>14,
     <1>15, <1>16, <1>17, <1>18 DEF Next

----------------------------------------------------------------------------
(* Lists and wishes.                                                       *)

\* ListensToWanted, of what is in memory and of what is on disk.
Agree(A, L, w) ==
  \A c \in Computer \cap A, o \in Object \cap A :
    /\ o \in w[c] => Contains(L[o], c)
    /\ Contains(L[o], c) /\ o \notin Singleton => o \in w[c]

DiskAgrees == disk # None => Agree(disk.alive, disk.Listeners, disk.wanted)

LEMMA AgreeStep ==
  ASSUME TypeOK, ListensToWanted, DiskAgrees, [Next]_vars
  PROVE  ListensToWanted' /\ DiskAgrees'
<1> DEFINE On(o, c)  == Contains(Listeners[o], c)
           On1(o, c) == Contains(Listeners'[o], c)
<1>1. /\ \A o \in Object : Listeners[o] \in Seq(Computer)
      /\ Listeners = [o \in Object |-> Listeners[o]]
      /\ wanted = [c \in Computer |-> wanted[c]]
      /\ Computer \cap Object = {}
  BY SignalAssumptions DEF TypeOK
<1>2. ASSUME NEW o \in Object, NEW c \in Computer, NEW d \in Computer
      PROVE  Contains(AddUnique(Listeners[o], c), d) <=> On(o, d) \/ d = c
  <2>1. /\ AddUnique(Listeners[o], c) \in Seq(Computer)
        /\ ToSet(AddUnique(Listeners[o], c)) = ToSet(Listeners[o]) \cup {c}
    BY <1>1, AddUniqueProperties
  <2>2. QED
    BY <1>1, <2>1, ContainsIsToSet
<1>3. ASSUME NEW o \in Object, NEW R, NEW d \in Computer
      PROVE  Contains(Without(Listeners[o], R), d) <=> On(o, d) /\ d \notin R
  BY <1>1, WithoutProperties, ContainsIsToSet
<1>4. ASSUME NEW c \in Computer, NEW o \in Object, luaListen(c, o)
      PROVE  ListensToWanted'
  <2>1. /\ Listeners' = [Listeners EXCEPT ![o] = AddUnique(@, c)]
        /\ wanted' = [wanted EXCEPT ![c] = @ \cup {o}] /\ alive' = alive
    BY <1>4 DEF luaListen, Relist
  <2>2. ASSUME NEW d \in Computer, NEW x \in Object
        PROVE  /\ On1(x, d) <=> On(x, d) \/ (x = o /\ d = c)
               /\ x \in wanted'[d] <=> x \in wanted[d] \/ (x = o /\ d = c)
    BY <1>1, <1>2, <2>1
  <2>3. QED
    BY <2>1, <2>2 DEF ListensToWanted
<1>5. ASSUME NEW c \in Computer, NEW o \in Object, luaIgnore(c, o)
      PROVE  ListensToWanted'
  <2>1. /\ Listeners' = [Listeners EXCEPT ![o] = Without(@, {StartOf(c, o)})]
        /\ wanted' = [wanted EXCEPT ![c] = @ \ {o}] /\ alive' = alive
    BY <1>5 DEF luaIgnore, Relist
  <2>2. ASSUME NEW d \in Computer, NEW x \in Object
        PROVE  /\ On1(x, d) <=> On(x, d) /\ ~(x = o /\ d = StartOf(c, o))
               /\ x \in wanted'[d] <=> x \in wanted[d] /\ ~(x = o /\ d = c)
    BY <1>1, <1>3, <2>1
  <2>3. /\ o \in Singleton => StartOf(c, o) \notin Computer
        /\ o \notin Singleton => StartOf(c, o) = c
    BY <1>1 DEF StartOf
  <2>4. QED
    BY <2>1, <2>2, <2>3 DEF ListensToWanted
<1>6. ASSUME NEW c \in Computer, luaIgnoreAll(c)
      PROVE  ListensToWanted'
  <2>1. /\ Listeners' = [o \in Object |-> Without(Listeners[o], {c})]
        /\ wanted' = [wanted EXCEPT ![c] = {}] /\ alive' = alive
    BY <1>6 DEF luaIgnoreAll, Relist
  <2>2. ASSUME NEW d \in Computer, NEW x \in Object
        PROVE  /\ On1(x, d) <=> On(x, d) /\ d # c
               /\ x \in wanted'[d] <=> x \in wanted[d] /\ d # c
    BY <1>1, <1>3, <2>1
  <2>3. QED
    BY <2>1, <2>2 DEF ListensToWanted
<1>7. ASSUME NEW c \in Computer, luaKaito(c)
      PROVE  ListensToWanted'
  <2>1. /\ Listeners' = [o \in Object |->
              IF o \in Component THEN AddUnique(Listeners[o], c) ELSE Listeners[o]]
        /\ wanted' = [wanted EXCEPT ![c] = @ \cup Component] /\ alive' = alive
    BY <1>7 DEF luaKaito, Relist
  <2>2. ASSUME NEW d \in Computer, NEW x \in Object
        PROVE  /\ On1(x, d) <=> On(x, d) \/ (x \in Component /\ d = c)
               /\ x \in wanted'[d] <=> x \in wanted[d] \/ (x \in Component /\ d = c)
    BY <1>1, <1>2, <2>1
  <2>3. QED
    BY <2>1, <2>2 DEF ListensToWanted
<1>8. ASSUME PreSaveSignals
      PROVE  ListensToWanted'
  <2>1. Listeners' = Cleaned /\ UNCHANGED <<alive, wanted>>
    BY <1>8 DEF PreSaveSignals, Relist
  <2>2. ASSUME NEW d \in Computer \cap alive, NEW x \in Object \cap alive
        PROVE  On1(x, d) <=> On(x, d)
    BY <1>3, <2>1 DEF Cleaned
  <2>3. QED
    BY <2>1, <2>2 DEF ListensToWanted
<1>9. ASSUME NEW x \in Computer \cup Object, Destroy(x)
      PROVE  ListensToWanted'
  BY <1>9 DEF Destroy, signalVars, ListensToWanted
<1>10. ASSUME Load
       PROVE  ListensToWanted'
  BY <1>10 DEF Load, ListensToWanted, DiskAgrees, Agree
<1>11. ASSUME UNCHANGED <<alive, Listeners, wanted>>
       PROVE  ListensToWanted'
  BY <1>11 DEF ListensToWanted
<1>12. ASSUME NEW t \in Thread, NEW o \in Object, BroadcastSignal(t, o)
       PROVE  ListensToWanted'
  BY <1>11, <1>12 DEF BroadcastSignal, signalVars
<1>13. ASSUME NEW c \in Computer, PopSignal(c) \/ ClearSignals(c)
       PROVE  ListensToWanted'
  BY <1>11, <1>13 DEF PopSignal, ClearSignals, signalVars
<1>14. ASSUME NEW c \in Computer,
              PreSaveNetwork(c) \/ PreSaveProcessor(c) \/ PostSaveGame(c)
       PROVE  ListensToWanted'
  BY <1>11, <1>14 DEF PreSaveNetwork, PreSaveProcessor, PostSaveGame, signalVars
<1>15. ASSUME SaveStarts \/ Serialize \/ BeginPlay \/ UNCHANGED vars
       PROVE  ListensToWanted'
  <2>1. UNCHANGED <<alive, Listeners, wanted>>
    BY <1>15, Zenon DEF SaveStarts, Serialize, BeginPlay, vars, signalVars
  <2>2. QED
    BY <1>11, <2>1
<1>16. DiskAgrees'
  <2>1. CASE UNCHANGED disk
    BY <2>1 DEF DiskAgrees
  <2>2. CASE Serialize
    BY <2>2 DEF Serialize, DiskAgrees, ListensToWanted, Agree
  <2>3. QED
    BY <2>1, <2>2, DiskChanges
<1>17. ASSUME NEW t \in Thread, HandleSignal(t)
       PROVE  ListensToWanted'
  BY <1>11, <1>17 DEF HandleSignal, signalVars
<1>18. QED
  BY <1>4, <1>5, <1>6, <1>7, <1>8, <1>9, <1>10, <1>12, <1>13, <1>14, <1>15, <1>16,
     <1>17 DEF Next
----------------------------------------------------------------------------
(* What the queues hold.                                                   *)

\* What a computer received and did not lose.
Had(c) == seen[c] \cup ToSet(queue[c])

\* A broadcast is the last of its thread, and whoever has its signal already
\* lies behind in the list.
WalkIsLast(t) ==
  /\ walk[t].n <= emitted
  /\ ~walk[t].racy =>
       /\ IsInjective(walk[t].list)
       /\ \A c \in Computer : \A s \in Had(c) :
            s.by = t /\ ~s.racy =>
              \/ s.n < walk[t].n
              \/ s.n = walk[t].n /\ \E i \in 1 .. walk[t].at - 1 : walk[t].list[i] = c

\* What SignalsInOrder rests on.
QueueInv ==
  /\ \A c \in Computer : InOrder(queue[c], seen[c])
  /\ \A c \in Computer : \A s \in Had(c) \cup storage[c] : s.n <= emitted
  /\ \A c \in Computer \ alive : queue[c] = <<>>
  /\ \A t \in Thread : walk[t] # None => WalkIsLast(t)

DiskInOrder ==
  disk # None =>
    /\ \A c \in Computer : InOrder(disk.queue[c], disk.seen[c])
    /\ \A c \in Computer : \A s \in disk.seen[c] \cup ToSet(disk.queue[c]) :
         s.n <= disk.emitted
    /\ \A c \in Computer \ disk.alive : disk.queue[c] = <<>>

\* Steps that leave the queues and what was seen alone.
LEMMA QueuesUntouched ==
  ASSUME QueueInv, UNCHANGED <<alive, queue, seen, emitted>>,
         \A c \in Computer : storage'[c] \subseteq storage[c] \cup seen[c],
         \A t \in Thread : walk'[t] # None =>
           /\ walk[t] # None
           /\ walk'[t].list = walk[t].list /\ walk'[t].at = walk[t].at
           /\ walk'[t].n = walk[t].n /\ (~walk'[t].racy => ~walk[t].racy)
  PROVE  QueueInv'
<1>1. \A c \in Computer : Had(c)' = Had(c)
  BY DEF Had
<1>2. ASSUME NEW t \in Thread, walk'[t] # None PROVE WalkIsLast(t)'
  <2>1. WalkIsLast(t)
    BY <1>2 DEF QueueInv
  <2>2. QED
    BY <1>1, <1>2, <2>1 DEF WalkIsLast
<1>3. \A c \in Computer : \A s \in Had(c)' \cup storage'[c] : s.n <= emitted'
  BY <1>1 DEF QueueInv, Had
<1>4. QED
  BY <1>2, <1>3 DEF QueueInv

LEMMA RelistKeepsQueues ==
  ASSUME TypeOK, QueueInv, NEW new, Relist(new),
         UNCHANGED <<alive, queueVars, storage, emitted>>
  PROVE  QueueInv'
BY RelistProperties, QueuesUntouched DEF queueVars

LEMMA BroadcastKeepsQueues ==
  ASSUME TypeOK, QueueInv, NEW t \in Thread, NEW o \in Object, BroadcastSignal(t, o)
  PROVE  QueueInv'
<1>1. /\ UNCHANGED <<alive, queue, seen, storage>> /\ emitted' = emitted + 1
      /\ walk' = [walk EXCEPT ![t] =
           [from |-> o, list |-> Listeners[o], at |-> 1, n |-> emitted + 1,
            racy |-> FALSE]]
  BY DEF BroadcastSignal, queueVars, saveVars
<1>2. \A c \in Computer : Had(c)' = Had(c)
  BY <1>1 DEF Had
<1>3. emitted \in Nat /\ emitted' \in Nat /\ emitted < emitted'
  BY <1>1, SignalAssumptions DEF TypeOK
<1>4. \A c \in Computer : \A s \in Had(c) \cup storage[c] : s.n \in Nat /\ s.n <= emitted
  <2>1. \A c \in Computer : Had(c) \cup storage[c] \subseteq Signal
    BY LenProperties DEF Had, ToSet, TypeOK
  <2>2. QED
    BY <2>1, SignalAssumptions DEF QueueInv, Signal
<1>5. ASSUME NEW u \in Thread, walk'[u] # None PROVE WalkIsLast(u)'
  <2>1. CASE u = t
    <3>1. /\ walk'[t].list = Listeners[o] /\ walk'[t].n = emitted + 1
          /\ IsInjective(Listeners[o])
      BY <1>1 DEF TypeOK
    <3>2. QED
      BY <1>1, <1>2, <1>3, <1>4, <2>1, <3>1 DEF WalkIsLast
  <2>2. CASE u # t
    <3>1. walk'[u] = walk[u] /\ WalkIsLast(u)
      BY <1>1, <1>5, <2>2 DEF QueueInv, TypeOK
    <3>2. walk[u].n \in Nat
      BY <1>5, <3>1, SignalAssumptions DEF TypeOK, Walk
    <3>3. walk'[u].n <= emitted'
      BY <1>3, <3>1, <3>2 DEF WalkIsLast
    <3>4. QED
      BY <1>2, <3>1, <3>3 DEF WalkIsLast
  <2>3. QED
    BY <2>1, <2>2
<1>6. QED
  BY <1>1, <1>2, <1>3, <1>4, <1>5 DEF QueueInv

LEMMA HandleKeepsQueues ==
  ASSUME TypeOK, QueueInv, NEW t \in Thread, HandleSignal(t)
  PROVE  QueueInv'
<1>1. PICK w : w = walk[t]
  OBVIOUS
<1>2. /\ w # None /\ w \in Walk /\ w.at \in 1 .. Len(w.list)
      /\ walk' = [walk EXCEPT ![t] =
           IF w.at = Len(w.list) THEN None ELSE [w EXCEPT !.at = w.at + 1]]
      /\ UNCHANGED <<alive, seen, storage, emitted>>
  BY <1>1, HandleProperties DEF HandleSignal, saveVars
<1>3. w.at \in Nat /\ w.n \in Nat /\ w.list \in Seq(Computer) /\ WalkIsLast(t)
  BY <1>1, <1>2 DEF Walk, QueueInv
<1>4. ASSUME walk'[t] # None
      PROVE  /\ walk'[t].at = w.at + 1 /\ walk'[t].list = w.list
             /\ walk'[t].n = w.n /\ walk'[t].racy = w.racy
  <2>1. walk'[t] = [w EXCEPT !.at = w.at + 1]
    BY <1>2, <1>4 DEF TypeOK
  <2>2. QED
    BY <1>2, <2>1 DEF Walk
<1>5. \A u \in Thread : u # t => walk'[u] = walk[u]
  BY <1>2 DEF TypeOK
\* The walk goes on past the listener it was at.
<1>6. ASSUME \A c \in Computer : \A s \in Had(c)' :
               \/ s \in Had(c)
               \/ s.by = t /\ s.n = w.n /\ (~s.racy => c = w.list[w.at])
      PROVE  \A u \in Thread : walk'[u] # None => WalkIsLast(u)'
  <2>1. ASSUME NEW u \in Thread, u # t, walk'[u] # None PROVE WalkIsLast(u)'
    <3>1. walk'[u] = walk[u] /\ WalkIsLast(u)
      BY <1>5, <2>1 DEF QueueInv
    <3>2. \A c \in Computer : \A s \in Had(c)' : s.by = u => s \in Had(c)
      BY <1>6, <2>1
    <3>3. QED
      BY <1>2, <3>1, <3>2 DEF WalkIsLast
  <2>2. ASSUME walk'[t] # None PROVE WalkIsLast(t)'
    <3>1. ASSUME ~w.racy, NEW c \in Computer, NEW s \in Had(c)', s.by = t, ~s.racy
          PROVE  s.n < w.n \/ (s.n = w.n /\ \E i \in 1 .. w.at : w.list[i] = c)
      <4>1. CASE s \in Had(c)
        BY <1>1, <1>3, <3>1, <4>1 DEF WalkIsLast
      <4>2. CASE s \notin Had(c)
        BY <1>2, <1>3, <1>6, <3>1, <4>2
      <4>3. QED
        BY <4>1, <4>2
    <3>2. (w.at + 1) - 1 = w.at
      BY <1>3
    <3>3. QED
      BY <1>1, <1>2, <1>3, <1>4, <2>2, <3>1, <3>2 DEF WalkIsLast
  <2>3. QED
    BY <2>1, <2>2
<1>7. CASE UNCHANGED queue
  <2>1. \A c \in Computer : Had(c)' = Had(c)
    BY <1>2, <1>7 DEF Had
  <2>2. QED
    BY <1>2, <1>6, <1>7, <2>1 DEF QueueInv
<1>8. ASSUME NEW c \in Computer, NEW s \in Signal, s.n = w.n, s.by = t,
             s.racy = w.racy, ~s.racy => c = w.list[w.at],
             queue' = PushSignal(c, s)
      PROVE  QueueInv'
  <2>1. \A d \in Computer : queue[d] \in Seq(Signal)
    BY DEF TypeOK
  <2>2. ASSUME NEW d \in Computer
        PROVE  \/ queue'[d] = queue[d]
               \/ d = c /\ c \in alive /\ queue'[d] = Append(queue[d], s)
    BY <1>8, PushProperties
  <2>3. ASSUME NEW d \in Computer
        PROVE  Had(d)' \subseteq Had(d) \cup (IF d = c THEN {s} ELSE {})
    <3>1. CASE queue'[d] = queue[d]
      BY <1>2, <3>1 DEF Had
    <3>2. CASE d = c /\ queue'[d] = Append(queue[d], s)
      BY <1>2, <2>1, <3>2, AppendToList DEF Had
    <3>3. QED
      BY <2>2, <3>1, <3>2
  <2>4. ASSUME NEW r \in Had(c) PROVE Before(r, s)
    <3> SUFFICES ASSUME r.by = t, ~r.racy, ~s.racy PROVE r.n < w.n
      BY <1>8 DEF Before
    <3>1. \/ r.n < w.n
          \/ \E i \in 1 .. w.at - 1 : w.list[i] = w.list[w.at]
      BY <1>1, <1>3, <1>8 DEF WalkIsLast
    <3>2. IsInjective(w.list) /\ DOMAIN w.list = 1 .. Len(w.list) /\ Len(w.list) \in Nat
      BY <1>1, <1>3, <1>8, LenProperties DEF WalkIsLast
    <3>3. ASSUME NEW i \in 1 .. w.at - 1 PROVE w.list[i] # w.list[w.at]
      BY <1>2, <1>3, <3>2, <3>3 DEF IsInjective
    <3>4. QED
      BY <3>1, <3>3
  <2>5. ASSUME NEW d \in Computer PROVE InOrder(queue'[d], seen'[d])
    <3>1. InOrder(queue[d], seen[d]) /\ seen'[d] = seen[d]
      BY <1>2 DEF QueueInv
    <3>2. CASE d = c /\ queue'[d] = Append(queue[d], s)
      BY <2>1, <2>4, <3>1, <3>2, AppendInOrder DEF Had
    <3>3. QED
      BY <2>2, <3>1, <3>2
  <2>6. \A d \in Computer : \A r \in Had(d)' \cup storage'[d] : r.n <= emitted'
    BY <1>1, <1>2, <1>3, <1>8, <2>3 DEF QueueInv, WalkIsLast
  <2>7. \A d \in Computer \ alive' : queue'[d] = <<>>
    BY <1>2, <2>2 DEF QueueInv
  <2>8. \A u \in Thread : walk'[u] # None => WalkIsLast(u)'
    BY <1>6, <1>8, <2>3
  <2>9. QED
    BY <2>5, <2>6, <2>7, <2>8 DEF QueueInv
<1>9. QED
  BY <1>1, <1>7, <1>8, HandleProperties

\* A program takes signals out of its queue.
LEMMA TakingKeepsQueues ==
  ASSUME TypeOK, QueueInv, UNCHANGED <<alive, emitted, walk, storage>>,
         \A c \in Computer : Had(c)' \subseteq Had(c) /\ InOrder(queue'[c], seen'[c]),
         \A c \in Computer : queue[c] = <<>> => queue'[c] = <<>>
  PROVE  QueueInv'
<1>1. ASSUME NEW t \in Thread, walk'[t] # None PROVE WalkIsLast(t)'
  <2>1. WalkIsLast(t)
    BY <1>1 DEF QueueInv
  <2>2. QED
    BY <2>1 DEF WalkIsLast
<1>2. QED
  BY <1>1 DEF QueueInv

LEMMA QueueStep ==
  ASSUME TypeOK, QueueInv, DiskInOrder, [Next]_vars
  PROVE  QueueInv'
<1>1. \A c \in Computer : queue[c] \in Seq(Signal)
  BY DEF TypeOK
<1>2. ASSUME NEW c \in Computer, PopSignal(c) PROVE QueueInv'
  <2>1. /\ queue' = [queue EXCEPT ![c] = Tail(@)] /\ queue[c] # <<>>
        /\ seen' = [seen EXCEPT ![c] = @ \cup {Head(queue[c])}]
        /\ UNCHANGED <<alive, emitted, walk, storage>>
    BY <1>2 DEF PopSignal, saveVars
  <2>2. \A d \in Computer : IF d = c
          THEN queue'[d] = Tail(queue[d]) /\ seen'[d] = seen[d] \cup {Head(queue[d])}
          ELSE queue'[d] = queue[d] /\ seen'[d] = seen[d]
    BY <2>1 DEF TypeOK
  <2>3. \A d \in Computer : Had(d)' = Had(d)
    BY <1>1, <2>1, <2>2, HeadAndTail DEF Had
  <2>4. \A d \in Computer : InOrder(queue'[d], seen'[d])
    BY <1>1, <2>1, <2>2, PopInOrder DEF QueueInv
  <2>5. \A d \in Computer : queue[d] = <<>> => queue'[d] = <<>>
    BY <2>1, <2>2
  <2>6. QED
    BY <2>1, <2>3, <2>4, <2>5, TakingKeepsQueues
<1>3. ASSUME NEW c \in Computer, ClearSignals(c) PROVE QueueInv'
  <2>1. /\ queue' = [queue EXCEPT ![c] = <<>>]
        /\ seen' = [seen EXCEPT ![c] = @ \cup ToSet(queue[c])]
        /\ UNCHANGED <<alive, emitted, walk, storage>>
    BY <1>3 DEF ClearSignals, saveVars
  <2>2. \A d \in Computer : IF d = c
          THEN queue'[d] = <<>> /\ seen'[d] = seen[d] \cup ToSet(queue[d])
          ELSE queue'[d] = queue[d] /\ seen'[d] = seen[d]
    BY <2>1 DEF TypeOK
  <2>3. \A d \in Computer : Had(d)' = Had(d)
    BY <2>2 DEF Had, ToSet
  <2>4. \A d \in Computer : InOrder(queue'[d], seen'[d])
    BY <2>2, EmptyInOrder DEF QueueInv
  <2>5. QED
    BY <2>1, <2>2, <2>3, <2>4, TakingKeepsQueues
<1>4. ASSUME NEW x \in Computer \cup Object, Destroy(x) PROVE QueueInv'
  <2>1. /\ queue' = [c \in Computer |-> IF c = x THEN <<>> ELSE queue[c]]
        /\ alive' = alive \ {x}
        /\ UNCHANGED <<seen, emitted, walk, storage>>
    BY <1>4 DEF Destroy, saveVars
  <2>2. \A d \in Computer : queue'[d] = <<>> \/ (queue'[d] = queue[d] /\ d # x)
    BY <2>1
  <2>3. ASSUME NEW d \in Computer
        PROVE  Had(d)' \subseteq Had(d) /\ InOrder(queue'[d], seen'[d])
    <3>1. ToSet(<<>>) = {}
      BY DEF ToSet
    <3>2. QED
      BY <2>1, <2>2, <3>1, EmptyInOrder DEF Had, QueueInv
  <2>4. ASSUME NEW t \in Thread, walk'[t] # None PROVE WalkIsLast(t)'
    <3>1. WalkIsLast(t)
      BY <2>1, <2>4 DEF QueueInv
    <3>2. QED
      BY <2>1, <2>3, <3>1 DEF WalkIsLast
  <2>5. \A d \in Computer \ alive' : queue'[d] = <<>>
    BY <2>1, <2>2 DEF QueueInv
  <2>6. QED
    BY <2>1, <2>3, <2>4, <2>5 DEF QueueInv
<1>5. ASSUME NEW c \in Computer, NEW o \in Object, luaListen(c, o) \/ luaIgnore(c, o)
      PROVE  QueueInv'
  <2>1. (\E new : Relist(new)) /\ UNCHANGED <<alive, queueVars, storage, emitted>>
    BY <1>5, Zenon DEF luaListen, luaIgnore, saveVars
  <2>2. QED
    BY <2>1, RelistKeepsQueues
<1>6. ASSUME NEW c \in Computer, luaIgnoreAll(c) \/ luaKaito(c)
      PROVE  QueueInv'
  <2>1. (\E new : Relist(new)) /\ UNCHANGED <<alive, queueVars, storage, emitted>>
    BY <1>6, Zenon DEF luaIgnoreAll, luaKaito, saveVars
  <2>2. QED
    BY <2>1, RelistKeepsQueues
<1>7. ASSUME PreSaveSignals PROVE QueueInv'
  BY <1>7, RelistKeepsQueues DEF PreSaveSignals
<1>8. ASSUME NEW c \in Computer, PreSaveProcessor(c) PROVE QueueInv'
  <2>1. /\ storage' = [storage EXCEPT ![c] = seen[c]]
        /\ UNCHANGED <<alive, queue, seen, emitted, walk>>
    BY <1>8 DEF PreSaveProcessor, queueVars
  <2>2. QED
    BY <2>1, QueuesUntouched DEF TypeOK
<1>9. ASSUME Load PROVE QueueInv'
  <2>1. /\ queue' = disk.queue /\ seen' = disk.seen /\ storage' = disk.seen
        /\ emitted' = disk.emitted /\ alive' = disk.alive
        /\ \A t \in Thread : walk'[t] = None
        /\ disk # None
    BY <1>9 DEF Load
  <2>2. QED
    BY <2>1 DEF DiskInOrder, QueueInv, Had
<1>10. ASSUME UNCHANGED <<alive, queue, seen, emitted, walk, storage>> PROVE QueueInv'
  BY <1>10, QueuesUntouched
<1>11. ASSUME NEW c \in Computer, PreSaveNetwork(c) \/ PostSaveGame(c) PROVE QueueInv'
  <2>1. UNCHANGED <<alive, queue, seen, emitted, walk, storage>>
    BY <1>11, Zenon DEF PreSaveNetwork, PostSaveGame, queueVars
  <2>2. QED
    BY <1>10, <2>1
<1>12. ASSUME SaveStarts \/ Serialize \/ BeginPlay \/ UNCHANGED vars PROVE QueueInv'
  <2>1. UNCHANGED <<alive, queue, seen, emitted, walk, storage>>
    BY <1>12, Zenon DEF SaveStarts, Serialize, BeginPlay, vars, queueVars, saveVars
  <2>2. QED
    BY <1>10, <2>1
<1>13. QED
  BY <1>2, <1>3, <1>4, <1>5, <1>6, <1>7, <1>8, <1>9, <1>11, <1>12,
     BroadcastKeepsQueues, HandleKeepsQueues DEF Next

----------------------------------------------------------------------------
(* What a save keeps.                                                      *)

\* A program that was persisted has seen nothing since.
Persisted ==
  phase = "save" =>
    \A c \in Computer \cap alive : Proc(c) \in presaved => storage[c] = seen[c]

LEMMA SaversDiffer ==
  \A c, d : /\ Proc(c) = Proc(d) => c = d
            /\ Proc(c) # Net(d) /\ Proc(c) # <<"signals">>
BY DEF Proc, Net

LEMMA PersistedStep ==
  ASSUME TypeOK, Persisted, [Next]_vars
  PROVE  Persisted'
<1>1. ASSUME NEW c \in Computer, PopSignal(c) \/ ClearSignals(c) PROVE Persisted'
  <2>1. /\ phase = "save" => Proc(c) \notin presaved
        /\ UNCHANGED <<alive, phase, presaved, storage>>
        /\ \A d \in Computer : d # c => seen'[d] = seen[d]
    BY <1>1 DEF PopSignal, ClearSignals, Runs, saveVars, TypeOK
  <2>2. QED
    BY <2>1 DEF Persisted
<1>2. ASSUME NEW x \in Computer \cup Object, Destroy(x) PROVE Persisted'
  BY <1>2 DEF Destroy, Persisted, saveVars
<1>3. ASSUME SaveStarts PROVE Persisted'
  BY <1>3 DEF SaveStarts, Persisted
<1>4. ASSUME NEW c \in Computer, PreSaveProcessor(c) PROVE Persisted'
  <2>1. /\ presaved' = presaved \cup {Proc(c)} /\ phase = "save"
        /\ storage' = [storage EXCEPT ![c] = seen[c]]
        /\ UNCHANGED <<alive, phase, seen>>
    BY <1>4 DEF PreSaveProcessor, PreSaves, queueVars
  <2>2. ASSUME NEW d \in Computer \cap alive, Proc(d) \in presaved'
        PROVE  storage'[d] = seen[d]
    <3>1. CASE d = c
      BY <2>1, <3>1 DEF TypeOK
    <3>2. CASE d # c
      BY <2>1, <2>2, <3>2, SaversDiffer DEF Persisted, TypeOK
    <3>3. QED
      BY <3>1, <3>2
  <2>3. QED
    BY <2>1, <2>2 DEF Persisted
<1>5. ASSUME NEW c \in Computer, PreSaveNetwork(c) PROVE Persisted'
  <2>1. /\ presaved' = presaved \cup {Net(c)}
        /\ UNCHANGED <<alive, phase, seen, storage>>
    BY <1>5 DEF PreSaveNetwork, PreSaves, queueVars
  <2>2. QED
    BY <2>1, SaversDiffer DEF Persisted
<1>6. ASSUME PreSaveSignals PROVE Persisted'
  <2>1. /\ presaved' = presaved \cup {<<"signals">>}
        /\ UNCHANGED <<alive, phase, seen, storage>>
    BY <1>6 DEF PreSaveSignals, PreSaves, queueVars
  <2>2. QED
    BY <2>1, SaversDiffer DEF Persisted
<1>7. ASSUME phase' # "save" PROVE Persisted'
  BY <1>7 DEF Persisted
<1>8. ASSUME NEW c \in Computer, PostSaveGame(c) PROVE Persisted'
  <2>1. phase' # "save"
    BY <1>8 DEF PostSaveGame
  <2>2. QED
    BY <1>7, <2>1
<1>9. ASSUME Serialize \/ Load \/ BeginPlay PROVE Persisted'
  <2>1. phase' # "save"
    BY <1>9 DEF Serialize, Load, BeginPlay
  <2>2. QED
    BY <1>7, <2>1
<1>10. ASSUME UNCHANGED <<alive, phase, presaved, storage, seen>> PROVE Persisted'
  BY <1>10 DEF Persisted
<1>11. ASSUME NEW c \in Computer, NEW o \in Object, luaListen(c, o) \/ luaIgnore(c, o)
       PROVE  Persisted'
  <2>1. UNCHANGED <<alive, phase, presaved, storage, seen>>
    BY <1>11, Zenon DEF luaListen, luaIgnore, queueVars, saveVars
  <2>2. QED
    BY <1>10, <2>1
<1>12. ASSUME NEW c \in Computer, luaIgnoreAll(c) \/ luaKaito(c)
       PROVE  Persisted'
  <2>1. UNCHANGED <<alive, phase, presaved, storage, seen>>
    BY <1>12, Zenon DEF luaIgnoreAll, luaKaito, queueVars, saveVars
  <2>2. QED
    BY <1>10, <2>1
<1>13. ASSUME NEW t \in Thread, NEW o \in Object, BroadcastSignal(t, o)
       PROVE  Persisted'
  BY <1>10, <1>13 DEF BroadcastSignal, queueVars, saveVars
<1>14. ASSUME NEW t \in Thread, HandleSignal(t)
       PROVE  Persisted'
  BY <1>10, <1>14 DEF HandleSignal, saveVars
<1>15. ASSUME UNCHANGED vars PROVE Persisted'
  BY <1>10, <1>15 DEF vars, queueVars, saveVars
<1>16. QED
  BY <1>1, <1>2, <1>3, <1>4, <1>5, <1>6, <1>8, <1>9, <1>11, <1>12, <1>13, <1>14,
     <1>15 DEF Next

\* The halves of a saved game fit: program and queue.
LEMMA DiskStep ==
  ASSUME TypeOK, QueueInv, Persisted, DiskInOrder, SaveKeepsSignals, [Next]_vars
  PROVE  DiskInOrder' /\ SaveKeepsSignals'
<1>1. CASE UNCHANGED disk
  BY <1>1 DEF DiskInOrder, SaveKeepsSignals
<1>2. CASE Serialize
  <2> DEFINE d == disk'
  <2>1. /\ d.alive = alive /\ d.queue = queue /\ d.seen = storage
        /\ d.emitted = emitted
        /\ \A c \in Computer : d.had[c] = seen[c] \cup ToSet(queue[c])
        /\ phase = "save" /\ presaved = Saver(Computer \cap alive)
    BY <1>2 DEF Serialize, ToPresave
  <2> HIDE DEF d
  <2>2. ASSUME NEW c \in Computer \cap alive PROVE storage[c] = seen[c]
    BY <2>1 DEF Saver, Persisted
  <2>3. ASSUME NEW c \in Computer
        PROVE  InOrder(queue[c], storage[c])
    <3>1. CASE c \in alive
      BY <2>2, <3>1 DEF QueueInv
    <3>2. CASE c \notin alive
      BY <3>2, EmptyInOrder DEF QueueInv
    <3>3. QED
      BY <3>1, <3>2
  <2>4. DiskInOrder'
    BY <2>1, <2>3 DEF DiskInOrder, QueueInv, Had, d
  <2>5. ASSUME NEW c \in Computer \cap alive, NEW s \in storage[c] \cap ToSet(queue[c])
        PROVE  s.racy
    <3>1. Before(s, s)
      BY <2>3 DEF InOrder
    <3>2. s \in Signal
      BY DEF TypeOK
    <3>3. s.n \in Nat /\ s.racy \in BOOLEAN
      BY <3>2, SignalAssumptions DEF Signal
    <3>4. QED
      BY <3>1, <3>3 DEF Before
  <2>6. SaveKeepsSignals'
    BY <2>1, <2>2, <2>5 DEF SaveKeepsSignals, d
  <2>7. QED
    BY <2>4, <2>6
<1>3. QED
  BY <1>1, <1>2, DiskChanges

----------------------------------------------------------------------------
(* The theorems.                                                           *)

\* The inductive invariant.
SignalInv ==
  /\ TypeOK /\ DiskFits
  /\ ListenedIsHooked
  /\ ListensToWanted /\ DiskAgrees
  /\ QueueInv /\ Persisted /\ DiskInOrder /\ SaveKeepsSignals

\* The inductive invariant of signals: types, hooks, wishes, queues, walks and
\* the halves of a save, of AFINSignalSubsystem, AFINHookSubsystem and
\* UFINKernelNetworkController.
THEOREM SignalsHold == Spec => []SignalInv
<1>1. Init => SignalInv
  <2> SUFFICES ASSUME Init PROVE SignalInv
    OBVIOUS
  <2>1. IsInjective(<<>>) /\ ToSet(<<>>) = {}
    BY DEF IsInjective, ToSet
  <2>2. TypeOK /\ DiskFits
    BY <2>1, SignalAssumptions DEF Init, TypeOK, DiskFits
  <2>3. ListenedIsHooked /\ DiskAgrees /\ Persisted /\ DiskInOrder /\ SaveKeepsSignals
    BY SignalAssumptions DEF Init, ListenedIsHooked, DiskAgrees, Persisted, DiskInOrder,
       SaveKeepsSignals
  <2>4. ListensToWanted
    BY DEF Init, ListensToWanted, Contains
  <2>5. QueueInv
    BY <2>1, EmptyInOrder DEF Init, QueueInv, Had
  <2>6. QED
    BY <2>2, <2>3, <2>4, <2>5 DEF SignalInv
<1>2. SignalInv /\ [Next]_vars => SignalInv'
  BY TypeStep, HookStep, AgreeStep, QueueStep, PersistedStep, DiskStep DEF SignalInv
<1>3. QED
  BY <1>1, <1>2, PTL DEF Spec

\* Type correctness: no list holds a listener twice, no queue outgrows its size.
THEOREM TypeCorrect == Spec => []TypeOK
<1>1. SignalInv => TypeOK
  BY DEF SignalInv
<1>2. QED
  BY <1>1, SignalsHold, PTL

\* No signal is delivered twice or overtaken by a later one of its thread
\* (BroadcastSignal, PushSignal and PopSignal), whoever listens
\* and ignores meanwhile, unless a list was changed under a walk of it.
THEOREM QueuesInOrder == Spec => []SignalsInOrder
<1>1. SignalInv => SignalsInOrder
  BY DEF SignalInv, QueueInv, InOrder, SignalsInOrder
<1>2. QED
  BY <1>1, SignalsHold, PTL

\* The lists hold who asked to listen and did not ask to ignore since (Listen,
\* Ignore, IgnoreAll, Cleanup), across saves and loads.
THEOREM ListsFollowWishes == Spec => []ListensToWanted
<1>1. SignalInv => ListensToWanted
  BY DEF SignalInv
<1>2. QED
  BY <1>1, SignalsHold, PTL

\* A game object somebody listens to has its hooks (Listen, Ignore, IgnoreAll,
\* Cleanup and BeginPlay of AFINSignalSubsystem).
THEOREM ListenedAreHooked == Spec => []ListenedIsHooked
<1>1. SignalInv => ListenedIsHooked
  BY DEF SignalInv
<1>2. QED
  BY <1>1, SignalsHold, PTL

\* The persisted program and the saved queue hold together every signal a
\* computer had received and not lost, and none twice (PreSaveGame of processor
\* and network controller, in any order, with workers running between).
THEOREM SavesAreConsistent == Spec => []SaveKeepsSignals
<1>1. SignalInv => SaveKeepsSignals
  BY DEF SignalInv
<1>2. QED
  BY <1>1, SignalsHold, PTL
=============================================================================
