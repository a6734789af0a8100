------------------------- MODULE ComputerLog_proofs -------------------------
(***************************************************************************)
(* Proofs about ComputerLog, for every log, chunk and set of players.      *)
(*                                                                         *)
(* NothingLost is inductive with the types once "is a suffix" is said      *)
(* entry by entry (TailOf): a push appends to both sides, starting again   *)
(* moves all entries from one list to the other, and publishing a chunk    *)
(* only drops entries from the front, and only when the log is full.       *)
(*                                                                         *)
(* ClientsAgree follows from what a client will show once the calls under  *)
(* way have arrived (WillShow).  That is stated by its course, not by a    *)
(* fold over the calls, so that a step extends or shortens the course and  *)
(* no induction is needed.                                                 *)
(***************************************************************************)
EXTENDS ComputerLog, SequenceTheorems, TLAPS

\* s is what t ends with.
TailOf(s, t) ==
  /\ Len(s) <= Len(t)
  /\ \A i \in 1 .. Len(s) : s[i] = t[Len(t) - Len(s) + i]

All == LogEntries \o LogEntriesToAdd

LogIsTail ==
  /\ TailOf(All, pushed)
  /\ Len(LogEntries) <= MaxLogEntries
  /\ Len(All) < Len(pushed) => Len(All) >= MaxLogEntries

LogInv == TypeOK /\ LogIsTail

-----------------------------------------------------------------------------
(* Lists and what they end with.                                           *)

\* The entry-wise form is the one of NothingLost.
LEMMA TailIsSuffix ==
  ASSUME NEW s \in Seq(Nat), NEW t \in Seq(Nat), TailOf(s, t)
  PROVE  IsSuffix(s, t)
  <1>1. /\ Reverse(s) \in Seq(Nat) /\ Len(Reverse(s)) = Len(s)
        /\ \A i \in 1 .. Len(s) : Reverse(s)[i] = s[Len(s) - i + 1]
    BY DEF Reverse
  <1>2. /\ Reverse(t) \in Seq(Nat) /\ Len(Reverse(t)) = Len(t)
        /\ \A i \in 1 .. Len(t) : Reverse(t)[i] = t[Len(t) - i + 1]
    BY DEF Reverse
  <1>3. \A i \in 1 .. Len(s) : Reverse(s)[i] = Reverse(t)[i]
    <2> TAKE i \in 1 .. Len(s)
    <2>1. Len(s) - i + 1 \in 1 .. Len(s) /\ i \in 1 .. Len(t)
      BY DEF TailOf
    <2>2. s[Len(s) - i + 1] = t[Len(t) - Len(s) + (Len(s) - i + 1)]
      BY <2>1 DEF TailOf
    <2>3. Len(t) - Len(s) + (Len(s) - i + 1) = Len(t) - i + 1
      OBVIOUS
    <2> QED
      BY <1>1, <1>2, <2>1, <2>2, <2>3
  <1>4. Len(s) <= Len(t)
    BY DEF TailOf
  <1>5. SubSeq(Reverse(s), 1, Len(s)) = SubSeq(Reverse(t), 1, Len(s))
    BY <1>1, <1>2, <1>3, <1>4
  <1> QED
    BY <1>1, <1>2, <1>4, <1>5 DEF IsSuffix, IsPrefix

LEMMA TailTail ==
  ASSUME NEW r \in Seq(Nat), NEW s \in Seq(Nat), NEW t \in Seq(Nat),
         TailOf(r, s), TailOf(s, t)
  PROVE  TailOf(r, t)
  <1>1. Len(r) <= Len(s) /\ Len(s) <= Len(t)
    BY DEF TailOf
  <1>2. ASSUME NEW i \in 1 .. Len(r)
        PROVE  r[i] = t[Len(t) - Len(r) + i]
    <2>1. Len(s) - Len(r) + i \in 1 .. Len(s)
      BY <1>1
    <2>2. r[i] = s[Len(s) - Len(r) + i]
      BY DEF TailOf
    <2>3. s[Len(s) - Len(r) + i] = t[Len(t) - Len(s) + (Len(s) - Len(r) + i)]
      BY <2>1 DEF TailOf
    <2>4. Len(t) - Len(s) + (Len(s) - Len(r) + i) = Len(t) - Len(r) + i
      OBVIOUS
    <2> QED
      BY <2>2, <2>3, <2>4
  <1> QED
    BY <1>1, <1>2 DEF TailOf

\* Both sides grow by the same entry.
LEMMA TailAppend ==
  ASSUME NEW s \in Seq(Nat), NEW r \in Seq(Nat), NEW t \in Seq(Nat),
         NEW e \in Nat, TailOf(s \o r, t)
  PROVE  /\ TailOf(s \o Append(r, e), Append(t, e))
         /\ Len(s \o Append(r, e)) = Len(s \o r) + 1
  <1> DEFINE old == s \o r
             new == Append(old, e)
             top == Append(t, e)
  <1>1. s \o Append(r, e) = new
    BY AppendIsConcat, ConcatAssociative, ConcatProperties
  <1>2. old \in Seq(Nat)
    BY ConcatProperties
  <1>3. PICK a \in Nat, b \in Nat : a = Len(old) /\ b = Len(t)
    BY <1>2, LenProperties
  <1>4. /\ a <= b
        /\ \A i \in 1 .. a : old[i] = t[b - a + i]
    BY <1>3 DEF TailOf
  <1> HIDE DEF old
  <1>5. /\ Len(new) = a + 1 /\ new[a + 1] = e
        /\ \A i \in 1 .. a : new[i] = old[i]
    BY <1>2, <1>3, AppendProperties
  <1>6. /\ Len(top) = b + 1 /\ top[b + 1] = e
        /\ \A i \in 1 .. b : top[i] = t[i]
    BY <1>3, AppendProperties
  <1> HIDE DEF new, top
  <1>7. \A i \in 1 .. a + 1 : new[i] = top[(b + 1) - (a + 1) + i]
    <2> TAKE i \in 1 .. a + 1
    <2>1. (b + 1) - (a + 1) + i = b - a + i
      OBVIOUS
    <2>2. CASE i <= a
      BY <1>4, <1>5, <1>6, <2>1, <2>2
    <2>3. CASE i = a + 1
      BY <1>5, <1>6, <2>3
    <2> QED
      BY <2>2, <2>3
  <1>8. TailOf(new, top) /\ Len(new) = Len(old) + 1
    BY <1>3, <1>4, <1>5, <1>6, <1>7 DEF TailOf
  <1> QED
    BY <1>1, <1>8 DEF old, top

\* What a log keeps of a list.
LEMMA NewestKeeps ==
  ASSUME NEW s \in Seq(Nat)
  PROVE  /\ Newest(s) \in Seq(Nat)
         /\ Len(Newest(s)) = Least(Len(s), MaxLogEntries)
         /\ TailOf(Newest(s), s)
  <1> DEFINE n == Least(Len(s), MaxLogEntries)
  <1>1. n \in Nat /\ n <= Len(s)
    BY LogAssumptions DEF Least
  <1>2. \A i \in Len(s) - n + 1 .. Len(s) : s[i] \in Nat
    BY <1>1
  <1>3. Len(s) - n + 1 \in Int /\ Len(s) \in Int
    BY <1>1
  <1> HIDE DEF n
  <1>4. LET u == SubSeq(s, Len(s) - n + 1, Len(s))
        IN /\ u \in Seq(Nat) /\ Len(u) = n
           /\ \A i \in 1 .. n : u[i] = s[Len(s) - n + i]
    <2>1. LET u == SubSeq(s, Len(s) - n + 1, Len(s))
          IN /\ u \in Seq(Nat)
             /\ Len(u) = IF Len(s) - n + 1 <= Len(s)
                         THEN Len(s) - (Len(s) - n + 1) + 1 ELSE 0
             /\ \A i \in 1 .. Len(s) - (Len(s) - n + 1) + 1 :
                  u[i] = s[Len(s) - n + 1 + i - 1]
      BY <1>2, <1>3, SubSeqProperties
    <2> QED
      BY <1>1, <2>1
  <1>5. Newest(s) = SubSeq(s, Len(s) - n + 1, Len(s))
    BY DEF Newest, n
  <1> QED
    BY <1>1, <1>4, <1>5 DEF TailOf, n

\* Publishing the first n waiting entries drops entries from the front only,
\* and none unless the log is full then.
LEMMA PublishKeeps ==
  ASSUME NEW le \in Seq(Nat), NEW la \in Seq(Nat), NEW n \in 1 .. Len(la)
  PROVE  LET log  == Newest(le \o SubSeq(la, 1, n))
             rest == SubSeq(la, n + 1, Len(la))
         IN /\ log \in Seq(Nat) /\ rest \in Seq(Nat)
            /\ Len(log) <= MaxLogEntries
            /\ TailOf(log \o rest, le \o la)
            /\ Len(log \o rest) < Len(le \o la)
                 => Len(log \o rest) >= MaxLogEntries
  <1> DEFINE chunk == SubSeq(la, 1, n)
             full == le \o chunk
             log  == Newest(full)
             rest == SubSeq(la, n + 1, Len(la))
             new  == log \o rest
             old  == le \o la
  <1>1. PICK a \in Nat, b \in Nat : a = Len(le) /\ b = Len(la)
    BY LenProperties
  <1>2. n \in 1 .. b
    BY <1>1
  <1>3. /\ chunk \in Seq(Nat) /\ Len(chunk) = n
        /\ \A i \in 1 .. n : chunk[i] = la[i]
    <2>1. \A i \in 1 .. n : la[i] \in Nat
      OBVIOUS
    <2> QED
      BY <2>1, SubSeqProperties
  <1>4. /\ rest \in Seq(Nat) /\ Len(rest) = b - n
        /\ \A i \in 1 .. b - n : rest[i] = la[n + i]
    <2>1. \A i \in n + 1 .. b : la[i] \in Nat
      BY <1>1
    <2>2. n + 1 \in Int /\ b \in Int
      OBVIOUS
    <2>3. /\ rest \in Seq(Nat)
          /\ Len(rest) = IF n + 1 <= b THEN b - (n + 1) + 1 ELSE 0
          /\ \A i \in 1 .. b - (n + 1) + 1 : rest[i] = la[n + 1 + i - 1]
      <3>1. /\ SubSeq(la, n + 1, b) \in Seq(Nat)
            /\ Len(SubSeq(la, n + 1, b))
                 = IF n + 1 <= b THEN b - (n + 1) + 1 ELSE 0
            /\ \A i \in 1 .. b - (n + 1) + 1 :
                 SubSeq(la, n + 1, b)[i] = la[n + 1 + i - 1]
        BY <2>1, <2>2, SubSeqProperties
      <3> QED
        BY <1>1, <3>1, Zenon
    <2>4. /\ b - (n + 1) + 1 = b - n
          /\ \A i \in 1 .. b - n : n + 1 + i - 1 = n + i
          /\ (IF n + 1 <= b THEN b - (n + 1) + 1 ELSE 0) = b - n
      BY <1>2
    <2> HIDE DEF rest
    <2> QED
      BY <2>3, <2>4
  <1> HIDE DEF chunk, rest
  <1>5. /\ full \in Seq(Nat) /\ Len(full) = a + n
        /\ \A i \in 1 .. a + n :
             full[i] = IF i <= a THEN le[i] ELSE la[i - a]
    <2>1. /\ full \in Seq(Nat) /\ Len(full) = a + n
          /\ \A i \in 1 .. a + n :
               full[i] = IF i <= a THEN le[i] ELSE chunk[i - a]
      BY <1>1, <1>3, ConcatProperties
    <2>2. \A i \in 1 .. a + n : ~(i <= a) => i - a \in 1 .. n
      BY <1>2
    <2> HIDE DEF full
    <2> QED
      BY <1>3, <2>1, <2>2
  <1>6. /\ old \in Seq(Nat) /\ Len(old) = a + b
        /\ \A i \in 1 .. a + b :
             old[i] = IF i <= a THEN le[i] ELSE la[i - a]
    BY <1>1, ConcatProperties
  <1> HIDE DEF full, old
  <1>7. /\ log \in Seq(Nat) /\ Len(log) = Least(Len(full), MaxLogEntries)
        /\ TailOf(log, full)
    BY <1>5, NewestKeeps
  <1> HIDE DEF log
  <1>8. PICK m \in Nat : m = Len(log)
    BY <1>7, LenProperties
  <1>9. m = Least(a + n, MaxLogEntries)
    BY <1>5, <1>7, <1>8
  <1>10. /\ m \in 0 .. a + n /\ m <= MaxLogEntries
         /\ m < a + n => m = MaxLogEntries
    BY <1>2, <1>9, LogAssumptions DEF Least
  <1>11. \A i \in 1 .. m : log[i] = full[a + n - m + i]
    <2>1. \A i \in 1 .. Len(log) : log[i] = full[Len(full) - Len(log) + i]
      BY <1>7, Zenon DEF TailOf
    <2>2. Len(full) = a + n
      BY <1>5
    <2>3. SUFFICES ASSUME NEW i \in 1 .. m
                   PROVE  log[i] = full[a + n - m + i]
      OBVIOUS
    <2>4. i \in 1 .. Len(log)
      BY <1>8
    <2>5. log[i] = full[Len(full) - Len(log) + i]
      BY <2>1, <2>4, Zenon
    <2> QED
      BY <1>8, <2>2, <2>5
  <1>12. /\ new \in Seq(Nat) /\ Len(new) = m + (b - n)
         /\ \A i \in 1 .. m + (b - n) :
              new[i] = IF i <= m THEN log[i] ELSE rest[i - m]
    <2>1. /\ new \in Seq(Nat) /\ Len(new) = Len(log) + Len(rest)
          /\ \A i \in 1 .. Len(log) + Len(rest) :
               new[i] = IF i <= Len(log) THEN log[i] ELSE rest[i - Len(log)]
      BY <1>4, <1>7, ConcatProperties, Zenon
    <2> QED
      BY <1>4, <1>8, <2>1, Zenon
  <1> HIDE DEF new
  <1>13. \A i \in 1 .. m + (b - n) : new[i] = old[a + n - m + i]
    <2> TAKE i \in 1 .. m + (b - n)
    <2> DEFINE k == a + n - m + i
    <2>1. k \in 1 .. a + b
      BY <1>2, <1>10
    <2>2. CASE i <= m
      <3>1. k \in 1 .. a + n /\ i \in 1 .. m
        BY <1>2, <1>10, <2>2
      <3>2. new[i] = log[i] /\ log[i] = full[k] /\ full[k] = old[k]
        BY <1>5, <1>6, <1>11, <1>12, <2>1, <2>2, <3>1
      <3> QED
        BY <3>2
    <2>3. CASE i > m
      <3>1. i - m \in 1 .. b - n /\ ~(i <= m)
        BY <1>2, <1>10, <2>3
      <3>2. ~(k <= a) /\ k - a = n + (i - m)
        BY <1>2, <1>10, <2>3
      <3>3. new[i] = rest[i - m] /\ rest[i - m] = la[n + (i - m)]
        BY <1>4, <1>12, <3>1
      <3>4. old[k] = la[k - a]
        BY <1>6, <2>1, <3>2
      <3> QED
        BY <3>2, <3>3, <3>4
    <2> QED
      BY <1>10, <2>2, <2>3
  <1>14. /\ a + b - (m + (b - n)) = a + n - m
         /\ m + (b - n) <= a + b
         /\ m + (b - n) < a + b => m + (b - n) >= MaxLogEntries
    BY <1>2, <1>10, LogAssumptions
  <1>15. TailOf(new, old)
    <2> DEFINE p == m + (b - n)
               q == a + b
    <2>1. Len(new) = p /\ Len(old) = q /\ p \in Nat /\ q \in Nat /\ p <= q
      BY <1>2, <1>6, <1>12, <1>14
    <2>2. \A i \in 1 .. p : new[i] = old[q - p + i]
      <3>1. q - p = a + n - m
        BY <1>2
      <3> QED
        BY <1>13, <3>1
    <2> HIDE DEF p, q
    <2> QED
      BY <2>1, <2>2 DEF TailOf
  <1>16. Len(log) <= MaxLogEntries
    BY <1>8, <1>10
  <1>17. Len(new) < Len(old) => Len(new) >= MaxLogEntries
    BY <1>6, <1>12, <1>14
  <1> QED
    BY <1>4, <1>7, <1>15, <1>16, <1>17 DEF new, old, log, rest, full, chunk

-----------------------------------------------------------------------------
(* The invariant.                                                          *)

\* The empty chunk of Multicast_EmptyLog is a list of entries too.
LEMMA EntriesSeq == <<>> \in Seq(Nat)
  OBVIOUS

LEMMA InitLog == Init => LogInv
  <1> SUFFICES ASSUME Init PROVE LogInv
    OBVIOUS
  <1>1. TypeOK
    <2>1. shown \in [Clients -> Seq(Nat)] /\ calls \in [Clients -> Seq(Seq(Nat))]
      BY DEF Init
    <2>2. joined \in [Clients -> {"out", "asking", "in"}]
      BY DEF Init
    <2> QED
      BY <2>1, <2>2, EntriesSeq DEF Init, TypeOK
  <1>2. All = <<>> /\ Len(All) = 0 /\ Len(LogEntries) = 0
    BY ConcatEmptySeq, EntriesSeq DEF Init, All
  <1>3. Len(pushed) = 0 /\ 0 <= MaxLogEntries
    BY LogAssumptions DEF Init
  <1>4. TailOf(All, pushed)
    BY <1>2, <1>3 DEF TailOf
  <1> QED
    BY <1>1, <1>2, <1>3, <1>4 DEF LogInv, LogIsTail

\* A multicast of a list of entries keeps the types of the network.
LEMMA MulticastType ==
  ASSUME TypeOK, NEW chunk \in Seq(Nat), Multicast(chunk)
  PROVE  calls' \in [Clients -> Seq(Seq(Nat))]
  <1>1. \A c \in Clients : calls[c] \in Seq(Seq(Nat))
    BY DEF TypeOK
  <1>2. \A c \in Clients : Append(calls[c], chunk) \in Seq(Seq(Nat))
    BY <1>1, AppendProperties
  <1> QED
    BY <1>1, <1>2 DEF Multicast

\* What a client or the server has after a call is a list of entries.
LEMMA AddType ==
  ASSUME NEW s \in Seq(Nat), NEW chunk \in Seq(Nat)
  PROVE  Add(s, chunk) \in Seq(Nat)
  <1>1. s \o chunk \in Seq(Nat)
    BY ConcatProperties
  <1> QED
    BY <1>1, NewestKeeps, EntriesSeq DEF Add

\* The chunk a tick takes, and that it is not the empty one.
LEMMA ChunkTaken ==
  ASSUME TypeOK, LogEntriesToAdd # <<>>
  PROVE  LET n == Least(Chunk, Len(LogEntriesToAdd))
         IN /\ n \in 1 .. Len(LogEntriesToAdd)
            /\ SubSeq(LogEntriesToAdd, 1, n) \in Seq(Nat)
            /\ SubSeq(LogEntriesToAdd, 1, n) # <<>>
  <1> DEFINE n == Least(Chunk, Len(LogEntriesToAdd))
  <1>1. LogEntriesToAdd \in Seq(Nat)
    BY DEF TypeOK
  <1>2. PICK b \in Nat : b = Len(LogEntriesToAdd) /\ b > 0
    BY <1>1, EmptySeq, LenProperties
  <1>3. n \in 1 .. b
    BY <1>2, LogAssumptions DEF Least
  <1> HIDE DEF n
  <1>4. \A i \in 1 .. n : LogEntriesToAdd[i] \in Nat
    BY <1>1, <1>2, <1>3
  <1>5. /\ SubSeq(LogEntriesToAdd, 1, n) \in Seq(Nat)
        /\ Len(SubSeq(LogEntriesToAdd, 1, n)) = n
    BY <1>3, <1>4, SubSeqProperties
  <1>6. SubSeq(LogEntriesToAdd, 1, n) # <<>>
    BY <1>3, <1>5
  <1> QED
    BY <1>2, <1>3, <1>5, <1>6 DEF n

LEMMA LogStep == LogInv /\ [Next]_vars => LogInv'
  <1> SUFFICES ASSUME TypeOK, LogIsTail, [Next]_vars PROVE LogInv'
    BY DEF LogInv
  <1> USE DEF server, network
  <1>0. /\ LogEntries \in Seq(Nat) /\ LogEntriesToAdd \in Seq(Nat)
        /\ pushed \in Seq(Nat) /\ next \in Nat
        /\ All \in Seq(Nat) /\ TailOf(All, pushed)
        /\ Len(All) \in Nat /\ Len(pushed) \in Nat
    BY ConcatProperties, LenProperties DEF TypeOK, LogIsTail, All
  <1>1. CASE PushLogEntry
    <2>1. Append(LogEntriesToAdd, next) \in Seq(Nat)
      BY <1>0, AppendProperties
    <2>2. Append(pushed, next) \in Seq(Nat) /\ Len(pushed') = Len(pushed) + 1
      BY <1>0, <1>1, AppendProperties DEF PushLogEntry
    <2>3. TypeOK'
      BY <1>0, <1>1, <2>1, <2>2 DEF PushLogEntry, TypeOK
    <2>4. TailOf(All, pushed)' /\ Len(All') = Len(All) + 1
      BY <1>0, <1>1, TailAppend DEF PushLogEntry, All
    <2>5. Len(All') < Len(pushed') => Len(All') >= MaxLogEntries
      <3>1. Len(All) < Len(pushed) => Len(All) >= MaxLogEntries
        BY DEF LogIsTail
      <3> QED
        BY <1>0, <2>2, <2>4, <3>1, LogAssumptions
    <2>6. Len(LogEntries') <= MaxLogEntries
      BY <1>1 DEF PushLogEntry, LogIsTail
    <2> QED
      BY <2>3, <2>4, <2>5, <2>6 DEF LogInv, LogIsTail
  <1>2. CASE EmptyLog
    <2>1. TypeOK'
      BY <1>2, EntriesSeq DEF EmptyLog, TypeOK
    <2>2. All' = <<>> /\ pushed' = <<>> /\ LogEntries' = <<>>
      BY <1>2, ConcatEmptySeq, EntriesSeq DEF EmptyLog, All
    <2>3. Len(All') = 0 /\ Len(pushed') = 0 /\ Len(LogEntries') = 0
      BY <2>2
    <2>4. TailOf(All, pushed)'
      BY <2>2, <2>3 DEF TailOf
    <2> QED
      BY <2>1, <2>3, <2>4, LogAssumptions DEF LogInv, LogIsTail
  <1>3. CASE PublishChunk
    <2> DEFINE n == Least(Chunk, Len(LogEntriesToAdd))
               chunk == SubSeq(LogEntriesToAdd, 1, n)
    <2>1. /\ n \in 1 .. Len(LogEntriesToAdd)
          /\ chunk \in Seq(Nat) /\ chunk # <<>>
      BY <1>3, ChunkTaken DEF PublishChunk
    <2>2. /\ LogEntriesToAdd'
               = SubSeq(LogEntriesToAdd, n + 1, Len(LogEntriesToAdd))
          /\ LogEntries' = Newest(LogEntries \o chunk)
      BY <1>3, <2>1 DEF PublishChunk, Add
    <2>3. Multicast(chunk)
      BY <1>3 DEF PublishChunk
    <2>4. UNCHANGED <<bForceEntriesUpdate, pushed, next, shown, joined>>
      BY <1>3 DEF PublishChunk
    <2> HIDE DEF n
    <2>5. /\ LogEntries' \in Seq(Nat) /\ LogEntriesToAdd' \in Seq(Nat)
          /\ Len(LogEntries') <= MaxLogEntries
          /\ TailOf(All', All)
          /\ Len(All') < Len(All) => Len(All') >= MaxLogEntries
      BY <1>0, <2>1, <2>2, PublishKeeps DEF All
    <2>6. TypeOK'
      BY <2>1, <2>3, <2>4, <2>5, MulticastType DEF TypeOK
    <2>7. All' \in Seq(Nat) /\ Len(All') \in Nat /\ Len(All') <= Len(All)
      BY <2>5, ConcatProperties, LenProperties DEF All, TailOf
    <2>8. TailOf(All, pushed)'
      BY <1>0, <2>4, <2>5, <2>7, TailTail
    <2>9. Len(All') < Len(pushed') => Len(All') >= MaxLogEntries
      <3>1. Len(All) < Len(pushed) => Len(All) >= MaxLogEntries
        BY DEF LogIsTail
      <3> QED
        BY <1>0, <2>4, <2>5, <2>7, <3>1, LogAssumptions
    <2> QED
      BY <2>5, <2>6, <2>8, <2>9 DEF LogInv, LogIsTail
  <1>4. CASE StartAgain
    <2>1. /\ LogEntriesToAdd = <<>> /\ LogEntriesToAdd' = LogEntries
          /\ LogEntries' = <<>> /\ bForceEntriesUpdate' = FALSE
          /\ Multicast(<<>>) /\ UNCHANGED <<pushed, next, shown, joined>>
      BY <1>4 DEF StartAgain
    <2>2. TypeOK'
      BY <2>1, EntriesSeq, MulticastType DEF TypeOK
    <2>3. All' = All
      BY <1>0, <2>1, ConcatEmptySeq DEF All
    <2>4. Len(LogEntries') = 0
      BY <2>1
    <2>5. TailOf(All, pushed)' /\ Len(pushed') = Len(pushed)
      BY <1>0, <2>1, <2>3
    <2> QED
      BY <2>2, <2>3, <2>4, <2>5, LogAssumptions DEF LogInv, LogIsTail
  <1>5. CASE SaveAndLoad
    <2>1. TypeOK'
      <3>1. /\ shown' \in [Clients -> Seq(Nat)]
            /\ calls' \in [Clients -> Seq(Seq(Nat))]
            /\ joined' \in [Clients -> {"out", "asking", "in"}]
        BY <1>5 DEF SaveAndLoad
      <3> QED
        BY <1>5, <3>1, EntriesSeq DEF SaveAndLoad, TypeOK
    <2>2. All' = LogEntries /\ pushed' = LogEntries /\ LogEntries' = LogEntries
      BY <1>0, <1>5, ConcatEmptySeq DEF SaveAndLoad, All
    <2>3. TailOf(LogEntries, LogEntries)
      BY <1>0, LenProperties DEF TailOf
    <2>4. TailOf(All, pushed)'
      BY <2>2, <2>3
    <2>5. ~(Len(All') < Len(pushed'))
      BY <1>0, <2>2, LenProperties
    <2> QED
      BY <2>1, <2>2, <2>4, <2>5 DEF LogInv, LogIsTail
  <1>6. ASSUME NEW c \in Clients,
               Join(c) \/ RehandleAllEntries(c) \/ Receive(c) \/ Leave(c)
        PROVE  LogInv'
    <2>1. UNCHANGED <<LogEntries, LogEntriesToAdd, pushed, next>>
      BY <1>6 DEF Join, RehandleAllEntries, Receive, Leave
    <2>2. CASE Receive(c)
      <3>1. calls[c] \in Seq(Seq(Nat)) /\ calls[c] # <<>> /\ shown[c] \in Seq(Nat)
        BY <2>2 DEF Receive, TypeOK
      <3>2. Head(calls[c]) \in Seq(Nat) /\ Tail(calls[c]) \in Seq(Seq(Nat))
        BY <3>1, HeadTailProperties
      <3>3. Add(shown[c], Head(calls[c])) \in Seq(Nat)
        BY <3>1, <3>2, AddType
      <3> QED
        BY <2>1, <2>2, <3>2, <3>3 DEF Receive, TypeOK, LogInv, LogIsTail, All
    <2>3. CASE Leave(c)
      <3>1. <<>> \in Seq(Seq(Nat))
        OBVIOUS
      <3> QED
        BY <2>1, <2>3, <3>1, EntriesSeq
        DEF Leave, TypeOK, LogInv, LogIsTail, All
    <2>4. CASE Join(c)
      BY <2>1, <2>4 DEF Join, TypeOK, LogInv, LogIsTail, All
    <2>5. CASE RehandleAllEntries(c)
      BY <2>1, <2>5 DEF RehandleAllEntries, TypeOK, LogInv, LogIsTail, All
    <2> QED
      BY <1>6, <2>2, <2>3, <2>4, <2>5
  <1>7. CASE UNCHANGED vars
    BY <1>7 DEF vars, TypeOK, LogInv, LogIsTail, All
  <1> QED
    BY <1>1, <1>2, <1>3, <1>4, <1>5, <1>6, <1>7 DEF Next, Tick

\* Entries and lists keep their types, and the log ends as what was pushed.
THEOREM LogHolds == Spec => []LogInv
  BY InitLog, LogStep, PTL DEF Spec

\* The server's log and what waits to enter it stay the latest entries pushed,
\* whatever the chunk, the size of the log and the number of players
\* (TickLog, PushLogEntry and Client_RehandleAllEntries of FINLog).
THEOREM LogLosesNothing == Spec => []NothingLost
  <1>1. LogInv => NothingLost
    <2> SUFFICES ASSUME LogInv PROVE NothingLost
      OBVIOUS
    <2>1. All \in Seq(Nat) /\ pushed \in Seq(Nat)
      BY ConcatProperties DEF LogInv, TypeOK, All
    <2>2. IsSuffix(All, pushed)
      BY <2>1, TailIsSuffix DEF LogInv, LogIsTail
    <2> QED
      BY <2>2 DEF NothingLost, LogInv, LogIsTail, All
  <1> QED
    BY <1>1, LogHolds, PTL

-----------------------------------------------------------------------------
(* What the clients see.  Once the calls under way have arrived, a player   *)
(* that was answered sees the log of the server: the restart that answers   *)
(* is among the calls, or came before them.                                 *)

\* The calls q lead a client that shows s to the log t: w[i] is what it shows
\* after i calls, and k is where the last restart among them is.
Leads(s, q, t, w, k) ==
  /\ k \in 0 .. Len(q)
  /\ IF k = 0 THEN w[0] = s ELSE q[k] = <<>> /\ w[k] = <<>>
  /\ \A i \in k + 1 .. Len(q) : w[i] = Add(w[i - 1], q[i])
  /\ w[Len(q)] = t

WillShow(s, q, t) == \E w \in [Nat -> Seq(Nat)], k \in Nat : Leads(s, q, t, w, k)

Answered(c) == joined[c] = "in" /\ ~bForceEntriesUpdate

ClientsWillAgree ==
  \A c \in Clients : Answered(c) => WillShow(shown[c], calls[c], LogEntries)

ClientInv == LogInv /\ ClientsWillAgree

\* A restart that is sent leads to the empty log, whatever was sent before.
LEMMA RestartLeads ==
  ASSUME NEW s \in Seq(Nat), NEW q \in Seq(Seq(Nat))
  PROVE  WillShow(s, Append(q, <<>>), <<>>)
  <1> DEFINE w == [i \in Nat |-> <<>>]
             r == Append(q, <<>>)
  <1>1. PICK k \in Nat : k = Len(q) + 1
    BY LenProperties
  <1>2. k # 0 /\ k \in 0 .. k /\ \A i \in k + 1 .. k : FALSE
    <2>1. PICK n \in Nat : n = Len(q)
      BY LenProperties
    <2> QED
      BY <1>1, <2>1
  <1>3. w \in [Nat -> Seq(Nat)] /\ w[k] = <<>>
    BY EntriesSeq
  <1>4. Len(r) = k /\ r[k] = <<>>
    BY <1>1, EntriesSeq, AppendProperties
  <1> HIDE DEF w, r
  <1>5. Leads(s, r, <<>>, w, k)
    BY <1>2, <1>3, <1>4 DEF Leads
  <1> QED
    BY <1>3, <1>5 DEF WillShow, r

\* A chunk that is sent is added last.
LEMMA ChunkLeads ==
  ASSUME NEW s \in Seq(Nat), NEW q \in Seq(Seq(Nat)), NEW t \in Seq(Nat),
         NEW chunk \in Seq(Nat), WillShow(s, q, t)
  PROVE  WillShow(s, Append(q, chunk), Add(t, chunk))
  <1>1. PICK w \in [Nat -> Seq(Nat)], k \in Nat : Leads(s, q, t, w, k)
    BY DEF WillShow
  <1>2. PICK n \in Nat : n = Len(q)
    BY LenProperties
  <1> DEFINE v == [w EXCEPT ![n + 1] = Add(t, chunk)]
             r == Append(q, chunk)
  <1>3. v \in [Nat -> Seq(Nat)]
    BY AddType
  <1>4. /\ v[n + 1] = Add(t, chunk)
        /\ \A i \in 0 .. n : v[i] = w[i]
    <2>1. n + 1 \in Nat /\ \A i \in 0 .. n : i \in Nat /\ i # n + 1
      OBVIOUS
    <2> QED
      BY <2>1
  <1>5. /\ Len(r) = n + 1 /\ r[n + 1] = chunk
        /\ \A i \in 1 .. n : r[i] = q[i]
    BY <1>2, AppendProperties
  <1> HIDE DEF v, r
  <1>6. k \in 0 .. n /\ w[n] = t
    BY <1>1, <1>2 DEF Leads
  <1>7. IF k = 0 THEN v[0] = s ELSE r[k] = <<>> /\ v[k] = <<>>
    <2>1. IF k = 0 THEN w[0] = s ELSE q[k] = <<>> /\ w[k] = <<>>
      BY <1>1 DEF Leads
    <2>2. v[k] = w[k]
      BY <1>4, <1>6
    <2>3. k # 0 => k \in 1 .. n
      BY <1>6
    <2>4. k # 0 => r[k] = q[k]
      BY <1>5, <2>3
    <2> QED
      BY <2>1, <2>2, <2>4
  <1>8. \A i \in k + 1 .. n + 1 : v[i] = Add(v[i - 1], r[i])
    <2> TAKE i \in k + 1 .. n + 1
    <2>1. CASE i = n + 1
      <3>1. i - 1 = n /\ n \in 0 .. n
        BY <2>1
      <3>2. v[i - 1] = t
        BY <1>4, <1>6, <3>1
      <3> QED
        BY <1>4, <1>5, <2>1, <3>2
    <2>2. CASE i \in k + 1 .. n
      <3>1. i \in 1 .. n /\ i - 1 \in 0 .. n /\ i \in 0 .. n
        BY <1>6, <2>2
      <3>2. w[i] = Add(w[i - 1], q[i])
        BY <1>1, <1>2, <2>2 DEF Leads
      <3> QED
        BY <1>4, <1>5, <3>1, <3>2
    <2> QED
      BY <1>6, <2>1, <2>2
  <1>9. Leads(s, r, Add(t, chunk), v, k)
    BY <1>4, <1>5, <1>6, <1>7, <1>8 DEF Leads
  <1> QED
    BY <1>3, <1>9 DEF WillShow, r

\* A call that arrives leads no further than it did under way.
LEMMA ArrivalLeads ==
  ASSUME NEW s \in Seq(Nat), NEW q \in Seq(Seq(Nat)), NEW t \in Seq(Nat),
         q # <<>>, WillShow(s, q, t)
  PROVE  WillShow(Add(s, Head(q)), Tail(q), t)
  <1>1. PICK w \in [Nat -> Seq(Nat)], k \in Nat : Leads(s, q, t, w, k)
    BY DEF WillShow
  <1>2. PICK n \in Nat : n = Len(q) /\ n > 0
    BY EmptySeq, LenProperties
  <1> DEFINE v == [i \in Nat |-> w[i + 1]]
             r == Tail(q)
             j == IF k = 0 THEN 0 ELSE k - 1
             u == Add(s, Head(q))
  <1>3. v \in [Nat -> Seq(Nat)] /\ \A i \in Nat : v[i] = w[i + 1]
    OBVIOUS
  <1>4. /\ Len(r) = n - 1 /\ Head(q) = q[1]
        /\ \A i \in 1 .. n - 1 : r[i] = q[i + 1]
    BY <1>2, HeadTailProperties
  <1> HIDE DEF v, r, u
  <1>5. /\ k \in 0 .. n /\ w[n] = t
        /\ \A i \in k + 1 .. n : w[i] = Add(w[i - 1], q[i])
        /\ IF k = 0 THEN w[0] = s ELSE q[k] = <<>> /\ w[k] = <<>>
    BY <1>1, <1>2 DEF Leads
  <1>6. j \in 0 .. n - 1 /\ j \in Nat
    <2>1. k \in 0 .. n
      BY <1>5
    <2>2. CASE k = 0
      BY <1>2, <2>2
    <2>3. CASE k # 0
      BY <2>1, <2>3
    <2> QED
      BY <2>2, <2>3
  <1>7. IF j = 0 THEN v[0] = u ELSE r[j] = <<>> /\ v[j] = <<>>
    <2>1. CASE k = 0
      <3>1. w[1] = Add(w[0], q[1])
        BY <1>2, <1>5, <2>1
      <3> QED
        BY <1>3, <1>4, <1>5, <2>1, <3>1 DEF u
    <2>2. CASE k = 1
      <3>1. u = <<>>
        BY <1>4, <1>5, <2>2 DEF u, Add
      <3> QED
        BY <1>3, <1>5, <2>2, <3>1
    <2>3. CASE k > 1
      <3>0. k \in 0 .. n /\ q[k] = <<>> /\ w[k] = <<>>
        BY <1>5, <2>3
      <3>1. j = k - 1 /\ j \in 1 .. n - 1 /\ j \in Nat /\ j + 1 = k
        BY <2>3, <3>0
      <3>2. r[j] = q[k]
        BY <1>4, <3>1
      <3>3. v[j] = w[k]
        BY <1>3, <3>1
      <3> QED
        BY <3>0, <3>1, <3>2, <3>3
    <2> QED
      BY <2>1, <2>2, <2>3
  <1>8. \A i \in j + 1 .. n - 1 : v[i] = Add(v[i - 1], r[i])
    <2> TAKE i \in j + 1 .. n - 1
    <2>1. /\ i + 1 \in k + 1 .. n /\ i \in 1 .. n - 1 /\ i \in Nat
          /\ i - 1 \in Nat /\ (i + 1) - 1 = i /\ (i - 1) + 1 = i
      <3>1. k \in 0 .. n /\ n \in Nat
        BY <1>2, <1>5
      <3>2. CASE k = 0
        BY <3>1, <3>2
      <3>3. CASE k # 0
        BY <3>1, <3>3
      <3> QED
        BY <3>2, <3>3
    <2>2. w[i + 1] = Add(w[i], q[i + 1])
      BY <1>5, <2>1
    <2> QED
      BY <1>3, <1>4, <2>1, <2>2
  <1> HIDE DEF j
  <1>9. v[n - 1] = t
    BY <1>2, <1>3, <1>5
  <1>10. Leads(u, r, t, v, j)
    BY <1>4, <1>6, <1>7, <1>8, <1>9 DEF Leads
  <1> QED
    BY <1>3, <1>6, <1>10 DEF WillShow, u, r

LEMMA ClientStep == ClientInv /\ [Next]_vars => ClientInv'
  <1> SUFFICES ASSUME LogInv, ClientsWillAgree, [Next]_vars
               PROVE  ClientsWillAgree'
    BY LogStep DEF ClientInv
  <1> USE DEF server, network
  <1>0. /\ LogEntries \in Seq(Nat) /\ LogEntriesToAdd \in Seq(Nat)
        /\ bForceEntriesUpdate \in BOOLEAN
        /\ \A c \in Clients : shown[c] \in Seq(Nat) /\ calls[c] \in Seq(Seq(Nat))
        /\ DOMAIN shown = Clients /\ DOMAIN calls = Clients
        /\ DOMAIN joined = Clients
    BY DEF LogInv, TypeOK
  <1> SUFFICES ASSUME NEW c \in Clients, Answered(c)'
               PROVE  WillShow(shown'[c], calls'[c], LogEntries')
    BY DEF ClientsWillAgree
  <1>1. Answered(c) => WillShow(shown[c], calls[c], LogEntries)
    BY DEF ClientsWillAgree
  <1>2. joined'[c] = "in" /\ ~bForceEntriesUpdate'
    BY DEF Answered
  <1>3. CASE PushLogEntry \/ UNCHANGED vars
    BY <1>1, <1>2, <1>3 DEF PushLogEntry, vars, Answered
  <1>4. CASE EmptyLog
    BY <1>2, <1>4 DEF EmptyLog
  <1>5. CASE SaveAndLoad
    BY <1>2, <1>5 DEF SaveAndLoad
  <1>6. CASE StartAgain
    <2>1. /\ LogEntries' = <<>> /\ UNCHANGED <<shown, joined>>
          /\ Multicast(<<>>)
      BY <1>6 DEF StartAgain
    <2>2. calls'[c] = Append(calls[c], <<>>)
      BY <1>2, <2>1 DEF Multicast
    <2> QED
      BY <1>0, <2>1, <2>2, RestartLeads
  <1>7. CASE PublishChunk
    <2> DEFINE n == Least(Chunk, Len(LogEntriesToAdd))
               chunk == SubSeq(LogEntriesToAdd, 1, n)
    <2>1. chunk \in Seq(Nat)
      BY <1>7, ChunkTaken DEF PublishChunk, LogInv
    <2>2. /\ LogEntries' = Add(LogEntries, chunk) /\ Multicast(chunk)
          /\ UNCHANGED <<bForceEntriesUpdate, shown, joined>>
      BY <1>7 DEF PublishChunk
    <2> HIDE DEF chunk
    <2>3. calls'[c] = Append(calls[c], chunk)
      BY <1>2, <2>2 DEF Multicast
    <2> QED
      BY <1>0, <1>1, <1>2, <2>1, <2>2, <2>3, ChunkLeads DEF Answered
  <1>8. ASSUME NEW d \in Clients, Join(d) \/ RehandleAllEntries(d)
        PROVE  WillShow(shown'[c], calls'[c], LogEntries')
    <2>1. CASE Join(d)
      BY <1>0, <1>1, <1>2, <2>1 DEF Join, Answered
    <2>2. CASE RehandleAllEntries(d)
      BY <1>2, <2>2 DEF RehandleAllEntries
    <2> QED
      BY <1>8, <2>1, <2>2
  <1>9. ASSUME NEW d \in Clients, Receive(d)
        PROVE  WillShow(shown'[c], calls'[c], LogEntries')
    <2>1. /\ UNCHANGED <<LogEntries, bForceEntriesUpdate, joined>>
          /\ calls[d] # <<>>
          /\ shown' = [shown EXCEPT ![d] = Add(@, Head(calls[d]))]
          /\ calls' = [calls EXCEPT ![d] = Tail(@)]
      BY <1>9 DEF Receive
    <2>2. WillShow(shown[c], calls[c], LogEntries)
      BY <1>1, <1>2, <2>1 DEF Answered
    <2>3. CASE c = d
      BY <1>0, <2>1, <2>2, <2>3, ArrivalLeads
    <2>4. CASE c # d
      BY <1>0, <2>1, <2>2, <2>4
    <2> QED
      BY <2>3, <2>4
  <1>10. ASSUME NEW d \in Clients, Leave(d)
         PROVE  WillShow(shown'[c], calls'[c], LogEntries')
    BY <1>0, <1>1, <1>2, <1>10 DEF Leave, Answered
  <1> QED
    BY <1>3, <1>4, <1>5, <1>6, <1>7, <1>8, <1>9, <1>10 DEF Next, Tick

\* A player who asked for the log and for whom nothing is under way any more
\* sees the log of the server, for any limits, players, restarts and emptied
\* logs (Client_RehandleAllEntries, TickLog and the two multicasts of FINLog).
THEOREM PlayersAgree == Spec => []ClientsAgree
  <1>1. Init => ClientInv
    BY InitLog DEF Init, ClientInv, ClientsWillAgree, Answered
  <1>2. ClientInv => ClientsAgree
    <2> SUFFICES ASSUME ClientInv, NEW c \in Clients, Answered(c), calls[c] = <<>>
                 PROVE  shown[c] = LogEntries
      BY DEF ClientsAgree, Answered
    <2>1. PICK w \in [Nat -> Seq(Nat)], k \in Nat :
            Leads(shown[c], <<>>, LogEntries, w, k)
      BY DEF ClientInv, ClientsWillAgree, WillShow
    <2>2. Len(<<>>) = 0 /\ k = 0
      BY <2>1 DEF Leads
    <2> QED
      BY <2>1, <2>2 DEF Leads
  <1> QED
    BY <1>1, <1>2, ClientStep, PTL DEF Spec
=============================================================================
