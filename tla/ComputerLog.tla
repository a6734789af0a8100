----------------------------- MODULE ComputerLog -----------------------------
(***************************************************************************)
(* The log of a computer.  Programs push entries from any thread into a    *)
(* list of their own, LogEntriesToAdd; the case's tick moves them, a chunk *)
(* at a time, into LogEntries and sends them to the clients.  A player     *)
(* that joins asks for everything again: the tick then takes all entries   *)
(* back, tells everybody to forget them, and publishes them anew.  The     *)
(* reliable calls to one client arrive in order.                           *)
(***************************************************************************)
EXTENDS Naturals, Sequences, SequencesExt

CONSTANTS
  Clients,
  MaxLogEntries,     \* entries a log keeps
  Chunk,             \* entries a tick publishes
  MaxPushes,         \* bound of the model on the entries of a program
  MaxCalls           \* bound of the model on the calls under way to a client

ASSUME LogAssumptions ==
  /\ MaxLogEntries \in Nat \ {0} /\ Chunk \in Nat \ {0}
  /\ MaxPushes \in Nat /\ MaxCalls \in Nat

VARIABLES
  LogEntries, LogEntriesToAdd, bForceEntriesUpdate,    \* of the server
  pushed,            \* what was pushed since the log was emptied or loaded
  next,              \* the number of the next entry
  shown,             \* of each client: its LogEntries
  calls,             \* of each client: the multicasts under way to it
  joined             \* of each client: "out", "asking" or "in"

server == <<LogEntries, LogEntriesToAdd, bForceEntriesUpdate>>
network == <<shown, calls, joined>>
vars == <<server, pushed, next, network>>

Init ==
  /\ LogEntries = <<>> /\ LogEntriesToAdd = <<>> /\ bForceEntriesUpdate = FALSE
  /\ pushed = <<>> /\ next = 1
  /\ shown = [c \in Clients |-> <<>>] /\ calls = shown
  /\ joined = [c \in Clients |-> "out"]

Least(a, b) == IF a < b THEN a ELSE b

\* The newest entries of a list, as many as a log keeps.
Newest(s) == SubSeq(s, Len(s) - Least(Len(s), MaxLogEntries) + 1, Len(s))

\* Multicast_AddLogEntries and Multicast_EmptyLog, on the server and later on
\* each client; an empty chunk stands for the second.
Add(entries, chunk) ==
  IF chunk = <<>> THEN <<>> ELSE Newest(entries \o chunk)

Multicast(chunk) ==
  /\ \A c \in Clients : Len(calls[c]) < MaxCalls
  /\ calls' = [c \in Clients |->
       IF joined[c] = "out" THEN calls[c] ELSE Append(calls[c], chunk)]
-----------------------------------------------------------------------------
PushLogEntry ==
  /\ next <= MaxPushes
  /\ LogEntriesToAdd' = Append(LogEntriesToAdd, next)
  /\ pushed' = Append(pushed, next)
  /\ next' = next + 1
  /\ UNCHANGED <<LogEntries, bForceEntriesUpdate, network>>

\* Bug: the players are not told.
EmptyLog_Silent ==
  /\ LogEntriesToAdd' = <<>> /\ LogEntries' = <<>>
  /\ pushed' = <<>>
  /\ UNCHANGED <<bForceEntriesUpdate, next, network>>

\* A player switches the computer on or a program starts it.
EmptyLog ==
  /\ LogEntriesToAdd' = <<>> /\ LogEntries' = <<>>
  /\ bForceEntriesUpdate' = TRUE
  /\ pushed' = <<>>
  /\ UNCHANGED <<next, network>>

\* Bug: a request is taken as answered by what is being published.
PublishChunk_Answers ==
  LET n == Least(Chunk, Len(LogEntriesToAdd))
      chunk == SubSeq(LogEntriesToAdd, 1, n)
  IN /\ LogEntriesToAdd # <<>>
     /\ LogEntriesToAdd' = SubSeq(LogEntriesToAdd, n + 1, Len(LogEntriesToAdd))
     /\ LogEntries' = Add(LogEntries, chunk)
     /\ bForceEntriesUpdate' = FALSE
     /\ Multicast(chunk)
     /\ UNCHANGED <<pushed, next, shown, joined>>

\* The tick publishes the next chunk of what waits ...
PublishChunk ==
  LET n == Least(Chunk, Len(LogEntriesToAdd))
      chunk == SubSeq(LogEntriesToAdd, 1, n)
  IN /\ LogEntriesToAdd # <<>>
     /\ LogEntriesToAdd' = SubSeq(LogEntriesToAdd, n + 1, Len(LogEntriesToAdd))
     /\ LogEntries' = Add(LogEntries, chunk)
     /\ Multicast(chunk)
     /\ UNCHANGED <<bForceEntriesUpdate, pushed, next, shown, joined>>

\* Bug: the server keeps the entries it publishes again.
StartAgain_Twice ==
  /\ LogEntriesToAdd = <<>> /\ bForceEntriesUpdate
  /\ bForceEntriesUpdate' = FALSE
  /\ LogEntriesToAdd' = LogEntries
  /\ Multicast(<<>>)
  /\ UNCHANGED <<LogEntries, pushed, next, shown, joined>>

\* ... and once nothing waits, starts again if somebody asked for it.
StartAgain ==
  /\ LogEntriesToAdd = <<>> /\ bForceEntriesUpdate
  /\ bForceEntriesUpdate' = FALSE
  /\ LogEntriesToAdd' = LogEntries
  /\ LogEntries' = <<>>
  /\ Multicast(<<>>)
  /\ UNCHANGED <<pushed, next, shown, joined>>

Tick == PublishChunk \/ StartAgain

\* A player's game opens the log: a new component, which asks the server.
Join(c) ==
  /\ joined[c] = "out"
  /\ joined' = [joined EXCEPT ![c] = "asking"]
  /\ UNCHANGED <<server, pushed, next, shown, calls>>

\* The request of a new client arrives.
RehandleAllEntries(c) ==
  /\ joined[c] = "asking"
  /\ joined' = [joined EXCEPT ![c] = "in"]
  /\ bForceEntriesUpdate' = TRUE
  /\ UNCHANGED <<LogEntries, LogEntriesToAdd, pushed, next, shown, calls>>

\* A multicast arrives at a client.
Receive(c) ==
  /\ calls[c] # <<>>
  /\ shown' = [shown EXCEPT ![c] = Add(@, Head(calls[c]))]
  /\ calls' = [calls EXCEPT ![c] = Tail(@)]
  /\ UNCHANGED <<server, pushed, next, joined>>

Leave(c) ==
  /\ joined[c] # "out"
  /\ joined' = [joined EXCEPT ![c] = "out"]
  /\ shown' = [shown EXCEPT ![c] = <<>>]
  /\ calls' = [calls EXCEPT ![c] = <<>>]
  /\ UNCHANGED <<server, pushed, next>>

\* A save and a load: LogEntries is saved, what waits is not.
SaveAndLoad ==
  /\ LogEntriesToAdd' = <<>> /\ bForceEntriesUpdate' = FALSE
  /\ pushed' = LogEntries
  /\ shown' = [c \in Clients |-> <<>>] /\ calls' = shown'
  /\ joined' = [c \in Clients |-> "out"]
  /\ UNCHANGED <<LogEntries, next>>

Next ==
  \/ PushLogEntry \/ EmptyLog \/ Tick \/ SaveAndLoad
  \/ \E c \in Clients :
       Join(c) \/ RehandleAllEntries(c) \/ Receive(c) \/ Leave(c)

Spec == Init /\ [][Next]_vars

\* The case keeps ticking, and reliable calls arrive.
FairSpec ==
  /\ Spec
  /\ WF_vars(Tick)
  /\ \A c \in Clients : WF_vars(RehandleAllEntries(c)) /\ WF_vars(Receive(c))
-----------------------------------------------------------------------------
\* The lists hold entries, the calls under way chunks of them.
TypeOK ==
  /\ LogEntries \in Seq(Nat) /\ LogEntriesToAdd \in Seq(Nat)
  /\ bForceEntriesUpdate \in BOOLEAN
  /\ pushed \in Seq(Nat) /\ next \in Nat
  /\ shown \in [Clients -> Seq(Nat)] /\ calls \in [Clients -> Seq(Seq(Nat))]
  /\ joined \in [Clients -> {"out", "asking", "in"}]

\* The server's log and what waits to enter it are together the latest entries
\* that were pushed, in their order, none twice and none missing, however often
\* players make it start again; only what the full log has to drop is gone,
\* and the log is never overfull.
NothingLost ==
  LET all == LogEntries \o LogEntriesToAdd
  IN /\ IsSuffix(all, pushed) /\ Len(LogEntries) <= MaxLogEntries
     /\ Len(all) < Len(pushed) => Len(all) >= MaxLogEntries

\* Once nothing waits and nothing is under way, every player sees the log of
\* the server, whenever they joined and whatever happened to the log since.
ClientsAgree ==
  \A c \in Clients :
    /\ joined[c] = "in" /\ calls[c] = <<>>
    /\ LogEntriesToAdd = <<>> /\ ~bForceEntriesUpdate
    => shown[c] = LogEntries

Settled(c) ==
  /\ shown[c] = LogEntries /\ calls[c] = <<>>
  /\ LogEntriesToAdd = <<>> /\ ~bForceEntriesUpdate

\* Unless the log is emptied or players come for ever, a player that asked for
\* the log has all of it one day, though programs push and others ask
\* meanwhile: a request that comes while entries are published is not forgotten.
PlayerSeesLog ==
  <>[][~EmptyLog /\ \A d \in Clients : ~Join(d)]_vars =>
    \A c \in Clients :
      joined[c] = "asking" ~> joined[c] = "out" \/ Settled(c)
=============================================================================
