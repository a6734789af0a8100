------------------------------ MODULE LuaLease ------------------------------
(***************************************************************************)
(* What the tick scheduler promises, without its locks, promises and       *)
(* flags: a lease on the Lua state of a computer.                          *)
(*                                                                         *)
(* At most one thread uses the Lua state.  The worker may be suspended in  *)
(* the middle of a call, still holding the lease; it goes on only with the *)
(* game thread granted to it, and keeps that grant until it gives the      *)
(* lease back.  API functions that touch the game run on the game thread   *)
(* or under a grant, never beside the game.                                *)
(***************************************************************************)
VARIABLES lease,  \* who uses the Lua state
          inApi   \* an API function that needs the game thread is running

Lease == {"free", "game", "worker", "suspended", "granted"}

TypeOK == lease \in Lease /\ inApi \in BOOLEAN

Init == lease = "free" /\ inApi = FALSE

\* The game thread runs, closes or saves the Lua state.
GameTakes  == lease = "free" /\ lease' = "game" /\ UNCHANGED inApi
GameGives  == lease = "game" /\ ~inApi /\ lease' = "free" /\ UNCHANGED inApi

\* The worker runs it; under a grant when the game is already waiting for it.
WorkerTakes == /\ lease = "free" /\ lease' \in {"worker", "granted"}
               /\ UNCHANGED inApi
WorkerGives == /\ lease \in {"worker", "granted"} /\ ~inApi /\ lease' = "free"
               /\ UNCHANGED inApi

\* The hand-off of an API call.
Suspend == lease = "worker" /\ lease' = "suspended" /\ UNCHANGED inApi
Grant   == lease = "suspended" /\ lease' = "granted" /\ UNCHANGED inApi

EnterApi == lease \in {"game", "granted"} /\ inApi' = TRUE /\ UNCHANGED lease
LeaveApi == inApi /\ inApi' = FALSE /\ UNCHANGED lease

Next == \/ GameTakes \/ GameGives \/ WorkerTakes \/ WorkerGives
        \/ Suspend \/ Grant \/ EnterApi \/ LeaveApi

Spec == Init /\ [][Next]_<<lease, inApi>>
=============================================================================
