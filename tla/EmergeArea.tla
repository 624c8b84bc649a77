----------------------------- MODULE EmergeArea -----------------------------
(***************************************************************************)
(* The callbacks of one core.emerge_area(): l_emerge_area() makes one      *)
(* ScriptCallbackState for all the blocks of the area and queues them; an  *)
(* emerge thread that is done with a block runs LuaEmergeAreaCallback(),   *)
(* which counts the state down, calls the Lua function under the script    *)
(* lock, and frees the state when it was the last.  The comments want the  *)
(* environment lock around all of it; Server::EnvAutoLock locks nothing.   *)
(***************************************************************************)
EXTENDS Naturals, Sequences

CONSTANTS
  AreaBlocks,     \* the volume of the area, not 0
  AreaThreads,    \* the threads that run completion callbacks
  NoThread

VARIABLES
  refcount,       \* state->refcount
  queued,         \* blocks whose callback has not begun
  areaPc,         \* where each thread is in LuaEmergeAreaCallback()
  counted,        \* the value of refcount each thread works with
  m_luastackmutex,
  told,           \* calls_remaining as the Lua function got it, call by call
  unrefs,         \* how often the references to function and argument were dropped
  deletes         \* how often the state was deleted

areaVars == <<refcount, queued, areaPc, counted, m_luastackmutex, told, unrefs, deletes>>

AreaInit ==
  /\ refcount = AreaBlocks /\ queued = AreaBlocks
  /\ areaPc = [t \in AreaThreads |-> "idle"]
  /\ counted = [t \in AreaThreads |-> 0]
  /\ m_luastackmutex = NoThread
  /\ told = <<>> /\ unrefs = 0 /\ deletes = 0

Move(t, from, to) == areaPc[t] = from /\ areaPc' = [areaPc EXCEPT ![t] = to]

(* A block is done; refcount-- is a load and a store, under no lock.       *)
LoadRefcount(t) ==
  /\ queued > 0
  /\ Move(t, "idle", "loaded")
  /\ queued' = queued - 1
  /\ counted' = [counted EXCEPT ![t] = refcount]
  /\ UNCHANGED <<refcount, m_luastackmutex, told, unrefs, deletes>>

StoreRefcount(t) ==
  /\ Move(t, "loaded", "counted")
  /\ refcount' = counted[t] - 1
  /\ UNCHANGED <<queued, counted, m_luastackmutex, told, unrefs, deletes>>

(* The argument of the call: whatever refcount is by now.                  *)
Remaining(t) == refcount

IsLast == refcount = 0

(* on_emerge_area_completion(): take the script lock, read refcount for    *)
(* the argument, and call the function.                                    *)
CallLua(t) ==
  /\ m_luastackmutex = NoThread
  /\ Move(t, "counted", "calling")
  /\ m_luastackmutex' = t
  /\ told' = Append(told, Remaining(t))
  /\ UNCHANGED <<refcount, queued, counted, unrefs, deletes>>

(* Read refcount again after the call, and let the lock go.                *)
ReturnFromLua(t) ==
  /\ Move(t, "calling", "returned")
  /\ unrefs' = IF IsLast THEN unrefs + 1 ELSE unrefs
  /\ m_luastackmutex' = NoThread
  /\ UNCHANGED <<refcount, queued, counted, told, deletes>>

(* And a third time, to delete the state.                                  *)
DeleteState(t) ==
  /\ Move(t, "returned", "idle")
  /\ deletes' = IF IsLast THEN deletes + 1 ELSE deletes
  /\ UNCHANGED <<refcount, queued, counted, m_luastackmutex, told, unrefs>>

AreaNext == \E t \in AreaThreads :
  \/ LoadRefcount(t) \/ StoreRefcount(t)
  \/ CallLua(t) \/ ReturnFromLua(t) \/ DeleteState(t)

AreaSpec == AreaInit /\ [][AreaNext]_areaVars

(***************************************************************************)
(* Properties.                                                             *)
(***************************************************************************)

(* "calls_remaining is the amount of callbacks to be expected after this   *)
(* one" (doc/lua_api.md): the calls are told one less each time, the last  *)
(* one zero.                                                               *)
CallsRemaining == \A i \in DOMAIN told : told[i] = AreaBlocks - i
=============================================================================
