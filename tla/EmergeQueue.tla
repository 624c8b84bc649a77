---------------------------- MODULE EmergeQueue ----------------------------
(***************************************************************************)
(* The emerge queue (src/emerge.cpp): EmergeManager, which threads of the  *)
(* server ask for map blocks, the EmergeThreads that load or generate      *)
(* them, their wake-up events, the callbacks of core.emerge_area, and      *)
(* startThreads()/stopThreads() as the maintenance mode uses them.         *)
(*                                                                         *)
(* Two locks order the actors: m_queue_mutex of the manager, which is not  *)
(* recursive, and m_luastackmutex of the server's Lua state, held while    *)
(* Lua code runs.  A critical section that calls nothing is one step; the  *)
(* lock variables hold the owners of the sections that call out.           *)
(***************************************************************************)
EXTENDS Naturals, Sequences, FiniteSets

CONSTANTS
  Positions,          \* block positions
  OverLimit,          \* those that blockpos_over_max_limit() refuses
  NumThreads,         \* m_threads.size()
  Callers,            \* the other threads of the server
  Peers,              \* session ids
  NoPeer,             \* PEER_ID_INEXISTENT: requests of the server itself
  QLimitTotal, QLimitDiskonly, QLimitGenerate,
  LuaAgents,          \* the threads whose Lua code calls core.emerge_area
  MayThrow,           \* TRUE: loading or generating a block may throw
  InitMayFail,        \* TRUE: initScripting() may fail
  Maintenance,        \* TRUE: SIGHUP stops and restarts the threads while
                      \* the server runs; FALSE: they stop once, at exit
  MaxCalls,           \* bound: calls of core.emerge_area with a callback
  Nobody              \* the owner of a free lock

Threads == 1 .. NumThreads
Agents  == Threads \union Callers
Calls   == 1 .. MaxCalls

ASSUME EmergeAssumption ==
  /\ IsFiniteSet(Positions) /\ OverLimit \subseteq Positions
  /\ NumThreads \in Nat \ {0}
  /\ Callers \intersect Threads = {} /\ Nobody \notin Agents
  /\ NoPeer \notin Peers /\ LuaAgents \subseteq Agents
  /\ QLimitDiskonly \in Nat \ {0, 1} /\ QLimitGenerate \in Nat \ {0}
  /\ QLimitTotal \in Nat
  /\ QLimitTotal >= QLimitDiskonly /\ QLimitTotal >= QLimitGenerate
  /\ MayThrow \in BOOLEAN /\ InitMayFail \in BOOLEAN
  /\ Maintenance \in BOOLEAN /\ MaxCalls \in Nat

VARIABLES
  m_blocks_enqueued,  \* the entry of a position, or NoEntry
  m_peer_queue_count, \* entries by the peer that asked first
  m_queue_mutex,      \* its owner, across the callbacks of a cancellation
  m_luastackmutex,    \* its owner
  m_block_queue,      \* the positions each thread has to work on
  m_queue_event,      \* Event::notified of each thread
  m_request_stop,     \* Thread::m_request_stop
  at,                 \* where EmergeThread::run() is
  item,               \* run()'s pos and bedata
  asking,             \* the call of core.emerge_area an agent is in
  signalling,         \* the thread an agent has pushed to and must signal
  manager, index,     \* where startThreads()/stopThreads() is
  calls,              \* ghost: calls of core.emerge_area so far
  fired               \* ghost: how often each call's callback has run

queueVars == <<m_blocks_enqueued, m_peer_queue_count, m_block_queue>>
vars == <<queueVars, m_queue_mutex, m_luastackmutex, m_queue_event,
          m_request_stop, at, item, asking, signalling, manager, index,
          calls, fired>>

Flags   == {"ALLOW_GEN", "FORCE_QUEUE"}
Entry   == [peer : Peers \union {NoPeer}, flags : SUBSET Flags,
            callbacks : SUBSET Calls]
NoEntry == [peer |-> Nobody]
Item    == [pos : Positions, allow_gen : BOOLEAN, callbacks : SUBSET Calls]
NoItem  == [pos |-> Nobody, allow_gen |-> FALSE, callbacks |-> {}]
NoCall  == [pos |-> Nobody, call |-> 0]

InQueue == {pos \in Positions : m_blocks_enqueued[pos] # NoEntry}
EntriesOf(peer) == {pos \in InQueue : m_blocks_enqueued[pos].peer = peer}

Init ==
  /\ m_blocks_enqueued = [pos \in Positions |-> NoEntry]
  /\ m_peer_queue_count = [peer \in Peers \union {NoPeer} |-> 0]
  /\ m_block_queue = [t \in Threads |-> <<>>]
  /\ m_queue_mutex = Nobody /\ m_luastackmutex = Nobody
  /\ m_queue_event = [t \in Threads |-> FALSE]
  /\ m_request_stop = [t \in Threads |-> FALSE]
  /\ at = [t \in Threads |-> "off"] /\ item = [t \in Threads |-> NoItem]
  /\ asking = [a \in Agents |-> NoCall]
  /\ signalling = [a \in Agents |-> Nobody]
  /\ manager = "stopped" /\ index = 1
  /\ calls = 0 /\ fired = [n \in Calls |-> 0]

-----------------------------------------------------------------------------
(* Asking for a block.                                                     *)

(* Server::stop() joins the other threads before the emerge threads stop.  *)
CallersRun == Maintenance \/ manager = "running"
CallersJoined == \A c \in Callers :
  asking[c] = NoCall /\ signalling[c] = Nobody /\ m_luastackmutex # c

(* Mutant: one too many.                                                   *)
AllowedOneMore(peer, flags) ==
  \/ "FORCE_QUEUE" \in flags
  \/ /\ Cardinality(InQueue) <= QLimitTotal
     /\ IF peer # NoPeer
        THEN m_peer_queue_count[peer] <=
               (IF "ALLOW_GEN" \in flags THEN QLimitGenerate ELSE QLimitDiskonly)
        ELSE m_peer_queue_count[peer] * 2 <= QLimitTotal

Allowed(peer, flags) ==
  \/ "FORCE_QUEUE" \in flags
  \/ /\ Cardinality(InQueue) < QLimitTotal
     /\ IF peer # NoPeer
        THEN m_peer_queue_count[peer] <
               (IF "ALLOW_GEN" \in flags THEN QLimitGenerate ELSE QLimitDiskonly)
        ELSE m_peer_queue_count[peer] * 2 < QLimitTotal

(* The first of the threads with the shortest queue. *)
getOptimalThread ==
  CHOOSE t \in Threads : \A u \in Threads :
    \/ Len(m_block_queue[t]) < Len(m_block_queue[u])
    \/ Len(m_block_queue[t]) = Len(m_block_queue[u]) /\ t <= u

Refuse == UNCHANGED <<queueVars, signalling>>

(* Mutants: the merged request is counted again; its callback is dropped.  *)
MergeCounted(pos, flags, callbacks) ==
  /\ m_blocks_enqueued' = [m_blocks_enqueued EXCEPT
       ![pos].flags = @ \union flags, ![pos].callbacks = @ \union callbacks]
  /\ m_peer_queue_count' = [m_peer_queue_count EXCEPT
       ![m_blocks_enqueued[pos].peer] = @ + 1]
  /\ UNCHANGED <<m_block_queue, signalling>>
MergeFlags(pos, flags, callbacks) ==
  /\ m_blocks_enqueued' =
       [m_blocks_enqueued EXCEPT ![pos].flags = @ \union flags]
  /\ UNCHANGED <<m_peer_queue_count, m_block_queue, signalling>>

Merge(pos, flags, callbacks) ==
  /\ m_blocks_enqueued' = [m_blocks_enqueued EXCEPT
       ![pos].flags = @ \union flags, ![pos].callbacks = @ \union callbacks]
  /\ UNCHANGED <<m_peer_queue_count, m_block_queue, signalling>>

Push(a, pos, peer, flags, callbacks) ==
  /\ m_blocks_enqueued' = [m_blocks_enqueued EXCEPT
       ![pos] = [peer |-> peer, flags |-> flags, callbacks |-> callbacks]]
  /\ m_peer_queue_count' = [m_peer_queue_count EXCEPT ![peer] = @ + 1]
  /\ m_block_queue' = [m_block_queue EXCEPT ![getOptimalThread] = Append(@, pos)]
  /\ signalling' = [signalling EXCEPT ![a] = getOptimalThread]

(* Mutant: a position is pushed again although it is queued.               *)
enqueueAgain(a, pos, peer, flags, callbacks) ==
  /\ m_queue_mutex = Nobody /\ signalling[a] = Nobody
  /\ IF ~Allowed(peer, flags) THEN Refuse
     ELSE Push(a, pos, peer, flags, callbacks)

(* The part of enqueueBlockEmergeEx() under m_queue_mutex. *)
enqueueBlockEmergeEx(a, pos, peer, flags, callbacks) ==
  /\ m_queue_mutex = Nobody /\ signalling[a] = Nobody
  /\ IF ~Allowed(peer, flags) THEN Refuse
     ELSE IF pos \in InQueue THEN Merge(pos, flags, callbacks)
     ELSE Push(a, pos, peer, flags, callbacks)

(* Mutant: the first thread is signalled, whoever has the work.            *)
SignalFirst(a) ==
  /\ signalling[a] # Nobody
  /\ m_queue_event' = [m_queue_event EXCEPT ![1] = TRUE]
  /\ signalling' = [signalling EXCEPT ![a] = Nobody]
  /\ UNCHANGED <<queueVars, m_queue_mutex, m_luastackmutex, m_request_stop, at,
                 item, asking, manager, index, calls, fired>>

(* thread->signal(), after the lock is released. *)
Signal(a) ==
  /\ signalling[a] # Nobody
  /\ m_queue_event' = [m_queue_event EXCEPT ![signalling[a]] = TRUE]
  /\ signalling' = [signalling EXCEPT ![a] = Nobody]
  /\ UNCHANGED <<queueVars, m_queue_mutex, m_luastackmutex, m_request_stop, at,
                 item, asking, manager, index, calls, fired>>

(* enqueueBlockEmerge(): clients, active blocks, interactions. *)
enqueueBlockEmerge(c) ==
  /\ CallersRun /\ m_luastackmutex # c
  /\ \E pos \in Positions, peer \in Peers \union {NoPeer}, flags \in SUBSET Flags :
       /\ "FORCE_QUEUE" \in flags => peer = NoPeer /\ "ALLOW_GEN" \in flags
       /\ enqueueBlockEmergeEx(c, pos, peer, flags, {})
  /\ UNCHANGED <<m_queue_mutex, m_luastackmutex, m_queue_event, m_request_stop,
                 at, item, asking, manager, index, calls, fired>>

(* Lua code of the server starts in one of its threads ...                 *)
EnterLua(c) ==
  /\ CallersRun /\ c \in LuaAgents /\ calls < MaxCalls
  /\ m_luastackmutex = Nobody /\ m_luastackmutex' = c
  /\ signalling[c] = Nobody
  /\ UNCHANGED <<queueVars, m_queue_mutex, m_queue_event, m_request_stop, at,
                 item, asking, signalling, manager, index, calls, fired>>

(* ... calls core.emerge_area with a callback (l_emerge_area() enqueues    *)
(* block by block; an area is several calls) ...                           *)
CallEmergeArea(a) ==
  /\ a \in LuaAgents /\ m_luastackmutex = a
  /\ asking[a] = NoCall /\ signalling[a] = Nobody
  /\ calls < MaxCalls /\ calls' = calls + 1
  /\ \E pos \in Positions :
       asking' = [asking EXCEPT ![a] = [pos |-> pos, call |-> calls + 1]]
  /\ UNCHANGED <<queueVars, m_queue_mutex, m_luastackmutex, m_queue_event,
                 m_request_stop, at, item, signalling, manager, index, fired>>

(* ... which waits for m_queue_mutex.                                      *)
l_emerge_area(a) ==
  /\ asking[a] # NoCall
  /\ enqueueBlockEmergeEx(a, asking[a].pos, NoPeer,
                          {"ALLOW_GEN", "FORCE_QUEUE"}, {asking[a].call})
  /\ asking' = [asking EXCEPT ![a] = NoCall]
  /\ UNCHANGED <<m_queue_mutex, m_luastackmutex, m_queue_event, m_request_stop,
                 at, item, manager, index, calls, fired>>

(* Lua returns; environment_OnGenerated() returns to finishGen().          *)
LeaveLua(a) ==
  /\ m_luastackmutex = a /\ m_luastackmutex' = Nobody
  /\ asking[a] = NoCall /\ signalling[a] = Nobody
  /\ at' = IF a \in Threads /\ at[a] = "on_generated"
           THEN [at EXCEPT ![a] = "report"] ELSE at
  /\ UNCHANGED <<queueVars, m_queue_mutex, m_queue_event, m_request_stop, item,
                 asking, signalling, manager, index, calls, fired>>

-----------------------------------------------------------------------------
(* EmergeThread::run().                                                    *)

threadLocks == <<m_queue_mutex, m_luastackmutex>>
others      == <<asking, signalling, manager, index, calls>>

Goto(t, place) == at' = [at EXCEPT ![t] = place]

initScripting(t) ==
  /\ at[t] = "init" /\ Goto(t, "loop")
  /\ \/ UNCHANGED m_request_stop
     \/ InitMayFail /\ m_request_stop' = [m_request_stop EXCEPT ![t] = TRUE]
  /\ UNCHANGED <<queueVars, threadLocks, m_queue_event, item, others, fired>>

(* popBlockEmergeData(), and the front of the thread's queue into item.    *)
TakeFront(t) ==
  LET pos == Head(m_block_queue[t]) IN
  /\ m_block_queue[t] # <<>>
  /\ m_block_queue' = [m_block_queue EXCEPT ![t] = Tail(@)]
  /\ item' = [item EXCEPT ![t] = [pos |-> pos,
                allow_gen |-> "ALLOW_GEN" \in m_blocks_enqueued[pos].flags,
                callbacks |-> m_blocks_enqueued[pos].callbacks]]
  /\ m_peer_queue_count' =
       [m_peer_queue_count EXCEPT ![m_blocks_enqueued[pos].peer] = @ - 1]
  /\ m_blocks_enqueued' = [m_blocks_enqueued EXCEPT ![pos] = NoEntry]

popBlockEmerge(t) ==
  /\ at[t] = "loop" /\ ~m_request_stop[t] /\ m_queue_mutex = Nobody
  /\ \/ TakeFront(t) /\ Goto(t, "work")
     \/ m_block_queue[t] = <<>> /\ Goto(t, "wait") /\ UNCHANGED <<queueVars, item>>
  /\ UNCHANGED <<threadLocks, m_queue_event, m_request_stop, others, fired>>

(* Event::wait() *)
Wake(t) ==
  /\ at[t] = "wait" /\ m_queue_event[t] /\ Goto(t, "loop")
  /\ m_queue_event' = [m_queue_event EXCEPT ![t] = FALSE]
  /\ UNCHANGED <<queueVars, threadLocks, m_request_stop, item, others, fired>>

(* The position is over the limit: continue.  An exception: caught in the  *)
(* loop.  Either way bedata goes out of scope.                             *)
Abandon(t) ==
  /\ at[t] = "work" /\ (item[t].pos \in OverLimit \/ MayThrow)
  /\ Goto(t, "loop") /\ item' = [item EXCEPT ![t] = NoItem]
  /\ UNCHANGED <<queueVars, threadLocks, m_queue_event, m_request_stop, others,
                 fired>>

(* getBlockOrStartGen() found, loaded or gave up the block, or the mapgen  *)
(* failed before finishGen().                                              *)
Work(t) ==
  /\ at[t] = "work" /\ item[t].pos \notin OverLimit /\ Goto(t, "report")
  /\ UNCHANGED <<queueVars, threadLocks, m_queue_event, m_request_stop, item,
                 others, fired>>

(* finishGen() runs the server's on_generated callbacks.                   *)
finishGen(t) ==
  /\ at[t] = "work" /\ item[t].pos \notin OverLimit
  /\ item[t].allow_gen /\ Goto(t, "on_generated")
  /\ m_luastackmutex = Nobody /\ m_luastackmutex' = t
  /\ UNCHANGED <<queueVars, m_queue_mutex, m_queue_event, m_request_stop, item,
                 others, fired>>

(* Mutant: the callback stays in the list.                                 *)
runCallbacksAgain(t) ==
  /\ at[t] \in {"report", "cancelling"}
  /\ m_luastackmutex = Nobody /\ m_luastackmutex' = t
  /\ \E n \in item[t].callbacks :
       fired[n] < 2 /\ fired' = [fired EXCEPT ![n] = @ + 1]
  /\ UNCHANGED <<queueVars, m_queue_mutex, m_queue_event, m_request_stop, at,
                 item, others>>

(* One turn of runCompletionCallbacks(): LuaEmergeAreaCallback().          *)
runCompletionCallbacks(t) ==
  /\ at[t] \in {"report", "cancelling"}
  /\ m_luastackmutex = Nobody /\ m_luastackmutex' = t
  /\ \E n \in item[t].callbacks :
       /\ fired' = [fired EXCEPT ![n] = @ + 1]
       /\ item' = [item EXCEPT ![t].callbacks = @ \ {n}]
  /\ UNCHANGED <<queueVars, m_queue_mutex, m_queue_event, m_request_stop, at,
                 others>>

CallbacksRun(t) == item[t].callbacks = {} /\ m_luastackmutex # t

Reported(t) ==
  /\ at[t] = "report" /\ CallbacksRun(t) /\ Goto(t, "loop")
  /\ item' = [item EXCEPT ![t] = NoItem]
  /\ UNCHANGED <<queueVars, threadLocks, m_queue_event, m_request_stop, others,
                 fired>>

(* Out of the loop, cancelPendingItems() takes m_queue_mutex ...           *)
BeginCancel(t) ==
  /\ at[t] = "loop" /\ m_request_stop[t] /\ Goto(t, "cancelling")
  /\ m_queue_mutex = Nobody /\ m_queue_mutex' = t
  /\ UNCHANGED <<queueVars, m_luastackmutex, m_queue_event, m_request_stop, item,
                 others, fired>>

(* ... and holds it over the callbacks of every item left in the queue.    *)
cancelPendingItems(t) ==
  /\ at[t] = "cancelling" /\ CallbacksRun(t)
  /\ \/ TakeFront(t) /\ UNCHANGED <<at, m_queue_mutex>>
     \/ /\ m_block_queue[t] = <<>> /\ Goto(t, "off")
        /\ m_queue_mutex' = Nobody /\ item' = [item EXCEPT ![t] = NoItem]
        /\ UNCHANGED queueVars
  /\ UNCHANGED <<m_luastackmutex, m_queue_event, m_request_stop, others, fired>>

-----------------------------------------------------------------------------
(* startThreads() and stopThreads(), called by one thread (maintenance     *)
(* mode, destructor).                                                      *)

managerOnly == <<queueVars, threadLocks, item, asking, signalling, calls, fired>>

Step(from, to) ==
  /\ manager = from
  /\ IF index < NumThreads THEN index' = index + 1 /\ manager' = from
     ELSE index' = 1 /\ manager' = to

Begin(from, to) ==
  /\ manager = from /\ manager' = to
  /\ UNCHANGED <<managerOnly, index, at, m_queue_event, m_request_stop>>

NeverStopped == \A t \in Threads : ~m_request_stop[t]

startThreads == (Maintenance \/ NeverStopped) /\ Begin("stopped", "starting")
stopThreads  == (Maintenance \/ CallersJoined) /\ Begin("running", "stop")

ThreadStart ==
  /\ Step("starting", "running")
  /\ m_request_stop' = [m_request_stop EXCEPT ![index] = FALSE]
  /\ Goto(index, "init")
  /\ UNCHANGED <<managerOnly, m_queue_event>>

ThreadStop ==
  /\ manager = "stop" /\ manager' = "signal"
  /\ m_request_stop' = [m_request_stop EXCEPT ![index] = TRUE]
  /\ UNCHANGED <<managerOnly, index, at, m_queue_event>>

(* Mutant: the thread is told to stop but not woken.                       *)
ThreadSignalNot ==
  /\ manager = "signal"
  /\ IF index < NumThreads THEN index' = index + 1 /\ manager' = "stop"
     ELSE index' = 1 /\ manager' = "join"
  /\ UNCHANGED <<managerOnly, at, m_queue_event, m_request_stop>>

ThreadSignal ==
  /\ manager = "signal"
  /\ IF index < NumThreads THEN index' = index + 1 /\ manager' = "stop"
     ELSE index' = 1 /\ manager' = "join"
  /\ m_queue_event' = [m_queue_event EXCEPT ![index] = TRUE]
  /\ UNCHANGED <<managerOnly, at, m_request_stop>>

ThreadWait ==
  /\ at[index] = "off" /\ Step("join", "stopped")
  /\ UNCHANGED <<managerOnly, at, m_queue_event, m_request_stop>>

-----------------------------------------------------------------------------
ManagerStep == ThreadStart \/ ThreadStop \/ ThreadSignal \/ ThreadWait
LuaStep(a)  == l_emerge_area(a) \/ LeaveLua(a)
ThreadStep(t) ==
  \/ initScripting(t) \/ popBlockEmerge(t) \/ Wake(t) \/ Abandon(t) \/ Work(t)
  \/ finishGen(t) \/ runCompletionCallbacks(t) \/ Reported(t)
  \/ BeginCancel(t) \/ cancelPendingItems(t)

Next ==
  \/ startThreads \/ stopThreads \/ ManagerStep
  \/ \E c \in Callers : enqueueBlockEmerge(c) \/ EnterLua(c)
  \/ \E a \in Agents : CallEmergeArea(a) \/ LuaStep(a) \/ Signal(a)
  \/ \E t \in Threads : ThreadStep(t)

Spec == Init /\ [][Next]_vars

(* Every thread runs on; nobody is obliged to ask, to start or to stop.    *)
(* The Lua lock is passed on: a thread does not wait for ever for a lock   *)
(* that is released again and again.                                       *)
FairSpec ==
  /\ Spec /\ WF_vars(ManagerStep)
  /\ \A a \in Agents : /\ WF_vars(LuaStep(a))
                       /\ WF_vars(Signal(a))
  /\ \A t \in Threads : /\ WF_vars(ThreadStep(t))
                        /\ SF_vars(runCompletionCallbacks(t))

-----------------------------------------------------------------------------
(* Types of the manager's, the threads' and the callers' state.            *)
TypeOK ==
  /\ m_blocks_enqueued \in [Positions -> Entry \union {NoEntry}]
  /\ m_peer_queue_count \in [Peers \union {NoPeer} -> Nat]
  /\ m_block_queue \in [Threads -> Seq(Positions)]
  /\ {m_queue_mutex, m_luastackmutex} \subseteq Agents \union {Nobody}
  /\ m_queue_event \in [Threads -> BOOLEAN]
  /\ m_request_stop \in [Threads -> BOOLEAN]
  /\ at \in [Threads -> {"off", "init", "loop", "wait", "work", "on_generated",
                         "report", "cancelling"}]
  /\ item \in [Threads -> Item \union {NoItem}]
  /\ asking \in [Agents -> [pos : Positions, call : Calls] \union {NoCall}]
  /\ signalling \in [Agents -> Threads \union {Nobody}]
  /\ manager \in {"stopped", "starting", "running", "stop", "signal", "join"}
  /\ index \in Threads
  /\ calls \in 0 .. MaxCalls /\ fired \in [Calls -> Nat]

Occurrences(pos) ==
  {s \in Threads \X (1 .. Cardinality(Positions)) :
     s[2] \in DOMAIN m_block_queue[s[1]] /\ m_block_queue[s[1]][s[2]] = pos}

(* The map of requests and the queues of the threads agree: a position has *)
(* an entry exactly when it is in one place of one queue.  If it were in a *)
(* queue without an entry popBlockEmergeData() would fail, unchecked, and  *)
(* run() would work with an uninitialized bedata; an entry in no queue     *)
(* would refuse the block for ever (enqueueBlockEmergeEx(),                *)
(* popBlockEmerge(), cancelPendingItems()).                                *)
QueuedOnce == \A pos \in Positions :
  Cardinality(Occurrences(pos)) = IF pos \in InQueue THEN 1 ELSE 0

(* A peer's count is the number of entries it was first to ask for,        *)
(* whoever merged into them and however they left the queue                *)
(* (pushBlockEmergeData() and popBlockEmergeData()): no peer is locked out *)
(* by a count that leaks.                                                  *)
CountsAgree == \A peer \in Peers \union {NoPeer} :
  m_peer_queue_count[peer] = Cardinality(EntriesOf(peer))

(* The entries nobody forced respect the limits: the server's own active   *)
(* blocks take at most half of the queue, rounded up, a peer at most its   *)
(* larger limit, all together the total (pushBlockEmergeData()).           *)
Unforced == {pos \in InQueue :
               "FORCE_QUEUE" \notin m_blocks_enqueued[pos].flags}
QueueLimited ==
  /\ Cardinality(Unforced) <= QLimitTotal
  /\ Cardinality(Unforced \intersect EntriesOf(NoPeer)) * 2 <= QLimitTotal + 1
  /\ \A peer \in Peers : LET n == Cardinality(Unforced \intersect EntriesOf(peer))
       IN n <= QLimitGenerate \/ n <= QLimitDiskonly

(* No wake-up is lost: a thread that waits while it has work, or has been  *)
(* asked to stop, has its event set or is about to have it set, although   *)
(* work is pushed under one lock and signalled outside of it.              *)
NoLostWakeup == \A t \in Threads :
  at[t] = "wait" /\ (m_block_queue[t] # <<>> \/ m_request_stop[t]) =>
    \/ m_queue_event[t]
    \/ \E a \in Agents : signalling[a] = t
    \/ manager = "signal" /\ index = t

Places(n) ==
  {<<"asking", a>> : a \in {b \in Agents : asking[b].call = n}}
  \union {<<"entry", p>> : p \in {q \in InQueue : n \in m_blocks_enqueued[q].callbacks}}
  \union {<<"item", t>> : t \in {u \in Threads : n \in item[u].callbacks}}

(* A callback runs at most once and never while a copy of it is queued     *)
(* (its last run frees the state it shares, LuaEmergeAreaCallback()).      *)
CallbackOnce == \A n \in Calls : Cardinality(Places(n)) + fired[n] <= 1

(* A callback that core.emerge_area took is run, or still held somewhere   *)
(* that will run it.                                                       *)
CallbackKept == \A n \in 1 .. calls : Cardinality(Places(n)) + fired[n] = 1

(* A queued position is taken up, unless the threads are stopped: work is  *)
(* pushed to one thread's queue and no other thread will take it.          *)
Served == \A pos \in Positions :
  pos \in InQueue ~> pos \notin InQueue \/ manager # "running"

(* A callback is run, or waits for the threads to be started again.        *)
CallbackRuns == \A n \in Calls :
  n <= calls ~> fired[n] = 1 \/ manager = "stopped"

(* stopThreads() returns.                                                  *)
StopEnds == manager = "stop" ~> manager = "stopped"
=============================================================================
