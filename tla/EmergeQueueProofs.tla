------------------------- MODULE EmergeQueueProofs -------------------------
(***************************************************************************)
(* Proofs about EmergeQueue, for any number of threads, callers, positions *)
(* and peers, and any limits.                                              *)
(***************************************************************************)
EXTENDS EmergeQueue, SequenceTheorems, FunctionTheorems, DataLemmas

-----------------------------------------------------------------------------
(* The inductive invariant.  What popBlockEmergeData() does has a type     *)
(* only if the position it is given has an entry, and the counts stay      *)
(* natural numbers only if they count something: types, counts and the     *)
(* agreement of map and queues hold together or not at all.                *)
QueueTypes ==
  /\ m_blocks_enqueued \in [Positions -> Entry \union {NoEntry}]
  /\ m_peer_queue_count \in [Peers \union {NoPeer} -> Nat]
  /\ m_block_queue \in [Threads -> Seq(Positions)]

(* A queued position has an entry, ...                                     *)
Entered == \A t \in Threads : \A i \in DOMAIN m_block_queue[t] :
             m_block_queue[t][i] \in InQueue

(* ... is queued in one place only, ...                                    *)
Once == \A t, u \in Threads :
          \A i \in DOMAIN m_block_queue[t], j \in DOMAIN m_block_queue[u] :
            m_block_queue[t][i] = m_block_queue[u][j] => t = u /\ i = j

(* ... and an entry is queued somewhere.                                   *)
Somewhere == \A pos \in InQueue : \E t \in Threads :
               \E i \in DOMAIN m_block_queue[t] : m_block_queue[t][i] = pos

QInv == QueueTypes /\ CountsAgree /\ Entered /\ Once /\ Somewhere

-----------------------------------------------------------------------------
(* A record with another domain is not an entry.                           *)
LEMMA NoEntryIsNone ==
  ASSUME NEW e \in Entry
  PROVE  e # NoEntry
<1>1. DOMAIN e = {"peer", "flags", "callbacks"}
  BY DEF Entry
<1>2. DOMAIN NoEntry = {"peer"}
  BY DEF NoEntry
<1>3. "flags" \in DOMAIN e /\ "flags" \notin DOMAIN NoEntry
  BY <1>1, <1>2
<1> QED BY <1>3

LEMMA InQueueIsEntry ==
  ASSUME QueueTypes, NEW pos \in InQueue
  PROVE  pos \in Positions /\ m_blocks_enqueued[pos] \in Entry
BY DEF QueueTypes, InQueue

LEMMA EntriesFinite ==
  ASSUME NEW peer
  PROVE  IsFiniteSet(EntriesOf(peer))
<1>1. IsFiniteSet(Positions) /\ EntriesOf(peer) \in SUBSET Positions
  BY EmergeAssumption DEF EntriesOf, InQueue
<1> QED BY <1>1, FS_Subset

(* getOptimalThread() finds a thread.                                      *)
LEMMA OptimalThread ==
  ASSUME QueueTypes
  PROVE  getOptimalThread \in Threads
<1> DEFINE Lengths == {Len(m_block_queue[t]) : t \in Threads}
<1>1. 1 \in Threads /\ Threads \subseteq Nat
  BY EmergeAssumption DEF Threads
<1>2. \A t \in Threads : Len(m_block_queue[t]) \in Nat
  BY DEF QueueTypes
<1>3. PICK n \in Lengths : \A m \in Lengths : n <= m
  <2>1. Lengths \subseteq Nat /\ Lengths # {}
    BY <1>1, <1>2
  <2> QED BY <2>1, LeastNatural
<1> DEFINE Shortest == {t \in Threads : Len(m_block_queue[t]) = n}
<1>4. PICK t \in Shortest : \A u \in Shortest : t <= u
  <2>1. Shortest \subseteq Nat /\ Shortest # {}
    BY <1>1, <1>3
  <2> QED BY <2>1, LeastNatural
<1>5. ASSUME NEW u \in Threads
      PROVE  \/ Len(m_block_queue[t]) < Len(m_block_queue[u])
             \/ Len(m_block_queue[t]) = Len(m_block_queue[u]) /\ t <= u
  <2>1. n <= Len(m_block_queue[u]) /\ Len(m_block_queue[t]) = n
    BY <1>3, <1>4
  <2>2. CASE Len(m_block_queue[u]) = n
    BY <1>4, <2>1, <2>2
  <2>3. CASE Len(m_block_queue[u]) # n
    BY <1>2, <2>1, <2>3
  <2> QED BY <2>2, <2>3
<1>6. \E w \in Threads : \A u \in Threads :
        \/ Len(m_block_queue[w]) < Len(m_block_queue[u])
        \/ Len(m_block_queue[w]) = Len(m_block_queue[u]) /\ w <= u
  BY <1>4, <1>5
<1> QED BY <1>6 DEF getOptimalThread

-----------------------------------------------------------------------------
(* The three ways the map of requests and the queues change.               *)

(* A request for a queued position changes its flags and callbacks.        *)
LEMMA MergeStep ==
  ASSUME QInv, NEW pos \in InQueue, NEW flags \in SUBSET Flags,
         NEW callbacks \in SUBSET Calls, Merge(pos, flags, callbacks)
  PROVE  QInv'
<1> DEFINE e == m_blocks_enqueued[pos]
           f == [e EXCEPT !.flags = @ \union flags,
                          !.callbacks = @ \union callbacks]
<1>1. pos \in Positions /\ e \in Entry
  BY InQueueIsEntry DEF QInv
<1>2. f \in Entry /\ f.peer = e.peer
  BY <1>1 DEF Entry
<1>3. m_blocks_enqueued' = [m_blocks_enqueued EXCEPT ![pos] = f]
  BY DEF Merge
<1>4. UNCHANGED <<m_peer_queue_count, m_block_queue>>
  BY DEF Merge
<1> HIDE DEF f
<1>5. /\ m_blocks_enqueued \in [Positions -> Entry \union {NoEntry}]
      /\ m_blocks_enqueued' \in [Positions -> Entry \union {NoEntry}]
      /\ m_blocks_enqueued'[pos] = f
      /\ \A q \in Positions \ {pos} : m_blocks_enqueued'[q] = m_blocks_enqueued[q]
  BY <1>1, <1>2, <1>3 DEF QInv, QueueTypes
<1>6. InQueue' = InQueue
  BY <1>1, <1>2, <1>5, NoEntryIsNone DEF InQueue
<1>7. ASSUME NEW peer PROVE EntriesOf(peer)' = EntriesOf(peer)
  BY <1>1, <1>2, <1>5, <1>6 DEF EntriesOf, InQueue
<1> QED BY <1>4, <1>5, <1>6, <1>7
        DEF QInv, QueueTypes, CountsAgree, Entered, Once, Somewhere

(* A new request is counted and appended to one thread's queue.            *)
LEMMA PushStep ==
  ASSUME QInv, NEW a, NEW pos \in Positions \ InQueue,
         NEW peer \in Peers \union {NoPeer}, NEW flags \in SUBSET Flags,
         NEW callbacks \in SUBSET Calls, Push(a, pos, peer, flags, callbacks)
  PROVE  QInv'
<1> DEFINE f == [peer |-> peer, flags |-> flags, callbacks |-> callbacks]
           g == getOptimalThread
<1>1. f \in Entry /\ f.peer = peer /\ g \in Threads /\ QueueTypes
  BY OptimalThread DEF Entry, QInv
<1>2. /\ m_blocks_enqueued' = [m_blocks_enqueued EXCEPT ![pos] = f]
      /\ m_peer_queue_count' = [m_peer_queue_count EXCEPT ![peer] = @ + 1]
      /\ m_block_queue' = [m_block_queue EXCEPT ![g] = Append(@, pos)]
  BY DEF Push
<1> HIDE DEF f, g
<1>3. /\ m_blocks_enqueued' \in [Positions -> Entry \union {NoEntry}]
      /\ m_blocks_enqueued'[pos] = f
      /\ \A q \in Positions \ {pos} : m_blocks_enqueued'[q] = m_blocks_enqueued[q]
  BY <1>1, <1>2 DEF QueueTypes
<1>4. InQueue' = InQueue \union {pos}
  BY <1>1, <1>3, NoEntryIsNone DEF InQueue
<1>5. /\ m_peer_queue_count' \in [Peers \union {NoPeer} -> Nat]
      /\ m_peer_queue_count'[peer] = m_peer_queue_count[peer] + 1
      /\ \A q \in Peers \union {NoPeer} :
           q # peer => m_peer_queue_count'[q] = m_peer_queue_count[q]
  BY <1>1, <1>2 DEF QueueTypes
<1>6. CountsAgree'
  <2>1. EntriesOf(peer)' = EntriesOf(peer) \union {pos}
    BY <1>1, <1>3, <1>4 DEF EntriesOf, InQueue
  <2>2. pos \notin EntriesOf(peer)
    BY DEF EntriesOf
  <2>3. Cardinality(EntriesOf(peer)') = Cardinality(EntriesOf(peer)) + 1
    BY <2>1, <2>2, EntriesFinite, FS_AddElement
  <2>4. ASSUME NEW q, q # peer PROVE EntriesOf(q)' = EntriesOf(q)
    BY <1>1, <1>3, <1>4, <2>4 DEF EntriesOf, InQueue
  <2> QED BY <1>5, <2>3, <2>4 DEF QInv, CountsAgree
<1>7. /\ m_block_queue' \in [Threads -> Seq(Positions)]
      /\ m_block_queue'[g] = Append(m_block_queue[g], pos)
      /\ \A t \in Threads : t # g => m_block_queue'[t] = m_block_queue[t]
  <2>1. Append(m_block_queue[g], pos) \in Seq(Positions)
    BY <1>1, AppendProperties DEF QueueTypes
  <2> QED BY <1>1, <1>2, <2>1 DEF QueueTypes
<1> DEFINE last == Len(m_block_queue[g]) + 1
<1>8. /\ last \in DOMAIN m_block_queue'[g] /\ m_block_queue'[g][last] = pos
      /\ \A t \in Threads : \A i \in DOMAIN m_block_queue'[t] :
           \/ t = g /\ i = last
           \/ i \in DOMAIN m_block_queue[t] /\ m_block_queue'[t][i] = m_block_queue[t][i]
      /\ \A t \in Threads : \A i \in DOMAIN m_block_queue[t] :
           i \in DOMAIN m_block_queue'[t] /\ m_block_queue'[t][i] = m_block_queue[t][i]
  <2>1. m_block_queue[g] \in Seq(Positions)
    BY <1>1 DEF QueueTypes
  <2>2. /\ DOMAIN m_block_queue'[g] = 1 .. last
        /\ DOMAIN m_block_queue[g] = 1 .. last - 1 /\ last \in Nat \ {0}
        /\ m_block_queue'[g][last] = pos
        /\ \A i \in 1 .. last - 1 : m_block_queue'[g][i] = m_block_queue[g][i]
    BY <1>7, <2>1, AppendProperties
  <2>3. /\ last \in DOMAIN m_block_queue'[g]
        /\ \A i \in DOMAIN m_block_queue'[g] : i = last \/ i \in DOMAIN m_block_queue[g]
        /\ \A i \in DOMAIN m_block_queue[g] : i \in DOMAIN m_block_queue'[g]
    BY <2>2
  <2> QED BY <1>7, <2>2, <2>3
<1> HIDE DEF last
<1>9. Entered'
  BY <1>4, <1>8 DEF QInv, Entered
<1>10. Once'
  BY <1>8 DEF QInv, Entered, Once
<1>11. Somewhere'
  BY <1>1, <1>4, <1>8 DEF QInv, Somewhere
<1> QED BY <1>3, <1>5, <1>6, <1>7, <1>9, <1>10, <1>11 DEF QInv, QueueTypes

(* The front of a queue is taken off, with its entry and its count.        *)
LEMMA TakeStep ==
  ASSUME QInv, NEW t \in Threads, TakeFront(t)
  PROVE  /\ QInv'
         /\ Head(m_block_queue[t]) \in InQueue
<1> DEFINE q == m_block_queue[t]
           pos == Head(m_block_queue[t])
<1>0. PICK peer : peer = m_blocks_enqueued[pos].peer
  OBVIOUS
<1>1. /\ q # <<>> /\ q \in Seq(Positions) /\ QueueTypes
      /\ m_blocks_enqueued' = [m_blocks_enqueued EXCEPT ![pos] = NoEntry]
      /\ m_peer_queue_count' = [m_peer_queue_count EXCEPT ![peer] = @ - 1]
      /\ m_block_queue' = [m_block_queue EXCEPT ![t] = Tail(q)]
  BY <1>0 DEF TakeFront, QInv, QueueTypes
<1>2. /\ 1 \in DOMAIN q /\ pos = q[1] /\ Tail(q) \in Seq(Positions)
      /\ DOMAIN q = 1 .. Len(q) /\ Len(q) \in Nat \ {0}
      /\ DOMAIN Tail(q) = 1 .. Len(q) - 1
      /\ \A i \in 1 .. Len(q) - 1 : Tail(q)[i] = q[i + 1]
  BY <1>1, HeadTailProperties
<1>3. pos \in InQueue
  BY <1>2 DEF QInv, Entered
<1>4. pos \in Positions /\ m_blocks_enqueued[pos] \in Entry
  BY <1>1, <1>3, InQueueIsEntry
<1>5. peer \in Peers \union {NoPeer}
  BY <1>0, <1>4 DEF Entry
<1>6. /\ m_blocks_enqueued' \in [Positions -> Entry \union {NoEntry}]
      /\ m_blocks_enqueued'[pos] = NoEntry
      /\ \A p \in Positions \ {pos} : m_blocks_enqueued'[p] = m_blocks_enqueued[p]
  BY <1>1, <1>4 DEF QueueTypes
<1>7. InQueue' = InQueue \ {pos}
  BY <1>6 DEF InQueue
<1>8. CountsAgree' /\ m_peer_queue_count' \in [Peers \union {NoPeer} -> Nat]
  <2>1. EntriesOf(peer)' = EntriesOf(peer) \ {pos}
    BY <1>6, <1>7 DEF EntriesOf, InQueue
  <2>2. pos \in EntriesOf(peer)
    BY <1>0, <1>3 DEF EntriesOf
  <2>3. Cardinality(EntriesOf(peer)') = Cardinality(EntriesOf(peer)) - 1
        /\ Cardinality(EntriesOf(peer)') \in Nat
    BY <2>1, <2>2, EntriesFinite, FS_RemoveElement, FS_CardinalityType
  <2>4. ASSUME NEW r, r # peer PROVE EntriesOf(r)' = EntriesOf(r)
    BY <1>0, <1>6, <1>7, <2>4 DEF EntriesOf, InQueue
  <2>5. /\ DOMAIN m_peer_queue_count' = Peers \union {NoPeer}
        /\ m_peer_queue_count'[peer] = m_peer_queue_count[peer] - 1
        /\ \A r \in Peers \union {NoPeer} :
             r # peer => m_peer_queue_count'[r] = m_peer_queue_count[r]
    BY <1>1, <1>5 DEF QueueTypes
  <2>6. m_peer_queue_count'[peer] = Cardinality(EntriesOf(peer)')
    BY <1>5, <2>3, <2>5 DEF QInv, CountsAgree
  <2>7. CountsAgree'
    BY <2>4, <2>5, <2>6 DEF QInv, CountsAgree
  <2>8. m_peer_queue_count' \in [Peers \union {NoPeer} -> Nat]
    <3>1. m_peer_queue_count' = [r \in Peers \union {NoPeer} |-> m_peer_queue_count'[r]]
      BY <1>1 DEF QueueTypes
    <3>2. \A r \in Peers \union {NoPeer} : m_peer_queue_count'[r] \in Nat
      BY <1>1, <2>3, <2>5, <2>6 DEF QueueTypes
    <3> QED BY <3>1, <3>2
  <2> QED BY <2>7, <2>8
<1>9. /\ m_block_queue' \in [Threads -> Seq(Positions)]
      /\ m_block_queue'[t] = Tail(q)
      /\ \A u \in Threads : u # t => m_block_queue'[u] = m_block_queue[u]
  BY <1>1, <1>2 DEF QueueTypes
<1> HIDE DEF pos
<1> DEFINE Was(u, i) == IF u = t THEN i + 1 ELSE i
<1>10. \A u \in Threads : \A i \in DOMAIN m_block_queue'[u] :
         /\ Was(u, i) \in DOMAIN m_block_queue[u]
         /\ m_block_queue'[u][i] = m_block_queue[u][Was(u, i)]
         /\ u = t => i \in Nat /\ Was(u, i) # 1
  <2>1. ASSUME NEW i \in DOMAIN m_block_queue'[t]
        PROVE  /\ i + 1 \in DOMAIN q /\ i \in Nat /\ i + 1 # 1
               /\ m_block_queue'[t][i] = q[i + 1]
    <3>1. i \in 1 .. Len(q) - 1 /\ m_block_queue'[t][i] = Tail(q)[i]
      BY <1>2, <1>9
    <3> QED BY <1>2, <3>1
  <2> QED BY <1>9, <2>1
<1>11. Entered'
  <2> SUFFICES ASSUME NEW u \in Threads, NEW i \in DOMAIN m_block_queue'[u]
               PROVE  m_block_queue'[u][i] \in InQueue'
    BY DEF Entered
  <2>1. m_block_queue'[u][i] \in InQueue
    BY <1>10 DEF QInv, Entered
  <2>2. m_block_queue'[u][i] # pos
    BY <1>2, <1>10 DEF QInv, Once
  <2> QED BY <1>7, <2>1, <2>2
<1>12. Once'
  <2> SUFFICES ASSUME NEW u \in Threads, NEW v \in Threads,
                      NEW i \in DOMAIN m_block_queue'[u],
                      NEW j \in DOMAIN m_block_queue'[v],
                      m_block_queue'[u][i] = m_block_queue'[v][j]
               PROVE  u = v /\ i = j
    BY DEF Once
  <2>1. u = v /\ Was(u, i) = Was(v, j)
    BY <1>10 DEF QInv, Once
  <2> QED BY <1>10, <2>1
<1>13. Somewhere'
  <2> SUFFICES ASSUME NEW p \in InQueue, p # pos
               PROVE  \E u \in Threads : \E i \in DOMAIN m_block_queue'[u] :
                        m_block_queue'[u][i] = p
    BY <1>7 DEF Somewhere
  <2>0. PICK u \in Threads : \E i \in DOMAIN m_block_queue[u] : m_block_queue[u][i] = p
    BY DEF QInv, Somewhere
  <2>1. PICK i \in DOMAIN m_block_queue[u] : m_block_queue[u][i] = p
    BY <2>0
  <2>2. CASE u # t
    BY <1>9, <2>1, <2>2
  <2>3. CASE u = t
    <3>1. i \in 2 .. Len(q)
      BY <1>2, <2>1, <2>3
    <3>2. q \in Seq(Positions) /\ q # <<>> /\ Len(q) \in Nat /\ i \in Nat /\ q[i] = p
      BY <1>2, <2>1, <2>3, <3>1
    <3>3. i - 1 \in DOMAIN Tail(q) /\ Tail(q)[i - 1] = q[i]
      BY <3>1, <3>2, HeadTailProperties
    <3>4. i - 1 \in DOMAIN m_block_queue'[t] /\ m_block_queue'[t][i - 1] = p
      BY <1>9, <3>2, <3>3
    <3> QED BY <2>3, <3>4
  <2> QED BY <2>2, <2>3
<1> QED BY <1>3, <1>6, <1>8, <1>9, <1>11, <1>12, <1>13 DEF QInv, QueueTypes, pos

LEMMA QuietStep ==
  ASSUME QInv, UNCHANGED queueVars
  PROVE  QInv'
<1>1. UNCHANGED <<m_blocks_enqueued, m_peer_queue_count, m_block_queue>>
  BY DEF queueVars
<1>2. InQueue' = InQueue
  BY <1>1 DEF InQueue
<1>3. ASSUME NEW peer PROVE EntriesOf(peer)' = EntriesOf(peer)
  BY <1>1, <1>2 DEF EntriesOf
<1>4. QueueTypes' /\ CountsAgree'
  BY <1>1, <1>3 DEF QInv, QueueTypes, CountsAgree
<1>5. Entered' /\ Once' /\ Somewhere'
  BY <1>1, <1>2 DEF QInv, Entered, Once, Somewhere
<1> QED BY <1>4, <1>5 DEF QInv

(* enqueueBlockEmergeEx() refuses, merges or pushes.                       *)
LEMMA EnqueueStep ==
  ASSUME QInv, NEW a \in Agents, NEW pos \in Positions,
         NEW peer \in Peers \union {NoPeer}, NEW flags \in SUBSET Flags,
         NEW callbacks \in SUBSET Calls,
         enqueueBlockEmergeEx(a, pos, peer, flags, callbacks),
         signalling \in [Agents -> Threads \union {Nobody}]
  PROVE  QInv' /\ signalling' \in [Agents -> Threads \union {Nobody}]
<1>1. CASE Refuse
  BY <1>1, QuietStep DEF Refuse
<1>2. CASE pos \in InQueue /\ Merge(pos, flags, callbacks)
  BY <1>2, MergeStep DEF Merge
<1>3. CASE pos \notin InQueue /\ Push(a, pos, peer, flags, callbacks)
  <2>1. QInv'
    BY <1>3, PushStep
  <2>2. signalling' = [signalling EXCEPT ![a] = getOptimalThread]
    BY <1>3 DEF Push
  <2> QED BY <2>1, <2>2, OptimalThread DEF QInv
<1> QED BY <1>1, <1>2, <1>3 DEF enqueueBlockEmergeEx

-----------------------------------------------------------------------------
(* The invariant holds.                                                    *)

LEMMA CallTypes ==
  ASSUME TypeOK, NEW a \in Agents, asking[a] # NoCall
  PROVE  /\ asking[a].pos \in Positions /\ {asking[a].call} \in SUBSET Calls
         /\ {"ALLOW_GEN", "FORCE_QUEUE"} \in SUBSET Flags
<1>1. asking[a] \in [pos : Positions, call : Calls]
  BY DEF TypeOK
<1> QED BY <1>1 DEF Flags

LEMMA QInit == Init => QInv
<1> SUFFICES ASSUME Init PROVE QInv
  OBVIOUS
<1>1. QueueTypes
  BY DEF Init, QueueTypes
<1>2. InQueue = {}
  BY DEF Init, InQueue
<1>3. CountsAgree
  BY <1>2, FS_EmptySet DEF Init, CountsAgree, EntriesOf
<1>4. \A t \in Threads : DOMAIN m_block_queue[t] = {}
  BY DEF Init
<1> QED BY <1>1, <1>2, <1>3, <1>4 DEF QInv, Entered, Once, Somewhere

LEMMA QStep == TypeOK /\ QInv /\ [Next]_vars => QInv'
<1> SUFFICES ASSUME TypeOK, QInv, [Next]_vars PROVE QInv'
  OBVIOUS
<1>1. ASSUME NEW c \in Callers, enqueueBlockEmerge(c) PROVE QInv'
  <2>1. c \in Agents /\ {} \in SUBSET Calls
    BY DEF Agents
  <2>2. signalling \in [Agents -> Threads \union {Nobody}]
    BY DEF TypeOK
  <2> QED BY <1>1, <2>1, <2>2, EnqueueStep DEF enqueueBlockEmerge
<1>2. ASSUME NEW a \in Agents, l_emerge_area(a) PROVE QInv'
  <2>1. signalling \in [Agents -> Threads \union {Nobody}]
    BY DEF TypeOK
  <2> QED BY <1>2, <2>1, CallTypes, EnqueueStep DEF l_emerge_area
<1>3. ASSUME NEW t \in Threads, ThreadStep(t) PROVE QInv'
  <2>1. CASE popBlockEmerge(t)
    BY <2>1, TakeStep, QuietStep DEF popBlockEmerge
  <2>2. CASE cancelPendingItems(t)
    BY <2>2, TakeStep, QuietStep DEF cancelPendingItems
  <2>3. CASE UNCHANGED queueVars
    BY <2>3, QuietStep
  <2> QED BY <1>3, <2>1, <2>2, <2>3
          DEF ThreadStep, initScripting, Wake, Abandon, Work, finishGen,
              runCompletionCallbacks, Reported, BeginCancel
<1>4. CASE UNCHANGED queueVars
  BY <1>4, QuietStep
<1>5. ASSUME NEW c \in Callers, EnterLua(c) PROVE UNCHANGED queueVars
  BY <1>5 DEF EnterLua
<1>6. ASSUME NEW a \in Agents, CallEmergeArea(a) \/ LeaveLua(a) \/ Signal(a)
      PROVE  UNCHANGED queueVars
  BY <1>6 DEF CallEmergeArea, LeaveLua, Signal
<1>7. ASSUME startThreads \/ stopThreads \/ ManagerStep
      PROVE  UNCHANGED queueVars
  BY <1>7 DEF startThreads, stopThreads, Begin, ManagerStep, ThreadStart,
              ThreadStop, ThreadSignal, ThreadWait, managerOnly
<1> QED BY <1>1, <1>2, <1>3, <1>4, <1>5, <1>6, <1>7 DEF Next, LuaStep, vars

LEMMA TypeInit == Init => TypeOK
<1>1. 1 \in Threads
  BY EmergeAssumption DEF Threads
<1>2. 0 \in 0 .. MaxCalls
  BY EmergeAssumption
<1> QED BY <1>1, <1>2 DEF Init, TypeOK

LEMMA LoopTypes ==
  ASSUME TypeOK
  PROVE  /\ index \in Threads /\ 1 \in Threads /\ Threads \subseteq Agents
         /\ index < NumThreads => index + 1 \in Threads
<1>1. index \in Threads /\ NumThreads \in Nat \ {0}
  BY EmergeAssumption DEF TypeOK
<1> QED BY <1>1 DEF Threads, Agents

LEMMA ItemType ==
  ASSUME TypeOK, QInv, NEW t \in Threads, TakeFront(t)
  PROVE  item' \in [Threads -> Item \union {NoItem}]
<1> DEFINE pos == Head(m_block_queue[t])
<1>1. pos \in Positions /\ m_blocks_enqueued[pos] \in Entry
  BY TakeStep, InQueueIsEntry DEF QInv
<1> DEFINE new == [pos |-> pos,
                   allow_gen |-> "ALLOW_GEN" \in m_blocks_enqueued[pos].flags,
                   callbacks |-> m_blocks_enqueued[pos].callbacks]
<1>2. new \in Item
  BY <1>1 DEF Entry, Item
<1>3. item' = [item EXCEPT ![t] = new]
  BY DEF TakeFront
<1> QED BY <1>2, <1>3 DEF TypeOK

LEMMA ThreadTypes ==
  ASSUME TypeOK, QInv, QueueTypes', NEW t \in Threads, ThreadStep(t)
  PROVE  TypeOK'
<1> USE DEF Goto, threadLocks, others, queueVars
<1>0. t \in Agents /\ item[t] \in Item \union {NoItem}
  BY DEF TypeOK, Agents
<1>1. CASE initScripting(t)
  BY <1>1 DEF initScripting, TypeOK
<1>2. CASE popBlockEmerge(t)
  <2>1. item' \in [Threads -> Item \union {NoItem}]
    BY <1>2, ItemType DEF popBlockEmerge, TypeOK
  <2> QED BY <1>2, <2>1 DEF popBlockEmerge, TypeOK, QueueTypes
<1>3. CASE Wake(t)
  BY <1>3 DEF Wake, TypeOK
<1>4. CASE Abandon(t)
  BY <1>4 DEF Abandon, TypeOK
<1>5. CASE Work(t)
  BY <1>5 DEF Work, TypeOK
<1>6. CASE finishGen(t)
  BY <1>0, <1>6 DEF finishGen, TypeOK
<1>7. CASE runCompletionCallbacks(t)
  <2>1. PICK n \in item[t].callbacks :
          /\ fired' = [fired EXCEPT ![n] = @ + 1]
          /\ item' = [item EXCEPT ![t].callbacks = @ \ {n}]
    BY <1>7 DEF runCompletionCallbacks
  <2>2. item[t] \in Item
    BY <1>0, <2>1 DEF NoItem
  <2>3. n \in Calls /\ [item[t] EXCEPT !.callbacks = @ \ {n}] \in Item
    BY <2>1, <2>2 DEF Item
  <2>4. item' \in [Threads -> Item \union {NoItem}]
    BY <2>1, <2>3 DEF TypeOK
  <2>5. fired' \in [Calls -> Nat]
    BY <2>1, <2>3 DEF TypeOK
  <2> QED BY <1>0, <1>7, <2>4, <2>5 DEF runCompletionCallbacks, TypeOK
<1>8. CASE Reported(t)
  BY <1>8 DEF Reported, TypeOK
<1>9. CASE BeginCancel(t)
  BY <1>0, <1>9 DEF BeginCancel, TypeOK
<1>10. CASE cancelPendingItems(t)
  <2>1. CASE TakeFront(t) /\ UNCHANGED <<at, m_queue_mutex>>
    BY <1>10, <2>1, ItemType DEF cancelPendingItems, TypeOK, QueueTypes
  <2>2. CASE /\ at' = [at EXCEPT ![t] = "off"] /\ m_queue_mutex' = Nobody
             /\ item' = [item EXCEPT ![t] = NoItem]
    BY <1>10, <2>2 DEF cancelPendingItems, TypeOK, QueueTypes
  <2> QED BY <1>10, <2>1, <2>2 DEF cancelPendingItems
<1> QED BY <1>1, <1>2, <1>3, <1>4, <1>5, <1>6, <1>7, <1>8, <1>9, <1>10
        DEF ThreadStep

LEMMA ManagerTypes ==
  ASSUME TypeOK, QueueTypes', startThreads \/ stopThreads \/ ManagerStep
  PROVE  TypeOK'
<1> USE LoopTypes DEF managerOnly, threadLocks, queueVars
<1>1. CASE startThreads \/ stopThreads
  BY <1>1 DEF startThreads, stopThreads, Begin, TypeOK
<1>2. CASE ThreadStart
  BY <1>2 DEF ThreadStart, Step, Goto, TypeOK
<1>3. CASE ThreadStop
  BY <1>3 DEF ThreadStop, TypeOK
<1>4. CASE ThreadSignal
  BY <1>4 DEF ThreadSignal, TypeOK
<1>5. CASE ThreadWait
  BY <1>5 DEF ThreadWait, Step, TypeOK
<1> QED BY <1>1, <1>2, <1>3, <1>4, <1>5 DEF ManagerStep

LEMMA TypeStep == TypeOK /\ QInv /\ QInv' /\ [Next]_vars => TypeOK'
<1> SUFFICES ASSUME TypeOK, QInv, QInv', [Next]_vars PROVE TypeOK'
  OBVIOUS
<1> USE DEF queueVars
<1>0. QueueTypes' /\ signalling \in [Agents -> Threads \union {Nobody}]
  BY DEF QInv, TypeOK
<1>1. ASSUME NEW c \in Callers, enqueueBlockEmerge(c) PROVE TypeOK'
  <2>1. c \in Agents /\ {} \in SUBSET Calls
    BY DEF Agents
  <2>2. signalling' \in [Agents -> Threads \union {Nobody}]
    BY <1>0, <1>1, <2>1, EnqueueStep DEF enqueueBlockEmerge
  <2> QED BY <1>0, <1>1, <2>2 DEF enqueueBlockEmerge, TypeOK, QueueTypes
<1>2. ASSUME NEW a \in Agents, l_emerge_area(a) PROVE TypeOK'
  <2>1. signalling' \in [Agents -> Threads \union {Nobody}]
    BY <1>0, <1>2, CallTypes, EnqueueStep DEF l_emerge_area
  <2> QED BY <1>0, <1>2, <2>1 DEF l_emerge_area, TypeOK, QueueTypes
<1>3. ASSUME NEW a \in Agents, LeaveLua(a) PROVE TypeOK'
  BY <1>3 DEF LeaveLua, TypeOK
<1>4. ASSUME NEW a \in Agents, Signal(a) PROVE TypeOK'
  BY <1>4 DEF Signal, TypeOK
<1>5. ASSUME NEW a \in Agents, CallEmergeArea(a) PROVE TypeOK'
  <2>1. PICK pos \in Positions :
          asking' = [asking EXCEPT ![a] = [pos |-> pos, call |-> calls + 1]]
    BY <1>5 DEF CallEmergeArea
  <2>2. /\ calls < MaxCalls /\ calls \in 0 .. MaxCalls /\ MaxCalls \in Nat
        /\ calls' = calls + 1
    BY <1>5, EmergeAssumption DEF CallEmergeArea, TypeOK
  <2>3. calls' \in 0 .. MaxCalls /\ calls + 1 \in Calls
    BY <2>2 DEF Calls
  <2>4. asking' \in [Agents -> [pos : Positions, call : Calls] \union {NoCall}]
    BY <2>1, <2>3 DEF TypeOK
  <2> QED BY <1>5, <2>3, <2>4 DEF CallEmergeArea, TypeOK
<1>6. ASSUME NEW c \in Callers, EnterLua(c) PROVE TypeOK'
  BY <1>6 DEF EnterLua, TypeOK, Agents
<1>7. CASE UNCHANGED vars
  BY <1>7 DEF vars, TypeOK
<1> QED BY <1>0, <1>1, <1>2, <1>3, <1>4, <1>5, <1>6, <1>7, ThreadTypes,
           ManagerTypes DEF Next, LuaStep

LEMMA EmergeInvariant == Spec => [](TypeOK /\ QInv)
<1>1. Init => TypeOK /\ QInv
  BY QInit, TypeInit
<1>2. TypeOK /\ QInv /\ [Next]_vars => (TypeOK /\ QInv)'
  BY QStep, TypeStep
<1> QED BY <1>1, <1>2, PTL DEF Spec

(* Every variable keeps its type: the uninitialized bedata that            *)
(* popBlockEmergeData() would leave behind is never met.                   *)
THEOREM TypeCorrect == Spec => []TypeOK
BY EmergeInvariant, PTL

(* A peer's count is the number of its entries (pushBlockEmergeData(),     *)
(* popBlockEmergeData()).                                                  *)
THEOREM CountsCorrect == Spec => []CountsAgree
<1>1. QInv => CountsAgree
  BY DEF QInv
<1> QED BY <1>1, EmergeInvariant, PTL

-----------------------------------------------------------------------------
(* A queue holds no position twice, so it is no longer than there are      *)
(* positions; that the places of a position are one or none then follows   *)
(* from the invariant.                                                     *)
LEMMA QueueShort ==
  ASSUME QInv, NEW t \in Threads
  PROVE  /\ Len(m_block_queue[t]) \in Nat
         /\ Cardinality(Positions) \in Nat
         /\ Len(m_block_queue[t]) <= Cardinality(Positions)
<1> DEFINE q == m_block_queue[t]
<1>1. q \in Seq(Positions)
  BY DEF QInv, QueueTypes
<1>2. Len(q) \in Nat /\ DOMAIN q = 1 .. Len(q) /\ q \in [1 .. Len(q) -> Positions]
  BY <1>1, LenProperties
<1>3. \A i, j \in 1 .. Len(q) : q[i] = q[j] => i = j
  BY <1>2 DEF QInv, Once
<1>4. q \in Injection(1 .. Len(q), Positions)
  BY <1>2, <1>3 DEF Injection, IsInjective
<1>5. IsFiniteSet(Positions)
  BY EmergeAssumption
<1>6. Cardinality(1 .. Len(q)) <= Cardinality(Positions)
  BY <1>4, <1>5, FS_Injection
<1>7. Cardinality(1 .. Len(q)) = Len(q)
  BY <1>2, FS_Interval
<1> QED BY <1>2, <1>5, <1>6, <1>7, FS_CardinalityType

LEMMA OnePlace == QInv => QueuedOnce
<1> SUFFICES ASSUME QInv, NEW pos \in Positions
             PROVE  Cardinality(Occurrences(pos)) = IF pos \in InQueue THEN 1 ELSE 0
  BY DEF QueuedOnce
<1>1. CASE pos \in InQueue
  <2>1. PICK t \in Threads : \E i \in DOMAIN m_block_queue[t] : m_block_queue[t][i] = pos
    BY <1>1 DEF QInv, Somewhere
  <2>2. PICK i \in DOMAIN m_block_queue[t] : m_block_queue[t][i] = pos
    BY <2>1
  <2>3. i \in 1 .. Cardinality(Positions)
    <3>1. i \in 1 .. Len(m_block_queue[t])
      BY DEF QInv, QueueTypes
    <3> QED BY <3>1, QueueShort
  <2>4. <<t, i>> \in Occurrences(pos)
    BY <2>2, <2>3 DEF Occurrences
  <2>5. ASSUME NEW s \in Occurrences(pos) PROVE s = <<t, i>>
    <3>1. /\ s \in Threads \X (1 .. Cardinality(Positions))
          /\ s[2] \in DOMAIN m_block_queue[s[1]]
          /\ m_block_queue[s[1]][s[2]] = pos
      BY DEF Occurrences
    <3>2. s[1] \in Threads /\ s = <<s[1], s[2]>>
      BY <3>1
    <3>3. s[1] = t /\ s[2] = i
      BY <2>2, <3>1, <3>2 DEF QInv, Once
    <3> QED BY <3>2, <3>3
  <2>6. Occurrences(pos) = {<<t, i>>}
    BY <2>4, <2>5
  <2> QED BY <1>1, <2>6, FS_Singleton
<1>2. CASE pos \notin InQueue
  <2>1. ASSUME NEW s \in Occurrences(pos) PROVE FALSE
    <3>1. s[1] \in Threads /\ s[2] \in DOMAIN m_block_queue[s[1]]
          /\ m_block_queue[s[1]][s[2]] = pos
      BY DEF Occurrences
    <3> QED BY <1>2, <3>1 DEF QInv, Entered
  <2>2. Occurrences(pos) = {}
    BY <2>1
  <2> QED BY <1>2, <2>2, FS_EmptySet
<1> QED BY <1>1, <1>2

(* enqueueBlockEmergeEx(), popBlockEmerge() and cancelPendingItems() keep  *)
(* the map of requests and the threads' queues in step.                    *)
THEOREM QueuedOnceCorrect == Spec => []QueuedOnce
BY OnePlace, EmergeInvariant, PTL

-----------------------------------------------------------------------------
(* Wake-ups.  Whoever gives a waiting thread a reason to run is already on *)
(* the way to its event.                                                   *)
Woken(t) == \/ m_queue_event[t]
            \/ \E a \in Agents : signalling[a] = t
            \/ manager = "signal" /\ index = t

Reason(t) == m_block_queue[t] # <<>> \/ m_request_stop[t]

LEMMA WakeStep == TypeOK /\ NoLostWakeup /\ [Next]_vars => NoLostWakeup'
<1> SUFFICES ASSUME TypeOK, NoLostWakeup, [Next]_vars,
                    NEW t \in Threads, at'[t] = "wait", Reason(t)'
             PROVE  Woken(t)'
  BY DEF NoLostWakeup, Woken, Reason
<1> USE DEF queueVars, threadLocks, others, managerOnly, Goto
<1>0. at[t] = "wait" /\ Reason(t) => Woken(t)
  BY DEF NoLostWakeup, Woken, Reason
<1>1. ASSUME NEW a \in Agents, NEW pos, NEW peer, NEW flags, NEW callbacks,
             enqueueBlockEmergeEx(a, pos, peer, flags, callbacks),
             UNCHANGED <<m_queue_event, m_request_stop, at, manager, index>>
      PROVE  Woken(t)'
  <2>1. CASE UNCHANGED <<m_block_queue, signalling>>
    BY <1>0, <1>1, <2>1 DEF Woken, Reason
  <2>2. CASE Push(a, pos, peer, flags, callbacks) /\ signalling[a] = Nobody
    <3>1. CASE t = getOptimalThread
      BY <2>2, <3>1 DEF Push, TypeOK, Woken
    <3>2. CASE t # getOptimalThread
      <4>1. m_block_queue'[t] = m_block_queue[t]
        BY <2>2, <3>2 DEF Push, TypeOK
      <4>2. Woken(t)
        BY <1>0, <1>1, <4>1 DEF Reason
      <4>3. ASSUME NEW b \in Agents, signalling[b] = t PROVE signalling'[b] = t
        <5>1. b # a
          BY <2>2, <4>3, EmergeAssumption DEF Agents
        <5> QED BY <2>2, <4>3, <5>1 DEF Push, TypeOK
      <4> QED BY <1>1, <4>2, <4>3 DEF Woken
    <3> QED BY <3>1, <3>2
  <2> QED BY <1>1, <2>1, <2>2 DEF enqueueBlockEmergeEx, Refuse, Merge
<1>2. ASSUME NEW c \in Callers, enqueueBlockEmerge(c) PROVE Woken(t)'
  BY <1>1, <1>2 DEF enqueueBlockEmerge, Agents
<1>3. ASSUME NEW a \in Agents, l_emerge_area(a) PROVE Woken(t)'
  BY <1>1, <1>3 DEF l_emerge_area
<1>4. ASSUME NEW a \in Agents, LeaveLua(a) PROVE Woken(t)'
  <2>1. at[t] = "wait" /\ Reason(t)
    BY <1>4 DEF LeaveLua, TypeOK, Reason
  <2> QED BY <1>0, <1>4, <2>1 DEF LeaveLua, Woken
<1>5. ASSUME NEW a \in Agents, Signal(a) PROVE Woken(t)'
  <2>1. Woken(t)
    BY <1>0, <1>5 DEF Signal, Reason
  <2>2. CASE signalling[a] = t
    BY <1>5, <2>2 DEF Signal, TypeOK, Woken
  <2>3. CASE signalling[a] # t
    BY <1>5, <2>1, <2>3 DEF Signal, TypeOK, Woken
  <2> QED BY <2>2, <2>3
<1>6. ASSUME NEW a \in Agents, CallEmergeArea(a) PROVE Woken(t)'
  BY <1>0, <1>6 DEF CallEmergeArea, Woken, Reason
<1>7. ASSUME NEW c \in Callers, EnterLua(c) PROVE Woken(t)'
  BY <1>0, <1>7 DEF EnterLua, Woken, Reason
<1>8. ASSUME NEW u \in Threads, ThreadStep(u) PROVE Woken(t)'
  <2>1. CASE u = t
    <3>1. CASE popBlockEmerge(t)
      BY <3>1 DEF popBlockEmerge, TypeOK, Reason
    <3>2. CASE runCompletionCallbacks(t)
      BY <1>0, <3>2 DEF runCompletionCallbacks, Woken, Reason
    <3>3. CASE cancelPendingItems(t)
      BY <3>3 DEF cancelPendingItems, TypeOK
    <3> QED BY <1>8, <2>1, <3>1, <3>2, <3>3
            DEF ThreadStep, initScripting, Wake, Abandon, Work, finishGen,
                Reported, BeginCancel, TypeOK
  <2>2. CASE u # t
    <3>1. /\ at'[t] = at[t] /\ m_block_queue'[t] = m_block_queue[t]
          /\ m_queue_event'[t] = m_queue_event[t]
          /\ m_request_stop'[t] = m_request_stop[t]
          /\ UNCHANGED <<signalling, manager, index>>
      BY <1>8, <2>2
         DEF ThreadStep, initScripting, popBlockEmerge, TakeFront, Wake, Abandon,
             Work, finishGen, runCompletionCallbacks, Reported, BeginCancel,
             cancelPendingItems, TypeOK
    <3> QED BY <1>0, <3>1 DEF Woken, Reason
  <2> QED BY <2>1, <2>2
<1>9. CASE startThreads \/ stopThreads
  BY <1>0, <1>9 DEF startThreads, stopThreads, Begin, Woken, Reason
<1>10. CASE ThreadStart
  <2>1. index # t
    BY <1>10 DEF ThreadStart, TypeOK
  <2> QED BY <1>0, <1>10, <2>1 DEF ThreadStart, Step, TypeOK, Woken, Reason
<1>11. CASE ThreadStop
  BY <1>0, <1>11 DEF ThreadStop, TypeOK, Woken, Reason
<1>12. CASE ThreadSignal
  BY <1>0, <1>12 DEF ThreadSignal, TypeOK, Woken, Reason
<1>13. CASE ThreadWait
  BY <1>0, <1>13 DEF ThreadWait, Step, Woken, Reason
<1>14. CASE UNCHANGED vars
  BY <1>0, <1>14 DEF vars, Woken, Reason
<1> QED BY <1>2, <1>3, <1>4, <1>5, <1>6, <1>7, <1>8, <1>9, <1>10, <1>11, <1>12,
           <1>13, <1>14 DEF Next, LuaStep, ManagerStep

(* A thread that waits with work, or after stop(), is woken: by thread     *)
(* signal() after the lock is released, or by stopThreads().               *)
THEOREM WakeCorrect == Spec => []NoLostWakeup
<1>1. Init => NoLostWakeup
  BY DEF Init, NoLostWakeup
<1>2. TypeOK /\ NoLostWakeup /\ [Next]_vars => NoLostWakeup'
  BY WakeStep
<1> QED BY <1>1, <1>2, TypeCorrect, PTL DEF Spec

-----------------------------------------------------------------------------
(* The limits.  Requests that were not forced only get more where the      *)
(* limits were looked at.                                                  *)
LEMMA FewerKeepsLimits ==
  ASSUME QueueLimited, Unforced' \subseteq Unforced,
         \A peer : EntriesOf(peer)' \subseteq EntriesOf(peer)
  PROVE  QueueLimited'
<1>1. IsFiniteSet(Unforced)
  BY EmergeAssumption, FS_Subset DEF Unforced, InQueue
<1>2. /\ Cardinality(Unforced') \in Nat /\ Cardinality(Unforced) \in Nat
      /\ Cardinality(Unforced') <= Cardinality(Unforced)
  BY <1>1, FS_Subset, FS_CardinalityType
<1>3. ASSUME NEW peer
      PROVE  /\ Cardinality(Unforced' \intersect EntriesOf(peer)') \in Nat
             /\ Cardinality(Unforced \intersect EntriesOf(peer)) \in Nat
             /\ Cardinality(Unforced' \intersect EntriesOf(peer)')
                  <= Cardinality(Unforced \intersect EntriesOf(peer))
  <2>1. /\ Unforced \intersect EntriesOf(peer) \in SUBSET Unforced
        /\ Unforced' \intersect EntriesOf(peer)' \in
             SUBSET (Unforced \intersect EntriesOf(peer))
    OBVIOUS
  <2>2. IsFiniteSet(Unforced \intersect EntriesOf(peer))
    BY <1>1, <2>1, FS_Subset
  <2> QED BY <2>1, <2>2, FS_Subset, FS_CardinalityType
<1>4. QLimitTotal \in Nat /\ QLimitGenerate \in Nat /\ QLimitDiskonly \in Nat
  BY EmergeAssumption
<1>5. Cardinality(Unforced') <= QLimitTotal
  BY <1>2, <1>4 DEF QueueLimited
<1>6. Cardinality(Unforced' \intersect EntriesOf(NoPeer)') * 2 <= QLimitTotal + 1
  <2>1. PICK m, n : /\ m = Cardinality(Unforced' \intersect EntriesOf(NoPeer)')
                    /\ n = Cardinality(Unforced \intersect EntriesOf(NoPeer))
    OBVIOUS
  <2>2. m \in Nat /\ n \in Nat /\ m <= n
    BY <1>3, <2>1
  <2>3. n * 2 <= QLimitTotal + 1
    BY <2>1 DEF QueueLimited
  <2>4. m * 2 <= QLimitTotal + 1
    BY <1>4, <2>2, <2>3
  <2> QED BY <2>1, <2>4
<1>7. ASSUME NEW peer \in Peers
      PROVE  LET n == Cardinality(Unforced' \intersect EntriesOf(peer)')
             IN  n <= QLimitGenerate \/ n <= QLimitDiskonly
  <2>1. PICK m, n : /\ m = Cardinality(Unforced' \intersect EntriesOf(peer)')
                    /\ n = Cardinality(Unforced \intersect EntriesOf(peer))
    OBVIOUS
  <2>2. m \in Nat /\ n \in Nat /\ m <= n
    BY <1>3, <2>1
  <2>3. n <= QLimitGenerate \/ n <= QLimitDiskonly
    BY <2>1 DEF QueueLimited
  <2>4. m <= QLimitGenerate \/ m <= QLimitDiskonly
    BY <1>4, <2>2, <2>3
  <2> QED BY <2>1, <2>4
<1> QED BY <1>5, <1>6, <1>7 DEF QueueLimited

LEMMA MergeKeepsLimits ==
  ASSUME QInv, QueueLimited, NEW pos \in InQueue, NEW flags \in SUBSET Flags,
         NEW callbacks \in SUBSET Calls, Merge(pos, flags, callbacks)
  PROVE  QueueLimited'
<1>1. PICK f : f = [m_blocks_enqueued[pos] EXCEPT !.flags = @ \union flags,
                                                  !.callbacks = @ \union callbacks]
  OBVIOUS
<1>2. pos \in Positions /\ m_blocks_enqueued[pos] \in Entry
  BY InQueueIsEntry DEF QInv
<1>3. /\ f \in Entry /\ f.peer = m_blocks_enqueued[pos].peer
      /\ m_blocks_enqueued[pos].flags \subseteq f.flags
  BY <1>1, <1>2 DEF Entry
<1>4. /\ m_blocks_enqueued'[pos] = f
      /\ \A q \in Positions \ {pos} : m_blocks_enqueued'[q] = m_blocks_enqueued[q]
  BY <1>1, <1>2 DEF Merge, QInv, QueueTypes
<1>5. InQueue' = InQueue
  BY <1>2, <1>3, <1>4, NoEntryIsNone DEF InQueue
<1>6. Unforced' \subseteq Unforced
  BY <1>2, <1>3, <1>4, <1>5 DEF Unforced, InQueue
<1>7. ASSUME NEW peer PROVE EntriesOf(peer)' \subseteq EntriesOf(peer)
  BY <1>2, <1>3, <1>4, <1>5 DEF EntriesOf, InQueue
<1> QED BY <1>6, <1>7, FewerKeepsLimits

(* The counts that Allowed() compares are those of the entries.            *)
LEMMA PushKeepsLimits ==
  ASSUME QInv, QueueLimited, NEW a, NEW pos \in Positions \ InQueue,
         NEW peer \in Peers \union {NoPeer}, NEW flags \in SUBSET Flags,
         NEW callbacks \in SUBSET Calls, Push(a, pos, peer, flags, callbacks),
         Allowed(peer, flags)
  PROVE  QueueLimited'
<1>1. PICK f : f = [peer |-> peer, flags |-> flags, callbacks |-> callbacks]
  OBVIOUS
<1>2. f \in Entry /\ f.peer = peer /\ f.flags = flags
  BY <1>1 DEF Entry
<1>3. /\ m_blocks_enqueued'[pos] = f
      /\ \A q \in Positions \ {pos} : m_blocks_enqueued'[q] = m_blocks_enqueued[q]
  BY <1>1 DEF Push, QInv, QueueTypes
<1>4. InQueue' = InQueue \union {pos}
  BY <1>2, <1>3, NoEntryIsNone DEF InQueue
<1>5. ASSUME NEW r, r # peer PROVE EntriesOf(r)' = EntriesOf(r)
  BY <1>2, <1>3, <1>4, <1>5 DEF EntriesOf, InQueue
<1>6. EntriesOf(peer)' = EntriesOf(peer) \union {pos}
  BY <1>2, <1>3, <1>4 DEF EntriesOf, InQueue
<1>7. CASE "FORCE_QUEUE" \in flags
  <2>1. Unforced' = Unforced
    BY <1>2, <1>3, <1>4, <1>7 DEF Unforced, InQueue
  <2>2. ASSUME NEW r
        PROVE  Unforced' \intersect EntriesOf(r)' = Unforced \intersect EntriesOf(r)
    <3>1. pos \notin Unforced
      BY DEF Unforced
    <3> QED BY <1>5, <1>6, <2>1, <3>1
  <2> QED BY <2>1, <2>2 DEF QueueLimited
<1>8. CASE "FORCE_QUEUE" \notin flags
  <2>1. Unforced' = Unforced \union {pos} /\ pos \notin Unforced
    BY <1>2, <1>3, <1>4, <1>8 DEF Unforced, InQueue
  <2>2. IsFiniteSet(InQueue) /\ Unforced \in SUBSET InQueue
    BY EmergeAssumption, FS_Subset DEF InQueue, Unforced
  <2>3. /\ Cardinality(Unforced') = Cardinality(Unforced) + 1
        /\ Cardinality(Unforced) <= Cardinality(InQueue)
        /\ Cardinality(Unforced) \in Nat /\ Cardinality(InQueue) \in Nat
    BY <2>1, <2>2, FS_Subset, FS_AddElement, FS_CardinalityType
  <2>4. /\ Cardinality(Unforced' \intersect EntriesOf(peer)')
             <= m_peer_queue_count[peer] + 1
        /\ Cardinality(Unforced' \intersect EntriesOf(peer)') \in Nat
    <3>1. /\ Unforced' \intersect EntriesOf(peer)' \in SUBSET EntriesOf(peer)'
          /\ IsFiniteSet(EntriesOf(peer)) /\ IsFiniteSet(EntriesOf(peer)')
      BY <1>6, EntriesFinite, FS_AddElement
    <3>2. Cardinality(EntriesOf(peer)') = Cardinality(EntriesOf(peer)) + 1
      <4>1. pos \notin EntriesOf(peer)
        BY DEF EntriesOf
      <4> QED BY <1>6, <3>1, <4>1, FS_AddElement
    <3>3. m_peer_queue_count[peer] = Cardinality(EntriesOf(peer))
      BY DEF QInv, CountsAgree
    <3> QED BY <3>1, <3>2, <3>3, FS_Subset, FS_CardinalityType
  <2>5. ASSUME NEW r, r # peer
        PROVE  Unforced' \intersect EntriesOf(r)' = Unforced \intersect EntriesOf(r)
    <3>1. pos \notin EntriesOf(r)
      BY DEF EntriesOf
    <3> QED BY <1>5, <2>1, <2>5, <3>1
  <2>6. /\ QLimitTotal \in Nat /\ QLimitGenerate \in Nat /\ QLimitDiskonly \in Nat
        /\ NoPeer \notin Peers /\ m_peer_queue_count[peer] \in Nat
    BY EmergeAssumption DEF QInv, QueueTypes
  <2>7. Cardinality(InQueue) < QLimitTotal
    BY <1>8 DEF Allowed
  <2>8. Cardinality(Unforced') <= QLimitTotal
    BY <2>3, <2>6, <2>7
  <2>9. Cardinality(Unforced' \intersect EntriesOf(NoPeer)') * 2 <= QLimitTotal + 1
    <3>1. CASE peer = NoPeer
      <4>1. m_peer_queue_count[peer] * 2 < QLimitTotal
        BY <1>8, <3>1 DEF Allowed
      <4> QED BY <2>4, <2>6, <3>1, <4>1
    <3>2. CASE peer # NoPeer
      BY <2>5, <3>2 DEF QueueLimited
    <3> QED BY <3>1, <3>2
  <2>10. ASSUME NEW r \in Peers
         PROVE  LET n == Cardinality(Unforced' \intersect EntriesOf(r)')
                IN  n <= QLimitGenerate \/ n <= QLimitDiskonly
    <3>1. CASE r = peer
      <4>1. \/ m_peer_queue_count[peer] < QLimitGenerate
            \/ m_peer_queue_count[peer] < QLimitDiskonly
        BY <1>8, <2>6, <3>1 DEF Allowed
      <4> QED BY <2>4, <2>6, <3>1, <4>1
    <3>2. CASE r # peer
      BY <2>5, <3>2 DEF QueueLimited
    <3> QED BY <3>1, <3>2
  <2> QED BY <2>8, <2>9, <2>10 DEF QueueLimited
<1> QED BY <1>7, <1>8

LEMMA TakeKeepsLimits ==
  ASSUME QInv, QueueLimited, NEW t \in Threads, TakeFront(t)
  PROVE  QueueLimited'
<1>1. PICK pos : pos = Head(m_block_queue[t])
  OBVIOUS
<1>2. pos \in InQueue /\ pos \in Positions
  BY <1>1, TakeStep DEF InQueue
<1>3. /\ m_blocks_enqueued'[pos] = NoEntry
      /\ \A q \in Positions \ {pos} : m_blocks_enqueued'[q] = m_blocks_enqueued[q]
  BY <1>1, <1>2 DEF TakeFront, QInv, QueueTypes
<1>4. InQueue' \subseteq InQueue \ {pos}
  BY <1>3 DEF InQueue
<1>5. Unforced' \subseteq Unforced
  BY <1>3, <1>4 DEF Unforced, InQueue
<1>6. ASSUME NEW peer PROVE EntriesOf(peer)' \subseteq EntriesOf(peer)
  BY <1>3, <1>4 DEF EntriesOf, InQueue
<1> QED BY <1>5, <1>6, FewerKeepsLimits

LEMMA QuietKeepsLimits ==
  ASSUME QueueLimited, UNCHANGED queueVars
  PROVE  QueueLimited'
<1>1. UNCHANGED m_blocks_enqueued
  BY DEF queueVars
<1>2. InQueue' = InQueue
  BY <1>1 DEF InQueue
<1>3. Unforced' \subseteq Unforced
  BY <1>1, <1>2 DEF Unforced
<1>4. ASSUME NEW peer PROVE EntriesOf(peer)' \subseteq EntriesOf(peer)
  BY <1>1, <1>2 DEF EntriesOf
<1> QED BY <1>3, <1>4, FewerKeepsLimits

LEMMA EnqueueKeepsLimits ==
  ASSUME QInv, QueueLimited, NEW a \in Agents, NEW pos \in Positions,
         NEW peer \in Peers \union {NoPeer}, NEW flags \in SUBSET Flags,
         NEW callbacks \in SUBSET Calls,
         enqueueBlockEmergeEx(a, pos, peer, flags, callbacks)
  PROVE  QueueLimited'
BY QuietKeepsLimits, MergeKeepsLimits, PushKeepsLimits DEF enqueueBlockEmergeEx, Refuse

LEMMA LimitsStep == TypeOK /\ QInv /\ QueueLimited /\ [Next]_vars => QueueLimited'
<1> SUFFICES ASSUME TypeOK, QInv, QueueLimited, [Next]_vars PROVE QueueLimited'
  OBVIOUS
<1>1. ASSUME NEW c \in Callers, enqueueBlockEmerge(c) PROVE QueueLimited'
  <2>1. c \in Agents /\ {} \in SUBSET Calls
    BY DEF Agents
  <2> QED BY <1>1, <2>1, EnqueueKeepsLimits DEF enqueueBlockEmerge
<1>2. ASSUME NEW a \in Agents, l_emerge_area(a) PROVE QueueLimited'
  <2>1. PICK pos, callbacks : pos = asking[a].pos /\ callbacks = {asking[a].call}
    OBVIOUS
  <2>2. /\ pos \in Positions /\ callbacks \in SUBSET Calls
        /\ {"ALLOW_GEN", "FORCE_QUEUE"} \in SUBSET Flags
    BY <1>2, <2>1, CallTypes DEF l_emerge_area
  <2> QED BY <1>2, <2>1, <2>2, EnqueueKeepsLimits DEF l_emerge_area
<1>3. ASSUME NEW t \in Threads, ThreadStep(t) PROVE QueueLimited'
  <2>1. CASE popBlockEmerge(t)
    BY <2>1, TakeKeepsLimits, QuietKeepsLimits DEF popBlockEmerge
  <2>2. CASE cancelPendingItems(t)
    BY <2>2, TakeKeepsLimits, QuietKeepsLimits DEF cancelPendingItems
  <2>3. CASE UNCHANGED queueVars
    BY <2>3, QuietKeepsLimits
  <2> QED BY <1>3, <2>1, <2>2, <2>3
          DEF ThreadStep, initScripting, Wake, Abandon, Work, finishGen,
              runCompletionCallbacks, Reported, BeginCancel
<1>4. CASE UNCHANGED queueVars
  BY <1>4, QuietKeepsLimits
<1>5. ASSUME NEW c \in Callers, EnterLua(c) PROVE UNCHANGED queueVars
  BY <1>5 DEF EnterLua
<1>6. ASSUME NEW a \in Agents, CallEmergeArea(a) \/ LeaveLua(a) \/ Signal(a)
      PROVE  UNCHANGED queueVars
  BY <1>6 DEF CallEmergeArea, LeaveLua, Signal
<1>7. ASSUME startThreads \/ stopThreads \/ ManagerStep
      PROVE  UNCHANGED queueVars
  BY <1>7 DEF startThreads, stopThreads, Begin, ManagerStep, ThreadStart,
              ThreadStop, ThreadSignal, ThreadWait, managerOnly
<1> QED BY <1>1, <1>2, <1>3, <1>4, <1>5, <1>6, <1>7 DEF Next, LuaStep, vars

LEMMA LimitsInit == Init => QueueLimited
<1> SUFFICES ASSUME Init PROVE QueueLimited
  OBVIOUS
<1>1. Unforced = {}
  BY DEF Init, Unforced, InQueue
<1>2. \A peer : Cardinality(Unforced \intersect EntriesOf(peer)) = 0
  BY <1>1, FS_EmptySet
<1> QED BY <1>1, <1>2, FS_EmptySet, EmergeAssumption DEF QueueLimited

(* pushBlockEmergeData(): whatever is forced into the queue or merged, the *)
(* requests nobody forced respect the limits.                              *)
THEOREM LimitsCorrect == Spec => []QueueLimited
BY LimitsInit, LimitsStep, EmergeInvariant, PTL DEF Spec

-----------------------------------------------------------------------------
(***************************************************************************)
(* Proofs about the callbacks of core.emerge_area: each is in one place at *)
(* a time, until it has run.                                               *)
(***************************************************************************)

(* A callback is in one place, and in none once it has run; ...            *)
InOnePlace(n) ==
  /\ \A x, y \in Places(n) : x = y
  /\ Places(n) # {} => fired[n] = 0
  /\ fired[n] \in {0, 1}

(* ... one that was not given yet is nowhere.                              *)
OnceInv == \A n \in Calls :
  InOnePlace(n) /\ (n > calls => Places(n) = {} /\ fired[n] = 0)

(* startThreads() finds every thread joined.                               *)
Joined ==
  /\ manager = "stopped" => index = 1
  /\ \A t \in Threads :
       \/ manager = "stopped"
       \/ manager = "starting" /\ index <= t
       \/ manager = "join" /\ t < index
       => at[t] = "off"

(* A thread that may take a block holds no callback ...                    *)
HandsFree == \A t \in Threads :
  at[t] \in {"off", "init", "loop", "wait"} => item[t].callbacks = {}

(* ... and so none is lost.                                                *)
KeptInv ==
  HandsFree /\ \A n \in Calls : n <= calls => Places(n) # {} \/ fired[n] = 1

(* What no step but a throw or a refused position takes away.              *)
NothingLost == ~MayThrow /\ OverLimit = {}

Asked(a, n)     == asking[a].call = n
Requested(p, n) == p \in InQueue /\ n \in m_blocks_enqueued[p].callbacks
Taken(t, n)     == n \in item[t].callbacks

-----------------------------------------------------------------------------
(* How the places of a callback change.                                    *)

LEMMA SamePlaces ==
  ASSUME UNCHANGED <<asking, m_blocks_enqueued, item>>, NEW n
  PROVE  Places(n)' = Places(n)
BY DEF Places, InQueue

LEMMA RequestPlaces ==
  ASSUME QInv, NEW a \in Agents, NEW pos \in Positions,
         NEW peer \in Peers \union {NoPeer}, NEW flags \in SUBSET Flags,
         NEW callbacks \in SUBSET Calls,
         enqueueBlockEmergeEx(a, pos, peer, flags, callbacks)
  PROVE  \/ UNCHANGED m_blocks_enqueued /\ ~Allowed(peer, flags)
         \/ \A p \in Positions, n \in Calls :
              Requested(p, n)' <=> Requested(p, n) \/ (p = pos /\ n \in callbacks)
<1>1. CASE ~Allowed(peer, flags)
  BY <1>1 DEF enqueueBlockEmergeEx, Refuse, queueVars
<1>2. CASE Allowed(peer, flags) /\ pos \in InQueue
  <2>1. PICK f : f = [m_blocks_enqueued[pos] EXCEPT !.flags = @ \union flags,
                                                    !.callbacks = @ \union callbacks]
    OBVIOUS
  <2>2. m_blocks_enqueued[pos] \in Entry
    BY <1>2, InQueueIsEntry DEF QInv
  <2>3. f \in Entry /\ f.callbacks = m_blocks_enqueued[pos].callbacks \union callbacks
    BY <2>1, <2>2 DEF Entry
  <2>4. m_blocks_enqueued' = [m_blocks_enqueued EXCEPT ![pos] = f]
    BY <1>2, <2>1 DEF enqueueBlockEmergeEx, Merge
  <2>5. /\ m_blocks_enqueued'[pos] = f
        /\ \A q \in Positions \ {pos} : m_blocks_enqueued'[q] = m_blocks_enqueued[q]
    BY <2>4 DEF QInv, QueueTypes
  <2> QED BY <1>2, <2>3, <2>5, NoEntryIsNone DEF Requested, InQueue
<1>3. CASE Allowed(peer, flags) /\ pos \notin InQueue
  <2>1. PICK f : f = [peer |-> peer, flags |-> flags, callbacks |-> callbacks]
    OBVIOUS
  <2>2. f \in Entry /\ f.callbacks = callbacks
    BY <2>1 DEF Entry
  <2>3. m_blocks_enqueued' = [m_blocks_enqueued EXCEPT ![pos] = f]
    BY <1>3, <2>1 DEF enqueueBlockEmergeEx, Push
  <2>4. /\ m_blocks_enqueued'[pos] = f
        /\ \A q \in Positions \ {pos} : m_blocks_enqueued'[q] = m_blocks_enqueued[q]
    BY <2>3 DEF QInv, QueueTypes
  <2> QED BY <1>3, <2>2, <2>4, NoEntryIsNone DEF Requested, InQueue
<1> QED BY <1>1, <1>2, <1>3

(* A request without a callback.                                           *)
LEMMA BlockPlaces ==
  ASSUME QInv, NEW c \in Callers, enqueueBlockEmerge(c), NEW n \in Calls
  PROVE  Places(n)' = Places(n)
<1>1. PICK none : none = {}
  OBVIOUS
<1>2. c \in Agents /\ none \in SUBSET Calls
  BY <1>1 DEF Agents
<1>3. PICK pos \in Positions, peer \in Peers \union {NoPeer}, flags \in SUBSET Flags :
        enqueueBlockEmergeEx(c, pos, peer, flags, none)
  BY <1>1 DEF enqueueBlockEmerge
<1>4. UNCHANGED <<asking, item>>
  BY DEF enqueueBlockEmerge
<1>5. CASE UNCHANGED m_blocks_enqueued
  BY <1>4, <1>5, SamePlaces
<1>6. CASE \A p \in Positions, m \in Calls :
             Requested(p, m)' <=> Requested(p, m) \/ (p = pos /\ m \in none)
  <2>1. \A p \in Positions : Requested(p, n)' <=> Requested(p, n)
    BY <1>1, <1>6
  <2> QED BY <1>4, <2>1 DEF Places, Requested, InQueue
<1> QED BY <1>2, <1>3, <1>5, <1>6, RequestPlaces

(* From the Lua code into the queue: a forced request is never refused.    *)
LEMMA AskPlaces ==
  ASSUME TypeOK, QInv, NEW a \in Agents, l_emerge_area(a), NEW n \in Calls
  PROVE  Places(n)' = IF asking[a].call = n
                      THEN (Places(n) \ {<<"asking", a>>})
                             \union {<<"entry", asking[a].pos>>}
                      ELSE Places(n)
<1>1. PICK pos, call : pos = asking[a].pos /\ call = asking[a].call
  OBVIOUS
<1>2. /\ pos \in Positions /\ {call} \in SUBSET Calls
      /\ {"ALLOW_GEN", "FORCE_QUEUE"} \in SUBSET Flags
  BY <1>1, CallTypes DEF l_emerge_area
<1>3. \A p \in Positions, m \in Calls :
        Requested(p, m)' <=> Requested(p, m) \/ (p = pos /\ m = call)
  <2>1. Allowed(NoPeer, {"ALLOW_GEN", "FORCE_QUEUE"})
    BY DEF Allowed
  <2>2. enqueueBlockEmergeEx(a, pos, NoPeer, {"ALLOW_GEN", "FORCE_QUEUE"}, {call})
    BY <1>1 DEF l_emerge_area
  <2>3. \/ UNCHANGED m_blocks_enqueued
           /\ ~Allowed(NoPeer, {"ALLOW_GEN", "FORCE_QUEUE"})
        \/ \A p \in Positions, m \in Calls :
             Requested(p, m)' <=> Requested(p, m) \/ (p = pos /\ m \in {call})
    BY <1>2, <2>2, RequestPlaces
  <2> QED BY <2>1, <2>3
<1>4. /\ asking'[a].call = 0 /\ UNCHANGED item
      /\ \A b \in Agents \ {a} : asking'[b] = asking[b]
  BY DEF l_emerge_area, TypeOK, NoCall
<1>5. n # 0
  BY EmergeAssumption DEF Calls
<1>6. /\ \A p \in Positions : Requested(p, n)' <=>
           Requested(p, n) \/ (p = pos /\ n = call)
      /\ \A b \in Agents : Asked(b, n)' <=> Asked(b, n) /\ b # a
      /\ \A t \in Threads : Taken(t, n)' <=> Taken(t, n)
  BY <1>3, <1>4, <1>5 DEF Asked, Taken
<1>7. /\ Places(n) = {<<"asking", b>> : b \in {b \in Agents : Asked(b, n)}}
           \union {<<"entry", p>> : p \in {q \in Positions : Requested(q, n)}}
           \union {<<"item", t>> : t \in {u \in Threads : Taken(u, n)}}
      /\ Places(n)' = {<<"asking", b>> : b \in {b \in Agents : Asked(b, n)'}}
           \union {<<"entry", p>> : p \in {q \in Positions : Requested(q, n)'}}
           \union {<<"item", t>> : t \in {u \in Threads : Taken(u, n)'}}
  BY DEF Places, Asked, Requested, Taken, InQueue
<1>8. Asked(a, n) <=> n = call
  BY <1>1 DEF Asked
<1>9. CASE n = call
  BY <1>1, <1>2, <1>6, <1>7, <1>8, <1>9
<1>10. CASE n # call
  BY <1>1, <1>2, <1>6, <1>7, <1>8, <1>10
<1> QED BY <1>9, <1>10, <1>1

(* Given to core.emerge_area.                                              *)
LEMMA CallPlaces ==
  ASSUME TypeOK, NEW a \in Agents, CallEmergeArea(a), NEW n \in Calls
  PROVE  Places(n)' = IF n = calls + 1 THEN Places(n) \union {<<"asking", a>>}
                      ELSE Places(n)
<1>1. n # 0
  BY EmergeAssumption DEF Calls
<1>2. /\ asking[a].call = 0 /\ asking'[a].call = calls + 1
      /\ UNCHANGED <<item, m_blocks_enqueued>>
      /\ \A b \in Agents \ {a} : asking'[b] = asking[b]
  BY DEF CallEmergeArea, NoCall, TypeOK, queueVars
<1>3. /\ \A b \in Agents : Asked(b, n)' <=> Asked(b, n) \/ (b = a /\ n = calls + 1)
      /\ \A p \in Positions : Requested(p, n)' <=> Requested(p, n)
      /\ \A t \in Threads : Taken(t, n)' <=> Taken(t, n)
  BY <1>1, <1>2 DEF Asked, Requested, Taken, InQueue
<1>4. /\ Places(n) = {<<"asking", b>> : b \in {b \in Agents : Asked(b, n)}}
           \union {<<"entry", p>> : p \in {q \in Positions : Requested(q, n)}}
           \union {<<"item", t>> : t \in {u \in Threads : Taken(u, n)}}
      /\ Places(n)' = {<<"asking", b>> : b \in {b \in Agents : Asked(b, n)'}}
           \union {<<"entry", p>> : p \in {q \in Positions : Requested(q, n)'}}
           \union {<<"item", t>> : t \in {u \in Threads : Taken(u, n)'}}
  BY DEF Places, Asked, Requested, Taken, InQueue
<1>5. CASE n = calls + 1
  BY <1>3, <1>4, <1>5
<1>6. CASE n # calls + 1
  BY <1>3, <1>4, <1>6
<1> QED BY <1>5, <1>6
(* From the queue to the thread: the place of the entry is gone.           *)
LEMMA TakePlaces ==
  ASSUME TypeOK, QInv, NEW t \in Threads, TakeFront(t), UNCHANGED asking,
         NEW n \in Calls
  PROVE  \E pos \in Positions :
           IF Requested(pos, n)
           THEN /\ <<"entry", pos>> \in Places(n)
                /\ <<"item", t>> \in Places(n)'
                /\ Places(n)' \subseteq (Places(n) \ {<<"entry", pos>>})
                                           \union {<<"item", t>>}
           ELSE /\ Places(n)' \subseteq Places(n)
                /\ item[t].callbacks = {} => Places(n) \subseteq Places(n)'
<1>1. PICK pos : pos = Head(m_block_queue[t])
  OBVIOUS
<1>2. /\ pos \in InQueue /\ pos \in Positions /\ m_blocks_enqueued[pos] \in Entry
  BY <1>1, TakeStep, InQueueIsEntry DEF QInv
<1>3. /\ m_blocks_enqueued'[pos] = NoEntry
      /\ \A q \in Positions \ {pos} : m_blocks_enqueued'[q] = m_blocks_enqueued[q]
  BY <1>1, <1>2 DEF TakeFront, QInv, QueueTypes
<1>4. /\ item'[t].callbacks = m_blocks_enqueued[pos].callbacks
      /\ \A u \in Threads \ {t} : item'[u] = item[u]
  BY <1>1 DEF TakeFront, TypeOK
<1>5. /\ \A b \in Agents : Asked(b, n)' <=> Asked(b, n)
      /\ \A p \in Positions : Requested(p, n)' <=> Requested(p, n) /\ p # pos
      /\ \A u \in Threads : Taken(u, n)' <=>
            IF u = t THEN Requested(pos, n) ELSE Taken(u, n)
  BY <1>2, <1>3, <1>4 DEF Asked, Requested, Taken, InQueue
<1>6. /\ Places(n) = {<<"asking", b>> : b \in {b \in Agents : Asked(b, n)}}
           \union {<<"entry", p>> : p \in {q \in Positions : Requested(q, n)}}
           \union {<<"item", u>> : u \in {u \in Threads : Taken(u, n)}}
      /\ Places(n)' = {<<"asking", b>> : b \in {b \in Agents : Asked(b, n)'}}
           \union {<<"entry", p>> : p \in {q \in Positions : Requested(q, n)'}}
           \union {<<"item", u>> : u \in {u \in Threads : Taken(u, n)'}}
  BY DEF Places, Asked, Requested, Taken, InQueue
<1>7. CASE Requested(pos, n)
  <2>1. <<"entry", pos>> \in Places(n) /\ <<"item", t>> \in Places(n)'
    BY <1>2, <1>5, <1>6, <1>7
  <2>2. Places(n)' \subseteq (Places(n) \ {<<"entry", pos>>}) \union {<<"item", t>>}
    BY <1>5, <1>6
  <2> QED BY <1>2, <1>7, <2>1, <2>2
<1>8. CASE ~Requested(pos, n)
  <2>1. Places(n)' \subseteq Places(n)
    BY <1>5, <1>6, <1>8
  <2>2. ASSUME item[t].callbacks = {} PROVE Places(n) \subseteq Places(n)'
    BY <1>5, <1>6, <1>8, <2>2 DEF Taken
  <2> QED BY <1>2, <1>8, <2>1, <2>2
<1> QED BY <1>7, <1>8

(* The list of a thread is left as it was, or is gone.                     *)
LEMMA DropPlaces ==
  ASSUME TypeOK, NEW t \in Threads, item' = [item EXCEPT ![t] = NoItem],
         UNCHANGED <<asking, m_blocks_enqueued>>, NEW n \in Calls
  PROVE  /\ Places(n)' \subseteq Places(n)
         /\ item[t].callbacks = {} => Places(n) \subseteq Places(n)'
<1>1. item'[t].callbacks = {} /\ \A u \in Threads \ {t} : item'[u] = item[u]
  BY DEF TypeOK, NoItem
<1>2. InQueue' = InQueue
  BY DEF InQueue
<1> QED BY <1>1, <1>2 DEF Places

(* Run: the callback leaves the list.                                      *)
LEMMA RunPlaces ==
  ASSUME TypeOK, NEW t \in Threads, runCompletionCallbacks(t)
  PROVE  \E m \in Calls :
           /\ <<"item", t>> \in Places(m)
           /\ fired' = [fired EXCEPT ![m] = @ + 1]
           /\ \A n \in Calls : Places(n)' =
                IF n = m THEN Places(n) \ {<<"item", t>>} ELSE Places(n)
<1>1. PICK m \in item[t].callbacks :
        /\ fired' = [fired EXCEPT ![m] = @ + 1]
        /\ item' = [item EXCEPT ![t].callbacks = @ \ {m}]
  BY DEF runCompletionCallbacks
<1>2. m \in Calls
  <2>1. item[t] \in Item \union {NoItem}
    BY DEF TypeOK
  <2> QED BY <1>1, <2>1 DEF Item, NoItem
<1>3. /\ item'[t].callbacks = item[t].callbacks \ {m}
      /\ \A u \in Threads \ {t} : item'[u] = item[u]
  <2>1. item[t] \in Item \union {NoItem}
    BY DEF TypeOK
  <2>2. PICK i : i = [item[t] EXCEPT !.callbacks = @ \ {m}]
    OBVIOUS
  <2>3. i.callbacks = item[t].callbacks \ {m}
    BY <2>1, <2>2 DEF Item, NoItem
  <2>4. item' = [item EXCEPT ![t] = i]
    BY <1>1, <2>2
  <2> QED BY <2>3, <2>4 DEF TypeOK
<1>4. UNCHANGED <<asking, m_blocks_enqueued>> /\ InQueue' = InQueue
  BY DEF runCompletionCallbacks, others, queueVars, InQueue
<1>5. <<"item", t>> \in Places(m)
  BY <1>1 DEF Places
<1>6. ASSUME NEW n \in Calls
      PROVE  Places(n)' = IF n = m THEN Places(n) \ {<<"item", t>>} ELSE Places(n)
  BY <1>3, <1>4 DEF Places
<1> QED BY <1>1, <1>2, <1>5, <1>6
-----------------------------------------------------------------------------
(* One step.                                                               *)

(* A callback that moves, or disappears, is still in one place.            *)
LEMMA MoveKeepsOnce ==
  ASSUME OnceInv, UNCHANGED <<fired, calls>>,
         \A n \in Calls : \/ Places(n)' \subseteq Places(n)
                          \/ \E x \in Places(n) : \E y :
                               Places(n)' \subseteq (Places(n) \ {x}) \union {y}
  PROVE  OnceInv'
<1> SUFFICES ASSUME NEW n \in Calls
             PROVE  /\ InOnePlace(n)'
                    /\ n > calls' => Places(n)' = {} /\ fired'[n] = 0
  BY DEF OnceInv
<1>1. InOnePlace(n) /\ (n > calls => Places(n) = {} /\ fired[n] = 0)
  BY DEF OnceInv
<1>2. CASE Places(n)' \subseteq Places(n)
  BY <1>1, <1>2 DEF InOnePlace
<1>3. ASSUME NEW x \in Places(n), NEW y,
             Places(n)' \subseteq (Places(n) \ {x}) \union {y}
      PROVE  /\ InOnePlace(n)'
             /\ n > calls' => Places(n)' = {} /\ fired'[n] = 0
  <2>1. Places(n)' \subseteq {y}
    BY <1>1, <1>3 DEF InOnePlace
  <2> QED BY <1>1, <1>3, <2>1 DEF InOnePlace
<1> QED BY <1>2, <1>3

LEMMA AskKeepsOnce ==
  ASSUME TypeOK, QInv, OnceInv, NEW a \in Agents, l_emerge_area(a)
  PROVE  OnceInv'
<1>1. ASSUME NEW n \in Calls
      PROVE  \/ Places(n)' \subseteq Places(n)
             \/ \E x \in Places(n) : \E y :
                  Places(n)' \subseteq (Places(n) \ {x}) \union {y}
  <2>1. asking[a].call = n => <<"asking", a>> \in Places(n)
    BY DEF Places
  <2> QED BY <2>1, AskPlaces
<1>2. UNCHANGED <<fired, calls>>
  BY DEF l_emerge_area
<1> QED BY <1>1, <1>2, MoveKeepsOnce

LEMMA TakeKeepsOnce ==
  ASSUME TypeOK, QInv, OnceInv, NEW t \in Threads, TakeFront(t),
         UNCHANGED <<asking, fired, calls>>
  PROVE  OnceInv'
<1>1. ASSUME NEW n \in Calls
      PROVE  \/ Places(n)' \subseteq Places(n)
             \/ \E x \in Places(n) : \E y :
                  Places(n)' \subseteq (Places(n) \ {x}) \union {y}
  BY TakePlaces
<1> QED BY <1>1, MoveKeepsOnce

LEMMA CallKeepsOnce ==
  ASSUME TypeOK, OnceInv, NEW a \in Agents, CallEmergeArea(a)
  PROVE  OnceInv'
<1> SUFFICES ASSUME NEW n \in Calls
             PROVE  /\ InOnePlace(n)'
                    /\ n > calls' => Places(n)' = {} /\ fired'[n] = 0
  BY DEF OnceInv
<1>1. InOnePlace(n) /\ (n > calls => Places(n) = {} /\ fired[n] = 0)
  BY DEF OnceInv
<1>2. /\ calls' = calls + 1 /\ calls \in Nat /\ n \in Nat /\ UNCHANGED fired
  BY EmergeAssumption DEF CallEmergeArea, TypeOK, Calls
<1>3. CASE n = calls + 1
  <2>1. Places(n)' = {<<"asking", a>>}
    BY <1>1, <1>2, <1>3, CallPlaces
  <2> QED BY <1>1, <1>2, <1>3, <2>1 DEF InOnePlace
<1>4. CASE n # calls + 1
  <2>1. Places(n)' = Places(n)
    BY <1>4, CallPlaces
  <2> QED BY <1>1, <1>2, <1>4, <2>1 DEF InOnePlace
<1> QED BY <1>3, <1>4

LEMMA RunKeepsOnce ==
  ASSUME TypeOK, OnceInv, NEW t \in Threads, runCompletionCallbacks(t)
  PROVE  OnceInv'
<1> SUFFICES ASSUME NEW n \in Calls
             PROVE  /\ InOnePlace(n)'
                    /\ n > calls' => Places(n)' = {} /\ fired'[n] = 0
  BY DEF OnceInv
<1>1. InOnePlace(n) /\ (n > calls => Places(n) = {} /\ fired[n] = 0)
  BY DEF OnceInv
<1>2. PICK m \in Calls :
        /\ <<"item", t>> \in Places(m)
        /\ fired' = [fired EXCEPT ![m] = @ + 1]
        /\ \A k \in Calls : Places(k)' =
             IF k = m THEN Places(k) \ {<<"item", t>>} ELSE Places(k)
  BY RunPlaces
<1>3. UNCHANGED calls
  BY DEF runCompletionCallbacks, others
<1>4. CASE n = m
  <2>1. Places(n) = {<<"item", t>>} /\ fired[n] = 0
    BY <1>1, <1>2, <1>4 DEF InOnePlace
  <2>2. Places(n)' = {} /\ fired'[n] = 1
    BY <1>2, <1>4, <2>1 DEF TypeOK
  <2> QED BY <1>1, <1>3, <2>1, <2>2 DEF InOnePlace
<1>5. CASE n # m
  <2>1. Places(n)' = Places(n) /\ fired'[n] = fired[n]
    BY <1>2, <1>5 DEF TypeOK
  <2> QED BY <1>1, <1>3, <2>1 DEF InOnePlace
<1> QED BY <1>4, <1>5

LEMMA QuietKeepsOnce ==
  ASSUME OnceInv, UNCHANGED <<asking, m_blocks_enqueued, item, fired, calls>>
  PROVE  OnceInv'
<1>1. \A n \in Calls : Places(n)' = Places(n)
  BY SamePlaces
<1> QED BY <1>1, MoveKeepsOnce

LEMMA OnceStep == TypeOK /\ QInv /\ OnceInv /\ [Next]_vars => OnceInv'
<1> SUFFICES ASSUME TypeOK, QInv, OnceInv, [Next]_vars PROVE OnceInv'
  OBVIOUS
<1> USE DEF queueVars
<1>1. ASSUME NEW c \in Callers, enqueueBlockEmerge(c) PROVE OnceInv'
  <2>1. \A n \in Calls : Places(n)' = Places(n)
    BY <1>1, BlockPlaces
  <2>2. UNCHANGED <<fired, calls>>
    BY <1>1 DEF enqueueBlockEmerge
  <2> QED BY <2>1, <2>2, MoveKeepsOnce
<1>2. ASSUME NEW a \in Agents, CallEmergeArea(a) \/ l_emerge_area(a) PROVE OnceInv'
  BY <1>2, CallKeepsOnce, AskKeepsOnce
<1>3. ASSUME NEW t \in Threads, ThreadStep(t) PROVE OnceInv'
  <2>1. CASE TakeFront(t) /\ UNCHANGED others /\ UNCHANGED fired
    BY <2>1, TakeKeepsOnce DEF others
  <2>2. CASE runCompletionCallbacks(t)
    BY <2>2, RunKeepsOnce
  <2>3. CASE item' = [item EXCEPT ![t] = NoItem] /\ UNCHANGED <<queueVars, others, fired>>
    <3>1. \A n \in Calls : Places(n)' \subseteq Places(n)
      BY <2>3, DropPlaces DEF others
    <3> QED BY <2>3, <3>1, MoveKeepsOnce DEF others
  <2>4. CASE UNCHANGED <<queueVars, item, others, fired>>
    BY <2>4, QuietKeepsOnce DEF others
  <2> QED BY <1>3, <2>1, <2>2, <2>3, <2>4
          DEF ThreadStep, initScripting, popBlockEmerge, Wake, Abandon, Work,
              finishGen, Reported, BeginCancel, cancelPendingItems
<1>4. CASE UNCHANGED <<asking, m_blocks_enqueued, item, fired, calls>>
  BY <1>4, QuietKeepsOnce
<1>5. ASSUME NEW a, EnterLua(a) \/ LeaveLua(a) \/ Signal(a)
      PROVE  UNCHANGED <<asking, m_blocks_enqueued, item, fired, calls>>
  BY <1>5 DEF EnterLua, LeaveLua, Signal
<1>6. ASSUME startThreads \/ stopThreads \/ ManagerStep
      PROVE  UNCHANGED <<asking, m_blocks_enqueued, item, fired, calls>>
  BY <1>6 DEF startThreads, stopThreads, Begin, ManagerStep, ThreadStart,
              ThreadStop, ThreadSignal, ThreadWait, managerOnly
<1>7. CASE UNCHANGED vars
  BY <1>7, QuietKeepsOnce DEF vars
<1> QED BY <1>1, <1>2, <1>3, <1>4, <1>5, <1>6, <1>7 DEF Next, LuaStep

LEMMA NowhereAtFirst ==
  ASSUME Init, NEW n \in Calls
  PROVE  Places(n) = {} /\ fired[n] = 0
<1>1. n # 0
  BY EmergeAssumption DEF Calls
<1> QED BY <1>1 DEF Init, Places, NoCall, NoItem, InQueue

LEMMA OnceInit == Init => OnceInv
BY NowhereAtFirst DEF OnceInv, InOnePlace

LEMMA OnceCounts ==
  ASSUME OnceInv, NEW n \in Calls
  PROVE  /\ Cardinality(Places(n)) + fired[n] <= 1
         /\ Places(n) # {} \/ fired[n] = 1 => Cardinality(Places(n)) + fired[n] = 1
<1>1. InOnePlace(n)
  BY DEF OnceInv
<1>2. CASE Places(n) = {}
  BY <1>1, <1>2, FS_EmptySet DEF InOnePlace
<1>3. CASE Places(n) # {}
  <2>1. PICK x : Places(n) = {x}
    BY <1>1, <1>3 DEF InOnePlace
  <2>2. Cardinality(Places(n)) = 1
    BY <2>1, FS_Singleton
  <2> QED BY <1>1, <1>3, <2>2 DEF InOnePlace
<1> QED BY <1>2, <1>3

(* A callback given to core.emerge_area runs at most once and never while  *)
(* another copy of it is queued, whoever merged requests, and whatever     *)
(* stopThreads() cancelled (pushBlockEmergeData(), cancelPendingItems(),   *)
(* runCompletionCallbacks()).                                              *)
THEOREM CallbackOnceCorrect == Spec => []CallbackOnce
<1>1. OnceInv => CallbackOnce
  BY OnceCounts DEF CallbackOnce
<1> QED BY <1>1, OnceInit, OnceStep, EmergeInvariant, PTL DEF Spec
-----------------------------------------------------------------------------
(* No callback is lost.                                                    *)

LEMMA Moves ==
  ASSUME TypeOK, NEW t \in Threads, ThreadStep(t)
  PROVE  /\ at[t] # "off" /\ UNCHANGED <<manager, index>>
         /\ \A u \in Threads \ {t} : at'[u] = at[u] /\ item'[u] = item[u]
<1>1. at[t] # "off"
  BY DEF ThreadStep, initScripting, popBlockEmerge, Wake, Abandon, Work, finishGen,
         runCompletionCallbacks, Reported, BeginCancel, cancelPendingItems
<1>2. UNCHANGED <<manager, index>>
  BY DEF ThreadStep, initScripting, popBlockEmerge, Wake, Abandon, Work, finishGen,
         runCompletionCallbacks, Reported, BeginCancel, cancelPendingItems, others
<1>3. \A u \in Threads \ {t} : at'[u] = at[u] /\ item'[u] = item[u]
  BY DEF ThreadStep, initScripting, popBlockEmerge, Wake, Abandon, Work, finishGen,
         runCompletionCallbacks, Reported, BeginCancel, cancelPendingItems,
         TakeFront, Goto, TypeOK
<1> QED BY <1>1, <1>2, <1>3

LEMMA JoinedStep == TypeOK /\ Joined /\ [Next]_vars => Joined'
<1> SUFFICES ASSUME TypeOK, Joined, [Next]_vars PROVE Joined'
  OBVIOUS
<1>0. /\ NumThreads \in Nat /\ index \in Threads /\ Threads \subseteq Nat
      /\ \A t \in Threads : 1 <= t /\ t <= NumThreads
  BY EmergeAssumption DEF TypeOK, Threads
<1>1. ASSUME NEW t \in Threads, ThreadStep(t) PROVE Joined'
  <2>1. /\ at[t] # "off" /\ UNCHANGED <<manager, index>>
        /\ \A u \in Threads \ {t} : at'[u] = at[u]
    BY <1>1, Moves
  <2> QED BY <2>1 DEF Joined
<1>2. CASE UNCHANGED <<at, manager, index>>
  BY <1>2 DEF Joined
<1>3. ASSUME NEW a \in Agents, LeaveLua(a) PROVE Joined'
  <2>1. \A t \in Threads : at[t] = "off" => at'[t] = "off"
    BY <1>3 DEF LeaveLua, TypeOK
  <2>2. UNCHANGED <<manager, index>>
    BY <1>3 DEF LeaveLua
  <2> QED BY <2>1, <2>2 DEF Joined
<1>4. CASE startThreads
  <2>1. manager = "stopped" /\ manager' = "starting" /\ UNCHANGED <<at, index>>
    BY <1>4 DEF startThreads, Begin
  <2> QED BY <2>1 DEF Joined
<1>5. CASE stopThreads \/ ThreadStop
  <2>1. manager' \in {"stop", "signal"}
    BY <1>5 DEF stopThreads, ThreadStop, Begin
  <2> QED BY <2>1 DEF Joined
<1>6. CASE ThreadStart
  <2>1. manager = "starting" /\ at' = [at EXCEPT ![index] = "init"]
    BY <1>6 DEF ThreadStart, Step, Goto
  <2>2. \/ manager' = "starting" /\ index' = index + 1
        \/ manager' = "running"
    BY <1>6 DEF ThreadStart, Step
  <2> QED BY <1>0, <2>1, <2>2 DEF Joined, TypeOK
<1>7. CASE ThreadSignal
  <2>1. \/ manager' = "stop"
        \/ manager' = "join" /\ index' = 1
    BY <1>7 DEF ThreadSignal
  <2> QED BY <1>0, <2>1 DEF Joined
<1>8. CASE ThreadWait
  <2>1. manager = "join" /\ at[index] = "off" /\ UNCHANGED at
    BY <1>8 DEF ThreadWait, Step
  <2>2. \/ manager' = "join" /\ index' = index + 1
        \/ manager' = "stopped" /\ index' = 1 /\ ~(index < NumThreads)
    BY <1>8 DEF ThreadWait, Step
  <2>3. \A t \in Threads : t < index \/ t = index \/ t > index
    BY <1>0
  <2>4. \A t \in Threads : t <= index => at[t] = "off"
    BY <1>0, <2>1 DEF Joined
  <2> QED BY <1>0, <2>1, <2>2, <2>4 DEF Joined
<1>9. ASSUME NEW c, enqueueBlockEmerge(c) \/ EnterLua(c) \/ CallEmergeArea(c)
                    \/ l_emerge_area(c) \/ Signal(c)
      PROVE  UNCHANGED <<at, manager, index>>
  BY <1>9 DEF enqueueBlockEmerge, EnterLua, CallEmergeArea, l_emerge_area, Signal
<1> QED BY <1>1, <1>2, <1>3, <1>4, <1>5, <1>6, <1>7, <1>8, <1>9
        DEF Next, LuaStep, ManagerStep, vars

LEMMA HandsStep ==
  TypeOK /\ Joined /\ HandsFree /\ [Next]_vars => HandsFree'
<1> SUFFICES ASSUME TypeOK, Joined, HandsFree, [Next]_vars, NEW t \in Threads,
                    at'[t] \in {"off", "init", "loop", "wait"}
             PROVE  item'[t].callbacks = {}
  BY DEF HandsFree
<1>1. at[t] \in {"off", "init", "loop", "wait"} => item[t].callbacks = {}
  BY DEF HandsFree
<1>2. ASSUME ThreadStep(t) PROVE item'[t].callbacks = {}
  <2> USE <1>1 DEF Goto, TypeOK
  <2>1. CASE initScripting(t) \/ Wake(t) \/ BeginCancel(t)
    BY <2>1 DEF initScripting, Wake, BeginCancel
  <2>2. CASE popBlockEmerge(t)
    BY <2>2 DEF popBlockEmerge
  <2>3. CASE Abandon(t) \/ Reported(t)
    BY <2>3 DEF Abandon, Reported, NoItem
  <2>4. CASE Work(t) \/ finishGen(t)
    BY <2>4 DEF Work, finishGen
  <2>5. CASE runCompletionCallbacks(t)
    BY <2>5 DEF runCompletionCallbacks
  <2>6. CASE cancelPendingItems(t)
    BY <2>6 DEF cancelPendingItems, NoItem
  <2> QED BY <1>2, <2>1, <2>2, <2>3, <2>4, <2>5, <2>6 DEF ThreadStep
<1>3. ASSUME NEW u \in Threads, ThreadStep(u), u # t PROVE item'[t].callbacks = {}
  BY <1>1, <1>3, Moves
<1>4. ASSUME NEW a \in Agents, LeaveLua(a) PROVE item'[t].callbacks = {}
  <2>1. item' = item /\ at'[t] \in {at[t], "report"}
    BY <1>4 DEF LeaveLua, TypeOK
  <2> QED BY <1>1, <2>1
<1>5. CASE ThreadStart
  <2>1. UNCHANGED item /\ at[index] = "off" /\ index \in Threads
    BY <1>5 DEF ThreadStart, managerOnly, Step, Joined, TypeOK, Threads
  <2>2. at[t] \in {"off", "init", "loop", "wait"}
    BY <1>5, <2>1 DEF ThreadStart, Goto, TypeOK
  <2> QED BY <1>1, <2>1, <2>2
<1>6. CASE UNCHANGED <<item, at>>
  BY <1>1, <1>6
<1>7. ASSUME NEW c, enqueueBlockEmerge(c) \/ EnterLua(c) \/ CallEmergeArea(c)
                    \/ l_emerge_area(c) \/ Signal(c)
      PROVE  UNCHANGED <<item, at>>
  BY <1>7 DEF enqueueBlockEmerge, EnterLua, CallEmergeArea, l_emerge_area, Signal
<1>8. ASSUME startThreads \/ stopThreads \/ ThreadStop \/ ThreadSignal \/ ThreadWait
      PROVE  UNCHANGED <<item, at>>
  BY <1>8 DEF startThreads, stopThreads, Begin, ThreadStop, ThreadSignal,
              ThreadWait, managerOnly
<1> QED BY <1>2, <1>3, <1>4, <1>5, <1>6, <1>7, <1>8 DEF Next, LuaStep, ManagerStep, vars

LEMMA KeptStep ==
  ASSUME NothingLost
  PROVE  /\ TypeOK /\ QInv /\ OnceInv /\ OnceInv' /\ Joined /\ KeptInv
         /\ [Next]_vars
         => KeptInv'
<1> SUFFICES ASSUME TypeOK, QInv, OnceInv, OnceInv', Joined, KeptInv, [Next]_vars
             PROVE  \A n \in Calls :
                      n <= calls' => Places(n)' # {} \/ fired'[n] = 1
  BY HandsStep DEF KeptInv
<1> USE DEF queueVars
<1>0. \A n \in Calls : n <= calls => Places(n) # {} \/ fired[n] = 1
  BY DEF KeptInv
<1>1. ASSUME UNCHANGED <<fired, calls>>,
             \A n \in Calls : Places(n) = {} \/ Places(n)' # {}
      PROVE  \A n \in Calls : n <= calls' => Places(n)' # {} \/ fired'[n] = 1
  BY <1>0, <1>1
<1>2. ASSUME NEW a \in Agents, l_emerge_area(a)
      PROVE  UNCHANGED <<fired, calls>> /\ \A n \in Calls : Places(n) = {} \/ Places(n)' # {}
  <2>1. ASSUME NEW n \in Calls PROVE Places(n) = {} \/ Places(n)' # {}
    <3>1. CASE asking[a].call = n
      <4>1. <<"entry", asking[a].pos>> \in Places(n)'
        BY <1>2, <3>1, AskPlaces
      <4> QED BY <4>1
    <3>2. CASE asking[a].call # n
      BY <1>2, <3>2, AskPlaces
    <3> QED BY <3>1, <3>2
  <2> QED BY <1>2, <2>1 DEF l_emerge_area
<1>3. ASSUME NEW c \in Callers, enqueueBlockEmerge(c)
      PROVE  UNCHANGED <<fired, calls>> /\ \A n \in Calls : Places(n) = {} \/ Places(n)' # {}
  BY <1>3, BlockPlaces DEF enqueueBlockEmerge
<1>4. ASSUME NEW a \in Agents, CallEmergeArea(a)
      PROVE  \A n \in Calls : n <= calls' => Places(n)' # {} \/ fired'[n] = 1
  <2>1. calls' = calls + 1 /\ calls \in Nat /\ Calls \subseteq Nat /\ UNCHANGED fired
    BY <1>4, EmergeAssumption DEF CallEmergeArea, TypeOK, Calls
  <2>2. ASSUME NEW n \in Calls, n <= calls' PROVE Places(n)' # {} \/ fired'[n] = 1
    <3>1. CASE n = calls + 1
      <4>1. <<"asking", a>> \in Places(n)'
        BY <1>4, <3>1, CallPlaces
      <4> QED BY <4>1
    <3>2. CASE n # calls + 1
      <4>1. n <= calls
        BY <2>1, <2>2, <3>2
      <4>2. Places(n)' = Places(n)
        BY <1>4, <3>2, CallPlaces
      <4> QED BY <1>0, <2>1, <4>1, <4>2
    <3> QED BY <3>1, <3>2
  <2> QED BY <2>2
<1>5. ASSUME NEW t \in Threads, TakeFront(t), item[t].callbacks = {},
             UNCHANGED <<asking, fired, calls>>
      PROVE  \A n \in Calls : Places(n) = {} \/ Places(n)' # {}
  <2>1. ASSUME NEW n \in Calls PROVE Places(n) = {} \/ Places(n)' # {}
    BY <1>5, TakePlaces
  <2> QED BY <2>1
<1>6. ASSUME NEW t \in Threads, runCompletionCallbacks(t)
      PROVE  \A n \in Calls : n <= calls' => Places(n)' # {} \/ fired'[n] = 1
  <2>1. PICK m \in Calls :
          /\ <<"item", t>> \in Places(m)
          /\ fired' = [fired EXCEPT ![m] = @ + 1]
          /\ \A n \in Calls : Places(n)' =
               IF n = m THEN Places(n) \ {<<"item", t>>} ELSE Places(n)
    BY <1>6, RunPlaces
  <2>2. fired[m] = 0
    BY <2>1 DEF OnceInv, InOnePlace
  <2>3. fired'[m] = 1 /\ \A n \in Calls \ {m} : fired'[n] = fired[n]
    BY <2>1, <2>2 DEF TypeOK
  <2>4. UNCHANGED calls
    BY <1>6 DEF runCompletionCallbacks, others
  <2> QED BY <1>0, <2>1, <2>3, <2>4
<1>7. ASSUME NEW t \in Threads, item' = [item EXCEPT ![t] = NoItem],
             item[t].callbacks = {}, UNCHANGED <<asking, m_blocks_enqueued>>
      PROVE  \A n \in Calls : Places(n) = {} \/ Places(n)' # {}
  <2>1. ASSUME NEW n \in Calls PROVE Places(n) = {} \/ Places(n)' # {}
    BY <1>7, DropPlaces
  <2> QED BY <2>1
<1>8. ASSUME UNCHANGED <<asking, m_blocks_enqueued, item>>
      PROVE  \A n \in Calls : Places(n) = {} \/ Places(n)' # {}
  BY <1>8, SamePlaces
<1>9. ASSUME NEW t \in Threads, ThreadStep(t)
      PROVE  \A n \in Calls : n <= calls' => Places(n)' # {} \/ fired'[n] = 1
  <2> USE DEF others
  <2>1. CASE popBlockEmerge(t)
    <3>1. item[t].callbacks = {}
      BY <2>1 DEF popBlockEmerge, KeptInv, HandsFree
    <3> QED BY <1>1, <1>5, <1>8, <2>1, <3>1 DEF popBlockEmerge
  <2>2. CASE cancelPendingItems(t)
    BY <1>1, <1>5, <1>7, <2>2 DEF cancelPendingItems, CallbacksRun
  <2>3. CASE Reported(t)
    BY <1>1, <1>7, <2>3 DEF Reported, CallbacksRun
  <2>4. CASE runCompletionCallbacks(t)
    BY <1>6, <2>4
  <2>5. CASE UNCHANGED <<queueVars, item, others, fired>>
    BY <1>1, <1>8, <2>5
  <2>6. ~Abandon(t)
    BY DEF Abandon, NothingLost
  <2> QED BY <1>9, <2>1, <2>2, <2>3, <2>4, <2>5, <2>6
          DEF ThreadStep, initScripting, Wake, Work, finishGen, BeginCancel
<1>10. CASE UNCHANGED <<asking, m_blocks_enqueued, item, fired, calls>>
  BY <1>1, <1>8, <1>10
<1>11. ASSUME NEW a, EnterLua(a) \/ LeaveLua(a) \/ Signal(a)
       PROVE  UNCHANGED <<asking, m_blocks_enqueued, item, fired, calls>>
  BY <1>11 DEF EnterLua, LeaveLua, Signal
<1>12. ASSUME startThreads \/ stopThreads \/ ManagerStep
       PROVE  UNCHANGED <<asking, m_blocks_enqueued, item, fired, calls>>
  BY <1>12 DEF startThreads, stopThreads, Begin, ManagerStep, ThreadStart,
               ThreadStop, ThreadSignal, ThreadWait, managerOnly
<1>13. CASE UNCHANGED vars
  BY <1>10, <1>13 DEF vars
<1> QED BY <1>1, <1>2, <1>3, <1>4, <1>9, <1>10, <1>11, <1>12, <1>13 DEF Next, LuaStep

LEMMA KeptInit == Init => Joined /\ KeptInv
<1> SUFFICES ASSUME Init PROVE Joined /\ KeptInv
  OBVIOUS
<1>1. HandsFree
  BY DEF Init, HandsFree, NoItem
<1>2. \A n \in Calls : ~(n <= calls)
  BY EmergeAssumption DEF Init, Calls
<1>3. Joined
  BY DEF Init, Joined
<1> QED BY <1>1, <1>2, <1>3 DEF KeptInv

(* A callback that core.emerge_area took is run or still held where it     *)
(* will be, when no position is over the limit and nothing throws: it is   *)
(* only EmergeThread::run() going on with the next block that loses one.   *)
THEOREM CallbackKeptCorrect ==
  ASSUME NothingLost
  PROVE  Spec => []CallbackKept
<1>1. TypeOK /\ OnceInv /\ KeptInv => CallbackKept
  <2> SUFFICES ASSUME TypeOK, OnceInv, KeptInv, NEW n \in 1 .. calls
               PROVE  Cardinality(Places(n)) + fired[n] = 1
    BY DEF CallbackKept
  <2>1. n \in Calls /\ n <= calls
    BY EmergeAssumption DEF TypeOK, Calls
  <2> QED BY <2>1, OnceCounts DEF KeptInv
<1>2. /\ TypeOK /\ QInv /\ OnceInv /\ OnceInv' /\ Joined /\ KeptInv /\ [Next]_vars
      => KeptInv'
  BY KeptStep
<1> QED BY <1>1, <1>2, OnceInit, OnceStep, JoinedStep, KeptInit, EmergeInvariant,
           PTL DEF Spec
=============================================================================
