------------------------- MODULE ClientPartsProofs -------------------------
(***************************************************************************)
(* Proofs about the parts of a connection beside its reliable channels:    *)
(* the list of packets (MtpReliableBuffer), the send window (MtpWindow),   *)
(* packets cut into chunks (MtpSplit), the peers and the events about them *)
(* (MtpPeers), the handshake (MtpHandshake), and about the queue of a      *)
(* client's meshes (MeshQueue), for all values of their constants.         *)
(***************************************************************************)
EXTENDS MtpReliableBuffer, MtpWindow, MtpSplit, MtpPeers, MtpHandshake, MeshQueue, DataLemmas

-----------------------------------------------------------------------------
(* The send window.                                                        *)
(* The range is kept only by numbers: the counters are natural.            *)
WindowTypes ==
  /\ WindowInRange /\ seconds \in Nat
  /\ current_packet_loss \in Nat /\ current_packet_too_late \in Nat
  /\ current_packet_successful \in Nat /\ current_bytes_transfered \in Nat

-----------------------------------------------------------------------------
(* setWindowSize()                                                         *)
LEMMA RangeLimInRange ==
  ASSUME NEW size \in Int
  PROVE  RangeLim(size) \in
           MIN_RELIABLE_WINDOW_SIZE .. MAX_RELIABLE_WINDOW_SIZE_SEND
BY CongestionAssumption DEF RangeLim

(* The ratio of naturals is all or nothing.                                *)
LEMMA RatioIsCoarse ==
  ASSUME WindowTypes, NEW lost \in Nat, current_packet_successful # 0
  PROVE  IF lost < current_packet_successful THEN LossRatio(lost) = 0
                                             ELSE LossRatio(lost) = 100
<1> DEFINE s == current_packet_successful
<1>1. s \in Nat /\ s > 0
  BY DEF WindowTypes
<1>2. CASE lost < s
  <2>1. lost \div s = 0
    BY <1>1, <1>2
  <2> QED BY <1>1, <1>2, <2>1 DEF LossRatio, Congested
<1>3. CASE ~(lost < s)
  <2>1. s \div s = 1
    BY <1>1
  <2>2. Congested(lost) = s
    BY <1>1, <1>3 DEF Congested
  <2> QED BY <1>1, <1>3, <2>1, <2>2 DEF LossRatio
<1> QED BY <1>2, <1>3

(* Which step is taken: the large one up, unless as many packets were lost *)
(* as were acknowledged; then the large one down.                          *)
LEMMA StepTaken ==
  ASSUME WindowTypes, NEW lost \in Nat
  PROVE  IF current_packet_successful # 0 /\ lost >= current_packet_successful
         THEN NewSize(lost) = m_window_size - BigStep
         ELSE NewSize(lost) = Grown(BigStep)
<1>1. CASE current_packet_successful = 0
  <2>1. ~(Congested(lost) > 0)
    BY <1>1 DEF Congested
  <2> QED BY <1>1, <2>1 DEF NewSize
<1>2. CASE current_packet_successful # 0
  BY <1>2, RatioIsCoarse DEF NewSize, WindowTypes
<1> QED BY <1>1, <1>2

LEMMA NewSizeTyped ==
  ASSUME WindowTypes, NEW lost \in Nat
  PROVE  NewSize(lost) \in Int
BY StepTaken, CongestionAssumption DEF WindowTypes, WindowInRange, Grown

LEMMA WindowStep == WindowTypes /\ [WindowNext]_windowVars => WindowTypes'
<1> SUFFICES ASSUME WindowTypes, [WindowNext]_windowVars PROVE WindowTypes'
  OBVIOUS
<1> USE DEF WindowTypes, WindowInRange
<1>1. CASE UpdatePacketLossCounter
  BY <1>1 DEF UpdatePacketLossCounter
<1>2. CASE UpdatePacketTooLateCounter
  BY <1>2 DEF UpdatePacketTooLateCounter
<1>3. CASE UpdateBytesSent
  BY <1>3 DEF UpdateBytesSent
<1>4. ASSUME NEW second \in BOOLEAN, NEW period \in BOOLEAN,
             UpdateTimers(second, period)
      PROVE  WindowTypes'
  <2>1. NewSize(current_packet_loss + current_packet_too_late) \in Int
    BY NewSizeTyped
  <2>2. WindowInRange'
    BY <1>4, <2>1, RangeLimInRange DEF UpdateTimers
  <2> QED BY <1>4, <2>2 DEF UpdateTimers
<1>5. CASE UNCHANGED windowVars
  BY <1>5 DEF windowVars, windowCounters
<1> QED BY <1>1, <1>2, <1>3, <1>4, <1>5 DEF WindowNext

LEMMA WindowTypesCorrect == WindowSpec => []WindowTypes
<1>1. WindowInit => WindowTypes
  BY CongestionAssumption DEF WindowInit, WindowTypes, WindowInRange
<1> QED BY <1>1, WindowStep, PTL DEF WindowSpec

(* setWindowSize(): whatever the counters say, the window never wraps      *)
(* around below its minimum and never outgrows its maximum.                *)
THEOREM WindowRangeCorrect == WindowSpec => []WindowInRange
<1>1. WindowTypes => WindowInRange
  BY DEF WindowTypes
<1> QED BY <1>1, WindowTypesCorrect, PTL

(* UpdateTimers() moves the window by the largest step or not at all.      *)
THEOREM OnlyBigStepsCorrect == WindowSpec => OnlyBigSteps
<1> DEFINE Moved == m_window_size' \in
      {m_window_size, RangeLim(m_window_size + BigStep),
       RangeLim(m_window_size - BigStep)}
<1>1. WindowTypes /\ [WindowNext]_windowVars => [Moved]_windowVars
  <2> SUFFICES ASSUME WindowTypes, WindowNext PROVE Moved
    OBVIOUS
  <2>1. ASSUME NEW second \in BOOLEAN, NEW period \in BOOLEAN,
               UpdateTimers(second, period)
        PROVE  Moved
    <3> DEFINE lost == current_packet_loss + current_packet_too_late
    <3>1. lost \in Nat
      BY DEF WindowTypes
    <3>2. NewSize(lost) \in {m_window_size - BigStep, m_window_size + BigStep,
                             m_window_size}
      BY <3>1, StepTaken DEF Grown
    <3>3. RangeLim(m_window_size) = m_window_size
      BY CongestionAssumption DEF RangeLim, WindowTypes, WindowInRange
    <3> QED BY <2>1, <3>2, <3>3 DEF UpdateTimers
  <2> QED BY <2>1 DEF WindowNext, UpdatePacketLossCounter,
                      UpdatePacketTooLateCounter, UpdateBytesSent
<1> QED BY <1>1, WindowTypesCorrect, PTL DEF WindowSpec, OnlyBigSteps

(* The window shrinks in those seconds only in which no less was lost or   *)
(* late than was acknowledged, and something was; in them it never grows,  *)
(* near its minimum neither (UpdateTimers()).                              *)
THEOREM LossDecidesCorrect == WindowSpec => LossDecides
<1> DEFINE Decides ==
      /\ LossAtLeastAcks => m_window_size' <= m_window_size
      /\ m_window_size' < m_window_size => LossAtLeastAcks
<1>1. WindowTypes /\ [WindowNext]_windowVars => [Decides]_windowVars
  <2> SUFFICES ASSUME WindowTypes, WindowNext PROVE Decides
    OBVIOUS
  <2> USE DEF WindowTypes, WindowInRange
  <2>1. ASSUME NEW second \in BOOLEAN, NEW period \in BOOLEAN,
               UpdateTimers(second, period)
        PROVE  Decides
    <3>1. Lost \in Nat
      BY DEF Lost
    <3>2. RangeLim(m_window_size) = m_window_size
      BY CongestionAssumption DEF RangeLim
    <3>3. RangeLim(m_window_size + BigStep) >= m_window_size
      BY CongestionAssumption DEF RangeLim
    <3>4. RangeLim(m_window_size - BigStep) <= m_window_size
      BY CongestionAssumption DEF RangeLim
    <3>5. CASE second
      <4>1. m_window_size' = RangeLim(NewSize(Lost))
        BY <2>1, <3>5 DEF UpdateTimers, Lost
      <4>2. CASE LossAtLeastAcks
        <5>1. NewSize(Lost) = m_window_size - BigStep
          BY <3>1, <4>2, StepTaken DEF LossAtLeastAcks
        <5> QED BY <3>4, <4>1, <4>2, <5>1
      <4>3. CASE ~LossAtLeastAcks
        <5>1. NewSize(Lost) \in {m_window_size, m_window_size + BigStep}
          BY <3>1, <4>3, StepTaken DEF LossAtLeastAcks, Grown
        <5>2. m_window_size' \in Int /\ m_window_size' >= m_window_size
          BY <3>2, <3>3, <4>1, <5>1, CongestionAssumption DEF RangeLim
        <5> QED BY <4>3, <5>2
      <4> QED BY <4>2, <4>3
    <3>6. CASE ~second
      BY <2>1, <3>6 DEF UpdateTimers
    <3> QED BY <3>5, <3>6
  <2>2. CASE UpdatePacketLossCounter \/ UpdatePacketTooLateCounter \/ UpdateBytesSent
    BY <2>2 DEF UpdatePacketLossCounter, UpdatePacketTooLateCounter, UpdateBytesSent
  <2> QED BY <2>1, <2>2 DEF WindowNext
<1> QED BY <1>1, WindowTypesCorrect, PTL DEF WindowSpec, LossDecides

-----------------------------------------------------------------------------
(* Split packets.                                                          *)

SplitTypes ==
  /\ splits \in 0 .. MaxSplits
  /\ pipe \in Seq(Chunk) /\ datagrams \subseteq Chunk
  /\ m_buf \in [Numbers -> Entry \union {NoEntry}]
  /\ owed \in Seq(Packets)
  /\ handed = {} \/ \E packet \in Packets : handed = {packet}

AliveChunks ==
  {pipe[i] : i \in DOMAIN pipe} \union datagrams \union UNION {m_buf[n].chunks : n \in Incomplete}

(* The number of a packet that is not done is taken by no other one, and   *)
(* its chunks say the same of it.                                          *)
NumbersTaken == \A c \in AliveChunks : c.packet < splits /\ splits <= c.packet + SplitNumbers
Alike == \A c, d \in AliveChunks :
  c.packet = d.packet => c.count = d.count /\ c.reliable = d.reliable

Channels ==
  /\ \A i \in DOMAIN pipe : pipe[i].reliable /\ pipe[i].num < pipe[i].count
  /\ \A c \in datagrams : ~c.reliable

Entries == \A n \in Incomplete :
  /\ IsFiniteSet(m_buf[n].chunks) /\ m_buf[n].chunks # {}
  /\ \A c \in m_buf[n].chunks : /\ SplitNumber(c.packet) = n
                                /\ c.count = m_buf[n].count /\ c.reliable = m_buf[n].reliable

(* The reliable channel: packet by packet, each chunk by chunk to its end. *)
PipeInOrder ==
  /\ \A i, j \in DOMAIN pipe : i < j =>
       \/ pipe[i].packet < pipe[j].packet
       \/ pipe[i].packet = pipe[j].packet /\ pipe[j].num = pipe[i].num + (j - i)
  /\ \A i \in DOMAIN pipe :
       /\ pipe[i].num + 1 < pipe[i].count => i + 1 \in DOMAIN pipe /\ pipe[i + 1].packet = pipe[i].packet
       /\ i # 1 => pipe[i].num = 0 \/ pipe[i - 1].packet = pipe[i].packet

(* What has been collected of a reliable packet is what came of the one    *)
(* that comes out of the channel next.                                     *)
CollectedInOrder ==
  /\ \A n \in Incomplete : m_buf[n].reliable =>
       /\ pipe # <<>> /\ Cardinality(m_buf[n].chunks) = pipe[1].num
       /\ \A c \in m_buf[n].chunks : c.packet = pipe[1].packet /\ c.num < pipe[1].num
  /\ pipe # <<>> /\ pipe[1].num # 0 => SplitNumber(pipe[1].packet) \in Incomplete

OwedInOrder ==
  /\ Range(owed) = {pipe[i].packet : i \in DOMAIN pipe}
  /\ \A i, j \in DOMAIN owed : i < j => owed[i] < owed[j]

SplitInv ==
  /\ SplitTypes /\ NumbersTaken /\ Alike /\ Channels /\ Entries
  /\ PipeInOrder /\ CollectedInOrder /\ OwedInOrder

(* A number is taken again only SplitNumbers later.                        *)
LEMMA SplitNumberOnce ==
  ASSUME NEW a \in Nat, NEW b \in Nat, SplitNumber(a) = SplitNumber(b),
         a < b + SplitNumbers, b < a + SplitNumbers
  PROVE  a = b
<1> DEFINE n == SplitNumbers
           i == a \div n
           j == b \div n
<1>1. n \in Nat \ {0}
  BY SplitAssumption
<1>2. a % n = b % n
  BY DEF SplitNumber
<1> HIDE DEF n
<1>3. a = n * i + (a % n) /\ b = n * j + (b % n) /\ a % n \in 0 .. n - 1 /\ i \in Nat /\ j \in Nat
  BY <1>1
<1>4. a < b + n /\ b < a + n
  BY DEF n
<1> HIDE DEF i, j
<1>5. \A k, l \in Nat : k < l => n * k + n <= n * l
  BY <1>1
<1>6. n * i \in Nat /\ n * j \in Nat
  BY <1>1, <1>3
<1>7. ~(i < j) /\ ~(j < i)
  <2>1. i < j => n * i + n <= n * j
    BY <1>3, <1>5
  <2>2. j < i => n * j + n <= n * i
    BY <1>3, <1>5
  <2> QED BY <1>1, <1>2, <1>3, <1>4, <1>6, <2>1, <2>2
<1>8. i = j
  BY <1>3, <1>7
<1> QED BY <1>2, <1>3, <1>8

LEMMA SplitNumberType ==
  ASSUME NEW packet \in Nat
  PROVE  SplitNumber(packet) \in Numbers
<1>1. SplitNumbers \in Nat \ {0}
  BY SplitAssumption
<1>2. \A n \in Nat \ {0} : packet % n \in 0 .. n - 1
  OBVIOUS
<1> QED BY <1>1, <1>2 DEF SplitNumber, Numbers

LEMMA AliveChunkIs ==
  ASSUME NEW c
  PROVE  c \in AliveChunks <=> \/ \E i \in DOMAIN pipe : c = pipe[i]
                               \/ c \in datagrams
                               \/ \E n \in Incomplete : c \in m_buf[n].chunks
BY DEF AliveChunks

LEMMA AliveChunkTypes ==
  ASSUME SplitTypes, NEW c \in AliveChunks
  PROVE  /\ c \in Chunk /\ c.packet \in Packets /\ c.packet \in Nat /\ c.num \in Nat
         /\ c.count \in ChunkCounts /\ c.count \in Nat /\ c.count >= 2 /\ c.reliable \in BOOLEAN
         /\ c.packet \in Alive /\ SplitNumber(c.packet) \in Numbers
<1>1. c \in Chunk
  <2>1. \A n \in Incomplete : m_buf[n] \in Entry /\ m_buf[n].chunks \subseteq Chunk
    BY DEF SplitTypes, Incomplete, Entry
  <2>2. \A i \in DOMAIN pipe : pipe[i] \in Chunk
    BY DEF SplitTypes
  <2> QED BY <2>1, <2>2, AliveChunkIs DEF SplitTypes
<1>2. c.packet \in Packets /\ c.num \in Nat /\ c.count \in ChunkCounts /\ c.reliable \in BOOLEAN
  BY <1>1 DEF Chunk
<1>3. c.packet \in Nat
  BY <1>2, SplitAssumption DEF Packets
<1>4. c.packet \in Alive
  BY AliveChunkIs DEF Alive
<1>5. c.count \in Nat /\ c.count >= 2
  <2>1. \A n \in Nat \ {0, 1} : n >= 2
    OBVIOUS
  <2>2. c.count \in Nat \ {0, 1}
    BY <1>2, SplitAssumption
  <2> QED BY <2>1, <2>2
<1> QED BY <1>1, <1>2, <1>3, <1>4, <1>5, SplitNumberType

(* Chunks with one number are of one packet.                               *)
LEMMA OnePacket ==
  ASSUME SplitInv, NEW c \in AliveChunks, NEW d \in AliveChunks,
         SplitNumber(c.packet) = SplitNumber(d.packet)
  PROVE  c.packet = d.packet /\ c.count = d.count /\ c.reliable = d.reliable
<1>1. /\ c.packet \in Nat /\ d.packet \in Nat /\ splits \in Nat
      /\ c.packet < splits /\ splits <= c.packet + SplitNumbers
      /\ d.packet < splits /\ splits <= d.packet + SplitNumbers
  BY AliveChunkTypes, SplitAssumption DEF SplitInv, SplitTypes, NumbersTaken
<1>2. SplitNumbers \in Nat
  BY SplitAssumption
<1>3. c.packet < d.packet + SplitNumbers /\ d.packet < c.packet + SplitNumbers
  BY <1>1, <1>2
<1>4. c.packet = d.packet
  BY <1>1, <1>3, SplitNumberOnce
<1> QED BY <1>4 DEF SplitInv, Alike

-----------------------------------------------------------------------------
(* insert(): what was collected under the number of a chunk is of its      *)
(* packet; the chunk is known, or is added, or completes the packet.       *)
Had(n) == IF m_buf[n] = NoEntry THEN {} ELSE m_buf[n].chunks

LEMMA HadIsOfPacket ==
  ASSUME SplitInv, NEW c \in AliveChunks
  PROVE  /\ IsFiniteSet(Had(SplitNumber(c.packet))) /\ Had(SplitNumber(c.packet)) \subseteq AliveChunks
         /\ \A d \in Had(SplitNumber(c.packet)) :
              d.packet = c.packet /\ d.count = c.count /\ d.reliable = c.reliable
         /\ SplitNumber(c.packet) \in Incomplete =>
              /\ m_buf[SplitNumber(c.packet)] \in Entry
              /\ m_buf[SplitNumber(c.packet)].count = c.count
              /\ m_buf[SplitNumber(c.packet)].reliable = c.reliable
              /\ Had(SplitNumber(c.packet)) = m_buf[SplitNumber(c.packet)].chunks
              /\ Had(SplitNumber(c.packet)) # {}
         /\ SplitNumber(c.packet) \notin Incomplete =>
              m_buf[SplitNumber(c.packet)] = NoEntry /\ Had(SplitNumber(c.packet)) = {}
<1> DEFINE n == SplitNumber(c.packet)
<1>0. n \in Numbers
  BY AliveChunkTypes DEF SplitInv
<1> HIDE DEF n
<1>1. CASE n \notin Incomplete
  <2>1. m_buf[n] = NoEntry
    BY <1>0, <1>1 DEF Incomplete
  <2>2. Had(n) = {}
    BY <2>1 DEF Had
  <2> QED BY <1>1, <2>1, <2>2, FS_EmptySet DEF n
<1>2. CASE n \in Incomplete
  <2>1. Had(n) = m_buf[n].chunks /\ m_buf[n] \in Entry
    BY <1>2 DEF Had, Incomplete, SplitInv, SplitTypes
  <2>2. IsFiniteSet(Had(n)) /\ Had(n) # {} /\ Had(n) \subseteq AliveChunks
    BY <1>2, <2>1, AliveChunkIs DEF SplitInv, Entries
  <2>3. \A d \in Had(n) : SplitNumber(d.packet) = n /\ d.count = m_buf[n].count
                          /\ d.reliable = m_buf[n].reliable
    BY <1>2, <2>1 DEF SplitInv, Entries
  <2>4. \A d \in Had(n) : d.packet = c.packet /\ d.count = c.count /\ d.reliable = c.reliable
    BY <2>2, <2>3, OnePacket DEF n
  <2>5. m_buf[n].count = c.count /\ m_buf[n].reliable = c.reliable
    BY <2>2, <2>3, <2>4
  <2> QED BY <1>2, <2>1, <2>2, <2>4, <2>5 DEF n
<1> QED BY <1>1, <1>2

Known(c) == \E d \in Had(SplitNumber(c.packet)) : d.num = c.num
Others(n) == \A m \in Numbers \ {n} : m_buf'[m] = m_buf[m]

Adds(c) ==
  /\ m_buf' = [m_buf EXCEPT ![SplitNumber(c.packet)] =
                 [count |-> c.count, reliable |-> c.reliable,
                  chunks |-> Had(SplitNumber(c.packet)) \union {c}]]
  /\ Cardinality(Had(SplitNumber(c.packet)) \union {c}) < c.count
  /\ UNCHANGED <<handed, owed>>

Completes(c) ==
  /\ SplitNumber(c.packet) \in Incomplete
  /\ m_buf' = [m_buf EXCEPT ![SplitNumber(c.packet)] = NoEntry]
  /\ ~(Cardinality(Had(SplitNumber(c.packet)) \union {c}) < c.count)
  /\ handed' = {c.packet}
  /\ owed' = IF c.reliable /\ owed # <<>> /\ c.packet = Head(owed) THEN Tail(owed) ELSE owed

LEMMA Inserts ==
  ASSUME SplitInv, NEW c \in AliveChunks, Collect(c)
  PROVE  \/ Known(c) /\ SplitNumber(c.packet) \in Incomplete /\ UNCHANGED <<m_buf, handed, owed>>
         \/ ~Known(c) /\ Adds(c)
         \/ ~Known(c) /\ Completes(c)
<1> DEFINE n == SplitNumber(c.packet)
           fresh == [count |-> c.count, reliable |-> c.reliable, chunks |-> {}]
           entry == IF m_buf[n] = NoEntry THEN fresh ELSE m_buf[n]
           all == entry.chunks \union {c}
           known == \E d \in entry.chunks : d.num = c.num
<1>1. /\ n \in Numbers /\ m_buf \in [Numbers -> Entry \union {NoEntry}]
      /\ c.count \in Nat /\ c.count >= 2
  BY AliveChunkTypes DEF SplitInv, SplitTypes
<1>2. IF c.count # entry.count \/ known \/ Cardinality(all) < entry.count
      THEN /\ m_buf' = [m_buf EXCEPT ![n] =
                IF c.count # entry.count \/ known THEN entry
                ELSE [entry EXCEPT !.chunks = all]]
           /\ UNCHANGED <<handed, owed>>
      ELSE /\ m_buf' = [m_buf EXCEPT ![n] = NoEntry]
           /\ handed' = {d.packet : d \in all}
           /\ owed' = IF c.reliable /\ owed # <<>> /\ handed' = {Head(owed)}
                      THEN Tail(owed) ELSE owed
  BY DEF Collect
<1>3. /\ entry.chunks = Had(n) /\ entry.count = c.count /\ entry.reliable = c.reliable
      /\ entry = [count |-> c.count, reliable |-> c.reliable, chunks |-> Had(n)]
      /\ n \in Incomplete => entry = m_buf[n]
  <2>1. CASE n \notin Incomplete
    <3>1. entry = fresh /\ Had(n) = {}
      BY <2>1, HadIsOfPacket
    <3> QED BY <2>1, <3>1
  <2>2. CASE n \in Incomplete
    <3>1. /\ entry = m_buf[n] /\ m_buf[n] \in Entry /\ m_buf[n].count = c.count
          /\ m_buf[n].reliable = c.reliable /\ Had(n) = m_buf[n].chunks
      BY <2>2, HadIsOfPacket DEF Incomplete
    <3>2. m_buf[n] = [count |-> c.count, reliable |-> c.reliable, chunks |-> Had(n)]
      BY <3>1 DEF Entry
    <3> QED BY <3>1, <3>2
  <2> QED BY <2>1, <2>2
<1>4. known <=> Known(c)
  BY <1>3 DEF Known
<1>5. all = Had(n) \union {c}
  BY <1>3
<1> HIDE DEF entry, known, all, fresh
<1>6. CASE known
  <2>1. n \in Incomplete
    <3>1. Had(n) # {}
      BY <1>4, <1>6 DEF Known
    <3> QED BY <3>1, HadIsOfPacket
  <2>2. m_buf' = [m_buf EXCEPT ![n] = m_buf[n]] /\ UNCHANGED <<handed, owed>>
    BY <1>2, <1>3, <1>6, <2>1
  <2>3. m_buf' = m_buf
    BY <1>1, <2>2
  <2> QED BY <1>4, <1>6, <2>1, <2>2, <2>3
<1>7. CASE ~known /\ Cardinality(all) < c.count
  <2>1. m_buf' = [m_buf EXCEPT ![n] = [entry EXCEPT !.chunks = all]] /\ UNCHANGED <<handed, owed>>
    BY <1>2, <1>3, <1>7
  <2>2. [entry EXCEPT !.chunks = all] = [count |-> c.count, reliable |-> c.reliable, chunks |-> all]
    BY <1>3
  <2> QED BY <1>4, <1>5, <1>7, <2>1, <2>2 DEF Adds
<1>8. CASE ~known /\ ~(Cardinality(all) < c.count)
  <2>1. /\ m_buf' = [m_buf EXCEPT ![n] = NoEntry] /\ handed' = {d.packet : d \in all}
        /\ owed' = IF c.reliable /\ owed # <<>> /\ handed' = {Head(owed)} THEN Tail(owed) ELSE owed
    BY <1>2, <1>3, <1>8
  <2>2. handed' = {c.packet}
    <3>1. \A d \in all : d.packet = c.packet
      BY <1>5, HadIsOfPacket
    <3>2. c \in all
      BY <1>5
    <3> QED BY <2>1, <3>1, <3>2
  <2>3. handed' = {Head(owed)} <=> c.packet = Head(owed)
    BY <2>2
  <2>4. n \in Incomplete
    <3>1. SUFFICES ASSUME n \notin Incomplete PROVE FALSE
      OBVIOUS
    <3>2. all = {c}
      BY <1>5, <3>1, HadIsOfPacket
    <3>3. Cardinality(all) = 1
      BY <3>2, FS_Singleton
    <3> QED BY <1>1, <1>8, <3>3
  <2> QED BY <1>4, <1>5, <1>8, <2>1, <2>2, <2>3, <2>4 DEF Completes
<1> QED BY <1>6, <1>7, <1>8

(* The entries after a chunk, and what holds of them whichever it was.     *)
Filled(c) == [count |-> c.count, reliable |-> c.reliable,
              chunks |-> Had(SplitNumber(c.packet)) \union {c}]

LEMMA FilledIsEntry ==
  ASSUME SplitInv, NEW c \in AliveChunks
  PROVE  Filled(c) \in Entry /\ Filled(c) # NoEntry
<1>1. Had(SplitNumber(c.packet)) \union {c} \subseteq Chunk
  BY HadIsOfPacket, AliveChunkTypes DEF SplitInv
<1>2. c.count \in ChunkCounts /\ c.reliable \in BOOLEAN
  BY AliveChunkTypes DEF SplitInv
<1>3. Filled(c) \in Entry
  BY <1>1, <1>2 DEF Filled, Entry
<1> QED BY <1>3, SplitAssumption

LEMMA EntriesAfter ==
  ASSUME SplitInv, NEW c \in AliveChunks, Collect(c)
  PROVE  /\ m_buf' \in [Numbers -> Entry \union {NoEntry}]
         /\ \A n \in Numbers \ {SplitNumber(c.packet)} : m_buf'[n] = m_buf[n]
         /\ SplitNumber(c.packet) \in Incomplete' =>
              \/ SplitNumber(c.packet) \in Incomplete
                 /\ m_buf'[SplitNumber(c.packet)] = m_buf[SplitNumber(c.packet)]
              \/ m_buf'[SplitNumber(c.packet)] = Filled(c)
<1> DEFINE n == SplitNumber(c.packet)
<1>1. n \in Numbers /\ m_buf \in [Numbers -> Entry \union {NoEntry}]
  BY AliveChunkTypes DEF SplitInv, SplitTypes
<1>2. Filled(c) \in Entry
  BY FilledIsEntry
<1> HIDE DEF n
<1>3. CASE UNCHANGED m_buf /\ n \in Incomplete
  BY <1>1, <1>3 DEF n
<1>4. CASE m_buf' = [m_buf EXCEPT ![n] = Filled(c)]
  BY <1>1, <1>2, <1>4 DEF n
<1>5. CASE m_buf' = [m_buf EXCEPT ![n] = NoEntry]
  BY <1>1, <1>5 DEF n, Incomplete
<1> QED BY <1>3, <1>4, <1>5, Inserts DEF Adds, Completes, Filled, n

LEMMA CollectKeeps ==
  ASSUME SplitInv, NEW c \in AliveChunks, Collect(c), splits' = splits,
         pipe' \in Seq(Chunk), \A i \in DOMAIN pipe' : \E j \in DOMAIN pipe : pipe'[i] = pipe[j],
         datagrams' \subseteq datagrams
  PROVE  SplitTypes' /\ NumbersTaken' /\ Alike' /\ Channels' /\ Entries'
<1> DEFINE n == SplitNumber(c.packet)
<1>0. n \in Numbers
  BY AliveChunkTypes DEF SplitInv
<1>1. SplitTypes'
  <2>1. m_buf' \in [Numbers -> Entry \union {NoEntry}]
    BY EntriesAfter
  <2>2. owed' \in Seq(Packets)
    <3>1. owed \in Seq(Packets) /\ (owed # <<>> => Tail(owed) \in Seq(Packets))
      BY DEF SplitInv, SplitTypes
    <3> QED BY <3>1, Inserts DEF Adds, Completes
  <2>3. (handed = {} \/ \E packet \in Packets : handed = {packet})'
    <3>1. CASE UNCHANGED handed
      BY <3>1 DEF SplitInv, SplitTypes
    <3>2. CASE handed' = {c.packet}
      BY <3>2, AliveChunkTypes DEF SplitInv
    <3> QED BY <3>1, <3>2, Inserts DEF Adds, Completes
  <2>4. splits' \in 0 .. MaxSplits /\ datagrams' \subseteq Chunk
    BY DEF SplitInv, SplitTypes
  <2> QED BY <2>1, <2>2, <2>3, <2>4 DEF SplitTypes
<1>2. \A m \in Incomplete' : \/ m \in Incomplete /\ m_buf'[m] = m_buf[m]
                             \/ m = n /\ m_buf'[m] = Filled(c)
  <2> SUFFICES ASSUME NEW m \in Incomplete'
               PROVE  \/ m \in Incomplete /\ m_buf'[m] = m_buf[m]
                      \/ m = n /\ m_buf'[m] = Filled(c)
    OBVIOUS
  <2>1. m \in Numbers /\ m_buf'[m] # NoEntry
    BY DEF Incomplete
  <2>2. CASE m = n
    BY <2>2, EntriesAfter
  <2>3. CASE m # n
    BY <2>1, <2>3, EntriesAfter DEF Incomplete
  <2> QED BY <2>2, <2>3
<1>3. Filled(c).chunks \subseteq AliveChunks
  BY HadIsOfPacket DEF Filled
<1>4. \A d \in AliveChunks' : d \in AliveChunks
  <2> SUFFICES ASSUME NEW d, d \in AliveChunks' PROVE d \in AliveChunks
    OBVIOUS
  <2>1. CASE \E i \in DOMAIN pipe' : d = pipe'[i]
    BY <2>1, AliveChunkIs
  <2>2. CASE d \in datagrams'
    BY <2>2, AliveChunkIs
  <2>3. CASE \E m \in Incomplete' : d \in m_buf'[m].chunks
    BY <1>2, <1>3, <2>3, AliveChunkIs
  <2> QED BY <2>1, <2>2, <2>3 DEF AliveChunks
<1>5. NumbersTaken' /\ Alike'
  BY <1>4 DEF NumbersTaken, Alike, SplitInv
<1>6. Channels'
  BY DEF Channels, SplitInv
<1>7. Entries'
  <2> SUFFICES ASSUME NEW m \in Incomplete'
               PROVE  /\ IsFiniteSet(m_buf'[m].chunks) /\ m_buf'[m].chunks # {}
                      /\ \A d \in m_buf'[m].chunks :
                           /\ SplitNumber(d.packet) = m
                           /\ d.count = m_buf'[m].count /\ d.reliable = m_buf'[m].reliable
    BY DEF Entries
  <2>1. CASE m \in Incomplete /\ m_buf'[m] = m_buf[m]
    BY <2>1 DEF Entries, SplitInv
  <2>2. CASE m = n /\ m_buf'[m] = Filled(c)
    <3>1. /\ m_buf'[m].chunks = Had(n) \union {c} /\ m_buf'[m].count = c.count
          /\ m_buf'[m].reliable = c.reliable
      BY <2>2 DEF Filled
    <3>2. IsFiniteSet(Had(n) \union {c})
      BY HadIsOfPacket, FS_AddElement
    <3>3. \A d \in Had(n) \union {c} : d.packet = c.packet /\ d.count = c.count /\ d.reliable = c.reliable
      BY HadIsOfPacket
    <3> QED BY <2>2, <3>1, <3>2, <3>3
  <2> QED BY <1>2, <2>1, <2>2
<1> QED BY <1>1, <1>5, <1>6, <1>7

-----------------------------------------------------------------------------
(* The packet at the front of the channel is the oldest owed.              *)
LEMMA OldestOwed ==
  ASSUME SplitInv, pipe # <<>>
  PROVE  /\ 1 \in DOMAIN pipe /\ 1 \in DOMAIN owed /\ owed # <<>>
         /\ Head(owed) = pipe[1].packet /\ owed[1] = pipe[1].packet
         /\ \A i \in DOMAIN pipe : pipe[1].packet <= pipe[i].packet
<1>1. pipe \in Seq(Chunk) /\ owed \in Seq(Packets) /\ Packets \subseteq Nat
  BY SplitAssumption DEF SplitInv, SplitTypes, Packets
<1>2. DOMAIN pipe = 1 .. Len(pipe) /\ Len(pipe) \in Nat /\ 1 \in DOMAIN pipe
  BY <1>1
<1>3. \A i \in DOMAIN pipe : pipe[i].packet \in Nat
  <2>1. \A i \in DOMAIN pipe : pipe[i] \in AliveChunks
    BY AliveChunkIs
  <2> QED BY <2>1, AliveChunkTypes DEF SplitInv
<1>4. \A i \in DOMAIN pipe : pipe[1].packet <= pipe[i].packet
  <2> SUFFICES ASSUME NEW i \in DOMAIN pipe PROVE pipe[1].packet <= pipe[i].packet
    OBVIOUS
  <2>1. CASE i = 1
    BY <1>3, <2>1
  <2>2. CASE 1 < i
    BY <1>2, <1>3, <2>2 DEF SplitInv, PipeInOrder
  <2> QED BY <1>2, <2>1, <2>2
<1>5. \A j \in DOMAIN owed : \E i \in DOMAIN pipe : owed[j] = pipe[i].packet
  BY DEF SplitInv, OwedInOrder, Range
<1>6. PICK k \in DOMAIN owed : owed[k] = pipe[1].packet
  BY <1>2 DEF SplitInv, OwedInOrder, Range
<1>7. DOMAIN owed = 1 .. Len(owed) /\ Len(owed) \in Nat /\ owed # <<>> /\ 1 \in DOMAIN owed
      /\ Head(owed) = owed[1]
  BY <1>1, <1>6
<1>8. owed[1] \in Nat /\ owed[k] \in Nat
  <2>1. \A j \in DOMAIN owed : owed[j] \in Packets
    BY <1>1
  <2> QED BY <1>1, <1>7, <2>1
<1>9. k = 1
  <2> SUFFICES ASSUME 1 < k PROVE FALSE
    BY <1>7
  <2>1. owed[1] < owed[k]
    BY <1>7 DEF SplitInv, OwedInOrder
  <2>2. PICK i \in DOMAIN pipe : owed[1] = pipe[i].packet
    BY <1>5, <1>7
  <2> QED BY <1>3, <1>4, <1>6, <1>8, <2>1, <2>2
<1> QED BY <1>2, <1>4, <1>6, <1>7, <1>9

-----------------------------------------------------------------------------
(* One lemma for each action.                                              *)

LEMMA SplitUnchanged ==
  ASSUME SplitInv, UNCHANGED splitVars
  PROVE  SplitInv'
BY DEF SplitInv, SplitTypes, AliveChunks, NumbersTaken, Alike, Channels, Entries, PipeInOrder,
       CollectedInOrder, OwedInOrder, Incomplete, splitVars

(* What is only taken away leaves the rest as it was.                      *)
LEMMA SplitLess ==
  ASSUME SplitInv, UNCHANGED <<splits, pipe, handed, owed>>, datagrams' \subseteq datagrams,
         m_buf' \in [Numbers -> Entry \union {NoEntry}],
         \A n \in Numbers : m_buf'[n] = m_buf[n] \/ (m_buf'[n] = NoEntry /\ ~m_buf[n].reliable)
  PROVE  SplitInv'
<1>1. \A n \in Incomplete' : n \in Incomplete /\ m_buf'[n] = m_buf[n]
  BY DEF Incomplete
<1>2. SplitTypes'
  BY DEF SplitInv, SplitTypes
<1>3. \A c \in AliveChunks' : c \in AliveChunks
  BY <1>1 DEF AliveChunks
<1>4. NumbersTaken' /\ Alike'
  BY <1>3 DEF SplitInv, NumbersTaken, Alike
<1>5. Channels' /\ PipeInOrder' /\ OwedInOrder'
  BY DEF SplitInv, Channels, PipeInOrder, OwedInOrder
<1>6. Entries'
  BY <1>1 DEF SplitInv, Entries
<1>7. CollectedInOrder'
  <2>1. \A n \in Incomplete' : m_buf'[n].reliable =>
          /\ pipe' # <<>> /\ Cardinality(m_buf'[n].chunks) = pipe'[1].num
          /\ \A c \in m_buf'[n].chunks : c.packet = pipe'[1].packet /\ c.num < pipe'[1].num
    BY <1>1 DEF SplitInv, CollectedInOrder
  <2>2. ASSUME pipe' # <<>>, pipe'[1].num # 0
        PROVE  SplitNumber(pipe'[1].packet) \in Incomplete'
    <3> DEFINE n == SplitNumber(pipe[1].packet)
    <3>1. n \in Incomplete
      BY <2>2 DEF SplitInv, CollectedInOrder
    <3>2. pipe[1] \in AliveChunks /\ pipe[1].reliable
      BY <2>2, OldestOwed, AliveChunkIs DEF SplitInv, Channels
    <3>3. m_buf[n].reliable
      BY <3>1, <3>2, HadIsOfPacket
    <3> QED BY <3>1, <3>3 DEF Incomplete
  <2> QED BY <2>1, <2>2 DEF CollectedInOrder
<1> QED BY <1>2, <1>4, <1>5, <1>6, <1>7 DEF SplitInv

(* The next number is free, by NumbersOld.                                 *)
LEMMA NumberTaken ==
  ASSUME SplitInv, splits < MaxSplits, NumbersOld, splits' = splits + 1
  PROVE  /\ splits \in Nat /\ splits \in Packets /\ splits' \in 0 .. MaxSplits /\ splits + 1 <= splits + SplitNumbers
         /\ \A c \in AliveChunks : /\ c.packet < splits /\ c.packet < splits + 1
                                   /\ splits + 1 <= c.packet + SplitNumbers
<1>1. splits \in Nat /\ MaxSplits \in Nat /\ SplitNumbers \in Nat \ {0}
  BY SplitAssumption DEF SplitInv, SplitTypes
<1>2. splits \in Packets /\ splits' \in 0 .. MaxSplits /\ splits + 1 <= splits + SplitNumbers
  BY <1>1 DEF Packets
<1>3. ASSUME NEW c \in AliveChunks
      PROVE  /\ c.packet < splits /\ c.packet < splits + 1 /\ splits + 1 <= c.packet + SplitNumbers
  <2>1. c.packet \in Nat /\ c.packet \in Alive
    BY AliveChunkTypes DEF SplitInv
  <2>2. c.packet < splits /\ splits < c.packet + SplitNumbers
    BY <2>1 DEF SplitInv, NumbersTaken, NumbersOld
  <2> QED BY <1>1, <2>1, <2>2
<1> QED BY <1>1, <1>2, <1>3

LEMMA SplitInVainKeeps ==
  ASSUME SplitInv, SplitInVain
  PROVE  SplitInv'
<1>1. UNCHANGED <<pipe, datagrams, m_buf, handed, owed>> /\ splits' = splits + 1
  BY DEF SplitInVain
<1>2. Incomplete' = Incomplete /\ AliveChunks' = AliveChunks
  BY <1>1 DEF Incomplete, AliveChunks
<1>3. NumbersTaken'
  BY <1>1, <1>2, NumberTaken DEF SplitInVain, NumbersTaken
<1>4. SplitTypes'
  BY <1>1, NumberTaken DEF SplitInv, SplitTypes, SplitInVain
<1>5. Alike' /\ Channels' /\ Entries' /\ PipeInOrder' /\ CollectedInOrder' /\ OwedInOrder'
  BY <1>1, <1>2 DEF SplitInv, Alike, Channels, Entries, PipeInOrder, CollectedInOrder, OwedInOrder
<1> QED BY <1>3, <1>4, <1>5 DEF SplitInv

LEMMA LoseChunkKeeps ==
  ASSUME SplitInv, NEW c \in datagrams, LoseChunk(c)
  PROVE  SplitInv'
BY SplitLess DEF LoseChunk, SplitInv, SplitTypes

LEMMA TimeoutKeeps ==
  ASSUME SplitInv, NEW n \in Numbers, removeUnreliableTimedOuts(n)
  PROVE  SplitInv'
<1>1. m_buf \in [Numbers -> Entry \union {NoEntry}]
  BY DEF SplitInv, SplitTypes
<1>2. /\ m_buf' = [m_buf EXCEPT ![n] = NoEntry] /\ UNCHANGED <<splits, pipe, datagrams, handed, owed>>
      /\ ~m_buf[n].reliable
  BY DEF removeUnreliableTimedOuts, MayTimeOut
<1>3. m_buf' \in [Numbers -> Entry \union {NoEntry}]
  BY <1>1, <1>2
<1>4. \A m \in Numbers : m_buf'[m] = m_buf[m] \/ (m_buf'[m] = NoEntry /\ ~m_buf[m].reliable)
  BY <1>1, <1>2
<1> QED BY <1>2, <1>3, <1>4, SplitLess

(* Unreliable chunks touch no entry of a reliable packet.                  *)
LEMMA ReceiveChunkKeeps ==
  ASSUME SplitInv, NEW c \in datagrams, ReceiveChunk(c)
  PROVE  SplitInv'
<1> DEFINE n == SplitNumber(c.packet)
<1>1. c \in AliveChunks /\ ~c.reliable /\ Collect(c) /\ UNCHANGED <<splits, pipe>>
      /\ datagrams' \subseteq datagrams
  BY AliveChunkIs DEF ReceiveChunk, SplitInv, Channels
<1>2. SplitTypes' /\ NumbersTaken' /\ Alike' /\ Channels' /\ Entries'
  BY <1>1, CollectKeeps DEF SplitInv, SplitTypes
<1>3. UNCHANGED owed
  BY <1>1, Inserts DEF Adds, Completes
<1>4. PipeInOrder' /\ OwedInOrder'
  BY <1>1, <1>3 DEF SplitInv, PipeInOrder, OwedInOrder
<1>5. \A m \in Incomplete' : m_buf'[m].reliable => m \in Incomplete /\ m_buf'[m] = m_buf[m]
  <2> SUFFICES ASSUME NEW m \in Incomplete', m_buf'[m].reliable
               PROVE  m \in Incomplete /\ m_buf'[m] = m_buf[m]
    OBVIOUS
  <2>1. CASE m # n
    BY <1>1, <2>1, EntriesAfter DEF Incomplete
  <2>2. CASE m = n
    <3>1. Filled(c).reliable = c.reliable
      BY DEF Filled
    <3> QED BY <1>1, <2>2, <3>1, EntriesAfter
  <2> QED BY <2>1, <2>2
<1>6. ASSUME pipe' # <<>>, pipe'[1].num # 0
      PROVE  SplitNumber(pipe'[1].packet) \in Incomplete'
  <2> DEFINE m == SplitNumber(pipe[1].packet)
  <2>1. m \in Incomplete /\ m \in Numbers
    BY <1>1, <1>6 DEF SplitInv, CollectedInOrder, Incomplete
  <2>2. pipe[1] \in AliveChunks /\ pipe[1].reliable
    BY <1>1, <1>6, OldestOwed, AliveChunkIs DEF SplitInv, Channels
  <2>3. m # n
    BY <1>1, <2>2, OnePacket
  <2>4. m_buf'[m] = m_buf[m]
    BY <1>1, <2>1, <2>3, EntriesAfter
  <2> QED BY <1>1, <2>1, <2>4 DEF Incomplete
<1>7. CollectedInOrder'
  BY <1>1, <1>5, <1>6 DEF SplitInv, CollectedInOrder
<1> QED BY <1>2, <1>4, <1>7 DEF SplitInv

-----------------------------------------------------------------------------
(* A new packet.                                                           *)
Cut(reliable, count, i) ==
  [packet |-> splits, num |-> i, count |-> count, reliable |-> reliable]

LEMMA CutChunk ==
  ASSUME SplitInv, NEW reliable \in BOOLEAN, NEW count \in ChunkCounts, NEW i \in Nat,
         splits \in Packets
  PROVE  Cut(reliable, count, i) \in Chunk
BY DEF Cut, Chunk

(* What a new packet leaves as it was, whichever way it goes.              *)
LEMMA SplitMore ==
  ASSUME SplitInv, splits < MaxSplits, NumbersOld, splits' = splits + 1,
         UNCHANGED <<m_buf, handed>>, NEW reliable, NEW count,
         pipe' \in Seq(Chunk), datagrams' \subseteq Chunk, owed' \in Seq(Packets),
         \A c \in AliveChunks' :
           c \in AliveChunks \/ (c.packet = splits /\ c.count = count /\ c.reliable = reliable)
  PROVE  SplitTypes' /\ NumbersTaken' /\ Alike' /\ Entries'
<1>1. SplitTypes'
  BY NumberTaken DEF SplitInv, SplitTypes
<1>2. NumbersTaken'
  BY NumberTaken DEF NumbersTaken
<1>3. Alike'
  <2> SUFFICES ASSUME NEW c \in AliveChunks', NEW d \in AliveChunks', c.packet = d.packet
               PROVE  c.count = d.count /\ c.reliable = d.reliable
    BY DEF Alike
  <2>1. \A e \in AliveChunks : e.packet # splits
    <3>1. ASSUME NEW e \in AliveChunks PROVE e.packet # splits
      <4>1. e.packet < splits /\ e.packet \in Nat /\ splits \in Nat
        BY NumberTaken, AliveChunkTypes DEF SplitInv
      <4> QED BY <4>1
    <3> QED BY <3>1
  <2>2. CASE c \in AliveChunks /\ d \in AliveChunks
    BY <2>2 DEF SplitInv, Alike
  <2>3. CASE ~(c \in AliveChunks /\ d \in AliveChunks)
    BY <2>1, <2>3
  <2> QED BY <2>2, <2>3
<1>4. Entries'
  BY DEF SplitInv, Entries, Incomplete
<1> QED BY <1>1, <1>2, <1>3, <1>4

LEMMA SplitUnreliable ==
  ASSUME SplitInv, NEW count \in ChunkCounts, SplitPacket(FALSE, count)
  PROVE  SplitInv'
<1> DEFINE new == {Cut(FALSE, count, i) : i \in 0 .. count - 1}
<1>1. /\ splits < MaxSplits /\ NumbersOld /\ splits' = splits + 1
      /\ datagrams' = datagrams \union new /\ UNCHANGED <<pipe, owed, m_buf, handed>>
  BY DEF SplitPacket, Cut
<1>2. \A c \in new : c.packet = splits /\ c.count = count /\ c.reliable = FALSE
  BY DEF Cut
<1>3. new \subseteq Chunk
  <2>1. \A i \in 0 .. count - 1 : i \in Nat
    OBVIOUS
  <2> QED BY <1>1, <2>1, CutChunk, NumberTaken
<1> HIDE DEF new
<1>4. Incomplete' = Incomplete
  BY <1>1 DEF Incomplete
<1>5. \A c \in AliveChunks' :
        c \in AliveChunks \/ (c.packet = splits /\ c.count = count /\ c.reliable = FALSE)
  BY <1>1, <1>2, <1>4 DEF AliveChunks
<1>6. SplitTypes' /\ NumbersTaken' /\ Alike' /\ Entries'
  BY <1>1, <1>3, <1>5, SplitMore DEF SplitInv, SplitTypes
<1>7. Channels' /\ PipeInOrder' /\ OwedInOrder'
  BY <1>1, <1>2 DEF SplitInv, Channels, PipeInOrder, OwedInOrder
<1>8. CollectedInOrder'
  BY <1>1, <1>4 DEF SplitInv, CollectedInOrder
<1> QED BY <1>6, <1>7, <1>8 DEF SplitInv

LEMMA SplitReliable ==
  ASSUME SplitInv, NEW count \in ChunkCounts, SplitPacket(TRUE, count)
  PROVE  SplitInv'
<1> DEFINE new == [i \in 1 .. count |-> Cut(TRUE, count, i - 1)]
           m == Len(pipe)
<1>1. /\ splits < MaxSplits /\ NumbersOld /\ splits' = splits + 1
      /\ pipe' = pipe \o new /\ owed' = Append(owed, splits)
      /\ UNCHANGED <<datagrams, m_buf, handed>>
  BY DEF SplitPacket, Cut
<1>2. count \in Nat /\ count >= 2 /\ splits \in Packets /\ splits \in Nat
  <2>1. \A n \in Nat \ {0, 1} : n >= 2
    OBVIOUS
  <2>2. count \in Nat \ {0, 1}
    BY SplitAssumption
  <2> QED BY <1>1, <2>1, <2>2, NumberTaken
<1>3. new \in Seq(Chunk) /\ Len(new) = count
  <2>1. \A i \in 1 .. count : new[i] \in Chunk
    <3>1. \A i \in 1 .. count : i - 1 \in Nat
      BY <1>2
    <3> QED BY <1>2, <3>1, CutChunk
  <2>2. new \in [1 .. count -> Chunk]
    BY <2>1
  <2> HIDE DEF new
  <2> QED BY <1>2, <2>2
<1>4. \A i \in 1 .. count : /\ new[i].packet = splits /\ new[i].num = i - 1 /\ new[i].count = count
                            /\ new[i].reliable
  BY DEF Cut
<1> HIDE DEF new
<1>5. pipe \in Seq(Chunk) /\ m \in Nat /\ DOMAIN pipe = 1 .. m
  BY DEF SplitInv, SplitTypes
<1>6. /\ pipe' \in Seq(Chunk) /\ Len(pipe') = m + count
      /\ \A i \in 1 .. m + count : pipe'[i] = IF i <= m THEN pipe[i] ELSE new[i - m]
  BY <1>1, <1>3, <1>5, ConcatProperties
<1> HIDE DEF m
<1>7. /\ DOMAIN pipe' = 1 .. m + count
      /\ \A i \in 1 .. m : i \in DOMAIN pipe' /\ pipe'[i] = pipe[i]
      /\ \A i \in 1 .. count : i + m \in DOMAIN pipe' /\ pipe'[i + m] = new[i]
      /\ \A i \in DOMAIN pipe' : i \in 1 .. m \/ \E j \in 1 .. count : i = j + m
  <2>1. DOMAIN pipe' = 1 .. m + count
    BY <1>6
  <2>2. ASSUME NEW i \in 1 .. m PROVE i \in 1 .. m + count /\ pipe'[i] = pipe[i]
    BY <1>2, <1>5, <1>6
  <2>3. ASSUME NEW i \in 1 .. count PROVE i + m \in 1 .. m + count /\ pipe'[i + m] = new[i]
    <3>1. i + m \in 1 .. m + count /\ ~(i + m <= m) /\ (i + m) - m = i
      BY <1>2, <1>5
    <3> QED BY <1>6, <3>1
  <2>4. ASSUME NEW i \in 1 .. m + count PROVE i \in 1 .. m \/ \E j \in 1 .. count : i = j + m
    <3>1. CASE i <= m
      BY <1>5, <3>1
    <3>2. CASE ~(i <= m)
      <4>1. i - m \in 1 .. count /\ i = (i - m) + m
        BY <1>2, <1>5, <3>2
      <4> QED BY <4>1
    <3> QED BY <3>1, <3>2
  <2> QED BY <2>1, <2>2, <2>3, <2>4
<1>8. Incomplete' = Incomplete
  BY <1>1 DEF Incomplete
<1>9. \A c \in AliveChunks' :
        c \in AliveChunks \/ (c.packet = splits /\ c.count = count /\ c.reliable = TRUE)
  <2> SUFFICES ASSUME NEW c, c \in AliveChunks'
               PROVE  c \in AliveChunks \/ (c.packet = splits /\ c.count = count /\ c.reliable = TRUE)
    OBVIOUS
  <2>1. CASE \E i \in DOMAIN pipe' : c = pipe'[i]
    BY <1>4, <1>5, <1>7, <2>1, AliveChunkIs
  <2>2. CASE c \in datagrams
    BY <2>2, AliveChunkIs
  <2>3. CASE \E n \in Incomplete : c \in m_buf[n].chunks
    BY <2>3, AliveChunkIs
  <2> QED BY <1>1, <1>8, <2>1, <2>2, <2>3 DEF AliveChunks
<1>10. owed' \in Seq(Packets) /\ Range(owed') = Range(owed) \union {splits}
  BY <1>1, <1>2, AppendRange DEF SplitInv, SplitTypes
<1>11. SplitTypes' /\ NumbersTaken' /\ Alike' /\ Entries'
  BY <1>1, <1>6, <1>9, <1>10, SplitMore DEF SplitInv, SplitTypes
<1>12. \A i \in 1 .. m : pipe[i].packet \in Nat /\ pipe[i].packet < splits
  <2>1. \A i \in 1 .. m : pipe[i] \in AliveChunks
    BY <1>5, AliveChunkIs
  <2> QED BY <1>1, <2>1, NumberTaken, AliveChunkTypes DEF SplitInv
<1>13. Channels'
  <2>1. \A i \in DOMAIN pipe' : pipe'[i].reliable /\ pipe'[i].num < pipe'[i].count
    <3> SUFFICES ASSUME NEW i \in DOMAIN pipe' PROVE pipe'[i].reliable /\ pipe'[i].num < pipe'[i].count
      OBVIOUS
    <3>1. CASE i \in 1 .. m
      BY <1>5, <1>7, <3>1 DEF SplitInv, Channels
    <3>2. CASE \E j \in 1 .. count : i = j + m
      <4>1. PICK j \in 1 .. count : i = j + m
        BY <3>2
      <4>2. pipe'[i].num = j - 1 /\ pipe'[i].count = count /\ pipe'[i].reliable
        BY <1>4, <1>7, <4>1
      <4> QED BY <1>2, <4>2
    <3> QED BY <1>7, <3>1, <3>2
  <2> QED BY <1>1, <2>1 DEF SplitInv, Channels
<1>14. PipeInOrder'
  <2>1. ASSUME NEW i \in DOMAIN pipe', NEW j \in DOMAIN pipe', i < j
        PROVE  \/ pipe'[i].packet < pipe'[j].packet
               \/ (pipe'[i].packet = pipe'[j].packet /\ pipe'[j].num = pipe'[i].num + (j - i))
    <3>1. CASE i \in 1 .. m /\ j \in 1 .. m
      BY <1>5, <1>7, <2>1, <3>1 DEF SplitInv, PipeInOrder
    <3>2. CASE i \in 1 .. m /\ \E k \in 1 .. count : j = k + m
      BY <1>4, <1>7, <1>12, <3>2
    <3>3. CASE (\E k \in 1 .. count : i = k + m) /\ (\E k \in 1 .. count : j = k + m)
      <4>1. PICK k \in 1 .. count : i = k + m
        BY <3>3
      <4>2. PICK l \in 1 .. count : j = l + m
        BY <3>3
      <4>3. pipe'[i].num = k - 1 /\ pipe'[j].num = l - 1 /\ pipe'[i].packet = pipe'[j].packet
        BY <1>4, <1>7, <4>1, <4>2
      <4>4. l - 1 = (k - 1) + (j - i)
        BY <1>2, <1>5, <4>1, <4>2
      <4> QED BY <4>3, <4>4
    <3>4. CASE (\E k \in 1 .. count : i = k + m) /\ j \in 1 .. m
      BY <1>2, <1>5, <2>1, <3>4
    <3> QED BY <1>7, <3>1, <3>2, <3>3, <3>4
  <2>2. ASSUME NEW i \in DOMAIN pipe'
        PROVE  /\ pipe'[i].num + 1 < pipe'[i].count =>
                    i + 1 \in DOMAIN pipe' /\ pipe'[i + 1].packet = pipe'[i].packet
               /\ i # 1 => (pipe'[i].num = 0 \/ pipe'[i - 1].packet = pipe'[i].packet)
    <3>1. CASE i \in 1 .. m
      <4>1. i # 1 => i - 1 \in 1 .. m
        BY <1>5, <3>1
      <4>2. /\ pipe[i].num + 1 < pipe[i].count => i + 1 \in 1 .. m /\ pipe[i + 1].packet = pipe[i].packet
            /\ i # 1 => (pipe[i].num = 0 \/ pipe[i - 1].packet = pipe[i].packet)
        BY <1>5, <3>1 DEF SplitInv, PipeInOrder
      <4> QED BY <1>7, <3>1, <4>1, <4>2
    <3>2. CASE \E k \in 1 .. count : i = k + m
      <4>1. PICK k \in 1 .. count : i = k + m
        BY <3>2
      <4>2. pipe'[i].num = k - 1 /\ pipe'[i].count = count /\ pipe'[i].packet = splits
        BY <1>4, <1>7, <4>1
      <4>3. ASSUME k < count PROVE i + 1 \in DOMAIN pipe' /\ pipe'[i + 1].packet = splits
        <5>1. k + 1 \in 1 .. count /\ i + 1 = (k + 1) + m
          BY <1>2, <1>5, <4>1, <4>3
        <5> QED BY <1>4, <1>7, <5>1
      <4>4. ASSUME k # 1 PROVE pipe'[i - 1].packet = splits
        <5>1. k - 1 \in 1 .. count /\ i - 1 = (k - 1) + m
          BY <1>2, <1>5, <4>1, <4>4
        <5> QED BY <1>4, <1>7, <5>1
      <4>5. (k - 1) + 1 < count => k < count
        BY <1>2
      <4>6. k = 1 => k - 1 = 0
        OBVIOUS
      <4> QED BY <4>2, <4>3, <4>4, <4>5, <4>6
    <3> QED BY <1>7, <3>1, <3>2
  <2> QED BY <2>1, <2>2 DEF PipeInOrder
<1>15. CollectedInOrder'
  <2>1. CASE pipe = <<>>
    <3>1. m = 0
      BY <2>1 DEF m
    <3>2. pipe'[1].num = 0
      <4>1. 1 \in 1 .. count /\ 1 + m = 1
        BY <1>2, <3>1
      <4>2. pipe'[1 + m] = new[1] /\ new[1].num = 1 - 1
        BY <1>4, <1>7, <4>1
      <4> QED BY <4>1, <4>2
    <3>3. \A n \in Incomplete : ~m_buf[n].reliable
      BY <2>1 DEF SplitInv, CollectedInOrder
    <3> QED BY <1>1, <1>8, <3>2, <3>3 DEF CollectedInOrder
  <2>2. CASE pipe # <<>>
    <3>1. 1 \in 1 .. m
      BY <1>5, <2>2, OldestOwed
    <3>2. pipe'[1] = pipe[1] /\ 1 \in DOMAIN pipe'
      BY <1>7, <3>1
    <3>3. pipe' # <<>>
      BY <3>2
    <3> QED BY <1>1, <1>8, <2>2, <3>2, <3>3 DEF SplitInv, CollectedInOrder
  <2> QED BY <2>1, <2>2
<1>16. OwedInOrder'
  <2>1. Range(owed') = {pipe'[i].packet : i \in DOMAIN pipe'}
    <3>1. {pipe'[i].packet : i \in DOMAIN pipe'} = {pipe[i].packet : i \in 1 .. m} \union {splits}
      <4>1. 1 \in 1 .. count
        BY <1>2
      <4> QED BY <1>4, <1>7, <4>1
    <3> QED BY <1>5, <1>10, <3>1 DEF SplitInv, OwedInOrder
  <2>2. ASSUME NEW i \in DOMAIN owed', NEW j \in DOMAIN owed', i < j PROVE owed'[i] < owed'[j]
    <3>1. /\ owed \in Seq(Packets) /\ Len(owed) \in Nat /\ DOMAIN owed = 1 .. Len(owed)
          /\ DOMAIN owed' = 1 .. Len(owed) + 1 /\ owed'[Len(owed) + 1] = splits
          /\ \A k \in 1 .. Len(owed) : owed'[k] = owed[k]
      BY <1>1, <1>2, AppendProperties DEF SplitInv, SplitTypes
    <3>2. \A k \in 1 .. Len(owed) : owed[k] < splits
      <4> SUFFICES ASSUME NEW k \in 1 .. Len(owed) PROVE owed[k] < splits
        OBVIOUS
      <4>1. owed[k] \in Range(owed)
        BY <3>1 DEF Range
      <4>2. PICK l \in 1 .. m : owed[k] = pipe[l].packet
        BY <1>5, <4>1 DEF SplitInv, OwedInOrder
      <4> QED BY <1>12, <4>2
    <3>3. CASE j = Len(owed) + 1
      <4>1. i \in 1 .. Len(owed)
        BY <2>2, <3>1, <3>3
      <4> QED BY <3>1, <3>2, <3>3, <4>1
    <3>4. CASE j # Len(owed) + 1
      <4>1. i \in 1 .. Len(owed) /\ j \in 1 .. Len(owed)
        BY <2>2, <3>1, <3>4
      <4> QED BY <2>2, <3>1, <4>1 DEF SplitInv, OwedInOrder
    <3> QED BY <3>3, <3>4
  <2> QED BY <2>1, <2>2 DEF OwedInOrder
<1> QED BY <1>11, <1>13, <1>14, <1>15, <1>16 DEF SplitInv

-----------------------------------------------------------------------------
(* The next chunk of the reliable channel.                                 *)
LEMMA TailOfPipe ==
  ASSUME SplitInv, pipe # <<>>, pipe' = Tail(pipe)
  PROVE  /\ pipe' \in Seq(Chunk)
         /\ \A i \in DOMAIN pipe' : i \in Nat /\ i + 1 \in DOMAIN pipe /\ i + 1 # 1
                                    /\ pipe'[i] = pipe[i + 1]
         /\ \A i \in DOMAIN pipe : i \in Nat /\ (i # 1 => i - 1 \in DOMAIN pipe' /\ pipe'[i - 1] = pipe[i])
         /\ pipe' # <<>> <=> 2 \in DOMAIN pipe
         /\ pipe' # <<>> => 1 \in DOMAIN pipe' /\ pipe'[1] = pipe[2]
<1>1. pipe \in Seq(Chunk) /\ Len(pipe) \in Nat /\ Len(pipe) # 0 /\ DOMAIN pipe = 1 .. Len(pipe)
  BY DEF SplitInv, SplitTypes
<1>2. /\ pipe' \in Seq(Chunk) /\ DOMAIN pipe' = 1 .. Len(pipe) - 1
      /\ \A i \in 1 .. Len(pipe) - 1 : pipe'[i] = pipe[i + 1]
  BY <1>1
<1>3. pipe' # <<>> <=> 1 \in DOMAIN pipe'
  BY <1>2
<1>4. 1 \in DOMAIN pipe' <=> 2 \in DOMAIN pipe
  BY <1>1, <1>2
<1>5. 1 \in DOMAIN pipe' => pipe'[1] = pipe[2]
  BY <1>2
<1>6. \A i \in DOMAIN pipe' : i \in Nat /\ i + 1 \in DOMAIN pipe /\ i + 1 # 1 /\ pipe'[i] = pipe[i + 1]
  BY <1>1, <1>2
<1>7. \A i \in DOMAIN pipe : i \in Nat /\ (i # 1 => i - 1 \in DOMAIN pipe' /\ pipe'[i - 1] = pipe[i])
  <2> SUFFICES ASSUME NEW i \in DOMAIN pipe, i # 1 PROVE i - 1 \in DOMAIN pipe' /\ pipe'[i - 1] = pipe[i]
    BY <1>1
  <2>1. i - 1 \in 1 .. Len(pipe) - 1 /\ (i - 1) + 1 = i
    BY <1>1
  <2> QED BY <1>2, <2>1
<1> QED BY <1>2, <1>3, <1>4, <1>5, <1>6, <1>7

LEMMA TailInOrder ==
  ASSUME SplitInv, pipe # <<>>, pipe' = Tail(pipe)
  PROVE  PipeInOrder'
<1>1. ASSUME NEW i \in DOMAIN pipe', NEW j \in DOMAIN pipe', i < j
      PROVE  \/ pipe'[i].packet < pipe'[j].packet
             \/ (pipe'[i].packet = pipe'[j].packet /\ pipe'[j].num = pipe'[i].num + (j - i))
  <2>1. /\ i \in Nat /\ j \in Nat /\ i + 1 \in DOMAIN pipe /\ j + 1 \in DOMAIN pipe
        /\ pipe'[i] = pipe[i + 1] /\ pipe'[j] = pipe[j + 1]
    BY TailOfPipe
  <2>2. i + 1 < j + 1 /\ (j + 1) - (i + 1) = j - i
    BY <1>1, <2>1
  <2> QED BY <2>1, <2>2 DEF SplitInv, PipeInOrder
<1>2. ASSUME NEW i \in DOMAIN pipe'
      PROVE  /\ pipe'[i].num + 1 < pipe'[i].count =>
                  i + 1 \in DOMAIN pipe' /\ pipe'[i + 1].packet = pipe'[i].packet
             /\ i # 1 => (pipe'[i].num = 0 \/ pipe'[i - 1].packet = pipe'[i].packet)
  <2>1. i \in Nat /\ i + 1 \in DOMAIN pipe /\ i + 1 # 1 /\ pipe'[i] = pipe[i + 1]
    BY TailOfPipe
  <2>2. ASSUME pipe'[i].num + 1 < pipe'[i].count
        PROVE  i + 1 \in DOMAIN pipe' /\ pipe'[i + 1].packet = pipe'[i].packet
    <3>1. (i + 1) + 1 \in DOMAIN pipe /\ pipe[(i + 1) + 1].packet = pipe[i + 1].packet
      BY <2>1, <2>2 DEF SplitInv, PipeInOrder
    <3>2. (i + 1) + 1 # 1 /\ ((i + 1) + 1) - 1 = i + 1
      BY <2>1
    <3> QED BY <2>1, <3>1, <3>2, TailOfPipe
  <2>3. ASSUME i # 1 PROVE pipe'[i].num = 0 \/ pipe'[i - 1].packet = pipe'[i].packet
    <3>1. pipe[i + 1].num = 0 \/ pipe[(i + 1) - 1].packet = pipe[i + 1].packet
      BY <2>1 DEF SplitInv, PipeInOrder
    <3>2. (i + 1) - 1 = i
      BY <2>1
    <3>3. i \in DOMAIN pipe
      <4>1. DOMAIN pipe = 1 .. Len(pipe) /\ DOMAIN pipe' = 1 .. Len(pipe')
        BY TailOfPipe DEF SplitInv, SplitTypes
      <4>2. Len(pipe) \in Nat /\ Len(pipe') \in Nat
        BY TailOfPipe DEF SplitInv, SplitTypes
      <4> QED BY <2>1, <4>1, <4>2
    <3>4. pipe'[i - 1] = pipe[i]
      BY <2>3, <3>3, TailOfPipe
    <3> QED BY <2>1, <3>1, <3>2, <3>4
  <2> QED BY <2>2, <2>3
<1> QED BY <1>1, <1>2 DEF PipeInOrder

LEMMA PipeChunks ==
  ASSUME SplitInv, NEW i \in DOMAIN pipe
  PROVE  /\ pipe[i] \in AliveChunks /\ pipe[i].packet \in Nat /\ pipe[i].num \in Nat
         /\ pipe[i].count \in Nat /\ pipe[i].count >= 2
         /\ pipe[i].num < pipe[i].count /\ pipe[i].reliable
BY AliveChunkIs, AliveChunkTypes DEF SplitInv, Channels

(* What follows a chunk in the channel.                                    *)
LEMMA ChunkAfter ==
  ASSUME SplitInv, pipe # <<>>
  PROVE  /\ pipe[1].num + 1 < pipe[1].count =>
              2 \in DOMAIN pipe /\ pipe[2].packet = pipe[1].packet /\ pipe[2].num = pipe[1].num + 1
         /\ ~(pipe[1].num + 1 < pipe[1].count) =>
              /\ pipe[1].num + 1 = pipe[1].count
              /\ \A i \in DOMAIN pipe : i # 1 => pipe[1].packet < pipe[i].packet
              /\ 2 \in DOMAIN pipe => pipe[2].num = 0
<1>1. 1 \in DOMAIN pipe /\ pipe \in Seq(Chunk) /\ DOMAIN pipe = 1 .. Len(pipe) /\ Len(pipe) \in Nat
  BY OldestOwed DEF SplitInv, SplitTypes
<1>2. /\ pipe[1].num \in Nat /\ pipe[1].count \in Nat /\ pipe[1].num < pipe[1].count
      /\ pipe[1].packet \in Nat
  BY <1>1, PipeChunks
<1>3. ASSUME pipe[1].num + 1 < pipe[1].count
      PROVE  2 \in DOMAIN pipe /\ pipe[2].packet = pipe[1].packet /\ pipe[2].num = pipe[1].num + 1
  <2>1. 1 + 1 \in DOMAIN pipe /\ pipe[1 + 1].packet = pipe[1].packet
    BY <1>1, <1>3 DEF SplitInv, PipeInOrder
  <2>2. 1 + 1 = 2 /\ 1 < 2 /\ 2 - 1 = 1
    OBVIOUS
  <2>3. 2 \in DOMAIN pipe /\ pipe[2].packet = pipe[1].packet
    BY <2>1, <2>2
  <2>4. pipe[1].packet < pipe[2].packet
        \/ (pipe[1].packet = pipe[2].packet /\ pipe[2].num = pipe[1].num + (2 - 1))
    BY <1>1, <2>2, <2>3 DEF SplitInv, PipeInOrder
  <2> QED BY <1>2, <2>2, <2>3, <2>4
<1>4. ASSUME ~(pipe[1].num + 1 < pipe[1].count)
      PROVE  /\ pipe[1].num + 1 = pipe[1].count
             /\ \A i \in DOMAIN pipe : i # 1 => pipe[1].packet < pipe[i].packet
             /\ 2 \in DOMAIN pipe => pipe[2].num = 0
  <2>1. pipe[1].num + 1 = pipe[1].count
    BY <1>2, <1>4
  <2>2. ASSUME NEW i \in DOMAIN pipe, i # 1 PROVE pipe[1].packet < pipe[i].packet
    <3>1. 1 < i /\ i \in Nat
      BY <1>1, <2>2
    <3>2. pipe[1].packet < pipe[i].packet
          \/ (pipe[1].packet = pipe[i].packet /\ pipe[i].num = pipe[1].num + (i - 1))
      BY <1>1, <3>1 DEF SplitInv, PipeInOrder
    <3>3. SUFFICES ASSUME pipe[1].packet = pipe[i].packet, pipe[i].num = pipe[1].num + (i - 1)
                   PROVE  FALSE
      BY <3>2
    <3>4. pipe[i].count = pipe[1].count
      BY <1>1, <3>3, PipeChunks DEF SplitInv, Alike
    <3>5. pipe[i].num < pipe[i].count
      BY PipeChunks
    <3> QED BY <1>2, <2>1, <3>1, <3>3, <3>4, <3>5
  <2>3. ASSUME 2 \in DOMAIN pipe PROVE pipe[2].num = 0
    <3>1. 2 # 1 /\ 2 - 1 = 1
      OBVIOUS
    <3>2. pipe[2].num = 0 \/ pipe[2 - 1].packet = pipe[2].packet
      BY <2>3, <3>1 DEF SplitInv, PipeInOrder
    <3>3. pipe[1].packet < pipe[2].packet /\ pipe[2].packet \in Nat
      BY <2>2, <2>3, <3>1, PipeChunks
    <3> QED BY <1>2, <3>1, <3>2, <3>3
  <2> QED BY <2>1, <2>2, <2>3
<1> QED BY <1>3, <1>4

LEMMA ReceiveReliableKeeps ==
  ASSUME SplitInv, ReceiveReliableChunk
  PROVE  SplitInv'
<1> DEFINE c == pipe[1]
           n == SplitNumber(c.packet)
           all == Had(n) \union {c}
<1>1. /\ pipe # <<>> /\ 1 \in DOMAIN pipe /\ c \in AliveChunks /\ c.reliable /\ Collect(c)
      /\ c.num \in Nat /\ c.packet \in Nat /\ c.count \in Nat /\ c.num < c.count
      /\ pipe' = Tail(pipe) /\ UNCHANGED <<splits, datagrams>>
  <2>1. pipe # <<>> /\ pipe' = Tail(pipe) /\ Collect(Head(pipe)) /\ UNCHANGED <<splits, datagrams>>
    BY DEF ReceiveReliableChunk
  <2>2. Head(pipe) = c
    BY <2>1 DEF SplitInv, SplitTypes
  <2> QED BY <2>1, <2>2, OldestOwed, PipeChunks
<1> HIDE DEF c
<1>2. pipe' \in Seq(Chunk) /\ PipeInOrder'
  BY <1>1, TailOfPipe, TailInOrder
<1>3. SplitTypes' /\ NumbersTaken' /\ Alike' /\ Channels' /\ Entries'
  <2>1. \A i \in DOMAIN pipe' : \E j \in DOMAIN pipe : pipe'[i] = pipe[j]
    BY <1>1, TailOfPipe
  <2> QED BY <1>1, <1>2, <2>1, CollectKeeps
<1>4. \A m \in Incomplete : m_buf[m].reliable => m = n
  <2> SUFFICES ASSUME NEW m \in Incomplete, m_buf[m].reliable PROVE m = n
    OBVIOUS
  <2>1. PICK d \in m_buf[m].chunks : SplitNumber(d.packet) = m
    BY DEF SplitInv, Entries
  <2>2. d.packet = c.packet
    BY DEF c, SplitInv, CollectedInOrder
  <2> QED BY <2>1, <2>2
<1>5. IsFiniteSet(Had(n)) /\ Cardinality(Had(n)) = c.num /\ \A d \in Had(n) : d.num < c.num
  <2>1. CASE n \in Incomplete
    <3>1. m_buf[n].reliable /\ Had(n) = m_buf[n].chunks /\ IsFiniteSet(Had(n))
      BY <1>1, <2>1, HadIsOfPacket
    <3> QED BY <2>1, <3>1 DEF c, SplitInv, CollectedInOrder
  <2>2. CASE n \notin Incomplete
    <3>1. Had(n) = {} /\ IsFiniteSet(Had(n)) /\ Cardinality({}) = 0
      BY <1>1, <2>2, HadIsOfPacket, FS_EmptySet
    <3>2. c.num = 0
      BY <1>1, <2>2 DEF c, SplitInv, CollectedInOrder
    <3> QED BY <3>1, <3>2
  <2> QED BY <2>1, <2>2
<1>6. ~Known(c) /\ c \notin Had(n)
  <2>1. ~(c.num < c.num)
    BY <1>1
  <2>2. \A d \in Had(n) : d.num # c.num
    BY <1>5, <2>1
  <2> QED BY <2>2 DEF Known
<1>7. Cardinality(all) = c.num + 1 /\ \A d \in all : d.num < c.num + 1
  <2>1. \A d \in Had(n) : d.num \in Nat
    BY <1>1, HadIsOfPacket, AliveChunkTypes DEF SplitInv
  <2>2. Cardinality(all) = Cardinality(Had(n)) + 1
    BY <1>5, <1>6, FS_AddElement
  <2>3. \A d \in Had(n) : d.num < c.num + 1
    BY <1>1, <1>5, <2>1
  <2>4. c.num < c.num + 1
    BY <1>1
  <2> QED BY <1>5, <2>2, <2>3, <2>4
<1>8. n \in Numbers /\ m_buf \in [Numbers -> Entry \union {NoEntry}]
  BY <1>1, AliveChunkTypes DEF SplitInv, SplitTypes
<1>9. \A m \in Incomplete' : m_buf'[m].reliable => m = n
  <2> SUFFICES ASSUME NEW m \in Incomplete', m_buf'[m].reliable, m # n PROVE FALSE
    OBVIOUS
  <2>1. m \in Incomplete /\ m_buf[m].reliable
    BY <1>1, EntriesAfter DEF Incomplete
  <2> QED BY <1>4, <2>1
<1>10. CASE c.num + 1 < c.count
  <2>1. Adds(c)
    BY <1>1, <1>6, <1>7, <1>10, Inserts DEF Completes
  <2>2. m_buf'[n] = Filled(c) /\ n \in Incomplete' /\ UNCHANGED owed
    <3>1. m_buf' = [m_buf EXCEPT ![n] = Filled(c)] /\ UNCHANGED owed
      BY <2>1 DEF Adds, Filled
    <3> QED BY <1>1, <1>8, <3>1, FilledIsEntry DEF Incomplete
  <2>3. pipe' # <<>> /\ 1 \in DOMAIN pipe' /\ pipe'[1].packet = c.packet /\ pipe'[1].num = c.num + 1
    BY <1>1, <1>10, ChunkAfter, TailOfPipe DEF c
  <2>4. CollectedInOrder'
    <3>1. \A d \in all : d.packet = c.packet
      BY <1>1, HadIsOfPacket
    <3>2. m_buf'[n].chunks = all
      BY <2>2 DEF Filled
    <3> QED BY <1>7, <1>9, <2>2, <2>3, <3>1, <3>2 DEF CollectedInOrder
  <2>5. {pipe'[i].packet : i \in DOMAIN pipe'} = {pipe[i].packet : i \in DOMAIN pipe}
    <3>1. \A i \in DOMAIN pipe : \E j \in DOMAIN pipe' : pipe'[j].packet = pipe[i].packet
      <4> SUFFICES ASSUME NEW i \in DOMAIN pipe
                   PROVE  \E j \in DOMAIN pipe' : pipe'[j].packet = pipe[i].packet
        OBVIOUS
      <4>1. CASE i = 1
        BY <2>3, <4>1 DEF c
      <4>2. CASE i # 1
        BY <1>1, <4>2, TailOfPipe
      <4> QED BY <4>1, <4>2
    <3>2. \A j \in DOMAIN pipe' : \E i \in DOMAIN pipe : pipe'[j].packet = pipe[i].packet
      BY <1>1, TailOfPipe
    <3> QED BY <3>1, <3>2
  <2>6. OwedInOrder'
    BY <2>2, <2>5 DEF SplitInv, OwedInOrder
  <2> QED BY <1>2, <1>3, <2>4, <2>6 DEF SplitInv
<1>11. CASE ~(c.num + 1 < c.count)
  <2>1. Completes(c)
    BY <1>1, <1>6, <1>7, <1>11, Inserts DEF Adds
  <2>2. owed # <<>> /\ Head(owed) = c.packet /\ owed[1] = c.packet /\ 1 \in DOMAIN owed
    BY <1>1, OldestOwed DEF c
  <2>3. m_buf'[n] = NoEntry /\ owed' = Tail(owed)
    BY <1>1, <1>8, <2>1, <2>2 DEF Completes
  <2>4. CollectedInOrder'
    <3>1. \A m \in Incomplete' : ~m_buf'[m].reliable
      BY <1>9, <2>3 DEF Incomplete
    <3>2. pipe' # <<>> => pipe'[1].num = 0
      BY <1>1, <1>11, ChunkAfter, TailOfPipe DEF c
    <3> QED BY <3>1, <3>2 DEF CollectedInOrder
  <2>5. /\ owed \in Seq(Packets) /\ DOMAIN owed = 1 .. Len(owed) /\ Len(owed) \in Nat
        /\ DOMAIN owed' = 1 .. Len(owed) - 1
        /\ \A i \in 1 .. Len(owed) - 1 : owed'[i] = owed[i + 1]
    BY <2>2, <2>3 DEF SplitInv, SplitTypes
  <2>6. Range(owed') = Range(owed) \ {c.packet}
    <3>1. \A i \in DOMAIN owed' : owed'[i] \in Range(owed) \ {c.packet}
      <4> SUFFICES ASSUME NEW i \in DOMAIN owed' PROVE owed'[i] \in Range(owed) \ {c.packet}
        OBVIOUS
      <4>1. i + 1 \in DOMAIN owed /\ 1 < i + 1 /\ owed'[i] = owed[i + 1]
        BY <2>5
      <4>2. owed[1] < owed[i + 1]
        BY <2>2, <4>1 DEF SplitInv, OwedInOrder
      <4>3. ~(owed[1] < owed[1])
        BY <1>1, <2>2
      <4> QED BY <2>2, <4>1, <4>2, <4>3 DEF Range
    <3>2. \A i \in DOMAIN owed : i # 1 => i - 1 \in DOMAIN owed' /\ owed'[i - 1] = owed[i]
      <4> SUFFICES ASSUME NEW i \in DOMAIN owed, i # 1
                   PROVE  i - 1 \in DOMAIN owed' /\ owed'[i - 1] = owed[i]
        OBVIOUS
      <4>1. i - 1 \in 1 .. Len(owed) - 1 /\ (i - 1) + 1 = i
        BY <2>5
      <4> QED BY <2>5, <4>1
    <3>3. \A x \in Range(owed) \ {c.packet} : x \in Range(owed')
      BY <2>2, <3>2 DEF Range
    <3>4. \A x \in Range(owed') : x \in Range(owed) \ {c.packet}
      BY <3>1 DEF Range
    <3> QED BY <3>3, <3>4
  <2>7. {pipe'[i].packet : i \in DOMAIN pipe'} = {pipe[i].packet : i \in DOMAIN pipe} \ {c.packet}
    <3>1. \A i \in DOMAIN pipe : i # 1 => pipe[i].packet # c.packet
      <4> SUFFICES ASSUME NEW i \in DOMAIN pipe, i # 1 PROVE pipe[i].packet # c.packet
        OBVIOUS
      <4>1. c.packet < pipe[i].packet
        BY <1>1, <1>11, ChunkAfter DEF c
      <4> QED BY <1>1, <4>1
    <3>2. \A j \in DOMAIN pipe' : \E i \in DOMAIN pipe : i # 1 /\ pipe'[j].packet = pipe[i].packet
      BY <1>1, TailOfPipe
    <3>3. \A i \in DOMAIN pipe : i # 1 => \E j \in DOMAIN pipe' : pipe'[j].packet = pipe[i].packet
      BY <1>1, TailOfPipe
    <3>4. pipe[1].packet = c.packet
      BY DEF c
    <3> QED BY <3>1, <3>2, <3>3, <3>4
  <2>8. \A i, j \in DOMAIN owed' : i < j => owed'[i] < owed'[j]
    <3> SUFFICES ASSUME NEW i \in DOMAIN owed', NEW j \in DOMAIN owed', i < j
                 PROVE  owed'[i] < owed'[j]
      OBVIOUS
    <3>1. i + 1 \in DOMAIN owed /\ j + 1 \in DOMAIN owed /\ i + 1 < j + 1
      BY <2>5
    <3> QED BY <2>5, <3>1 DEF SplitInv, OwedInOrder
  <2>9. OwedInOrder'
    BY <2>6, <2>7, <2>8 DEF SplitInv, OwedInOrder
  <2> QED BY <1>2, <1>3, <2>4, <2>9 DEF SplitInv
<1> QED BY <1>10, <1>11

LEMMA SplitInit_SplitInv ==
  ASSUME SplitInit
  PROVE  SplitInv
<1>1. Incomplete = {} /\ AliveChunks = {}
  BY DEF SplitInit, Incomplete, AliveChunks
<1>2. SplitTypes
  <2>1. 0 \in 0 .. MaxSplits
    BY SplitAssumption
  <2>2. pipe \in Seq(Chunk) /\ owed \in Seq(Packets)
    BY DEF SplitInit
  <2> QED BY <2>1, <2>2 DEF SplitInit, SplitTypes
<1>3. DOMAIN pipe = {} /\ Range(owed) = {} /\ DOMAIN owed = {}
  BY DEF SplitInit, Range
<1>4. NumbersTaken /\ Alike /\ Channels /\ Entries
  BY <1>1, <1>3 DEF NumbersTaken, Alike, Channels, Entries, SplitInit
<1>5. PipeInOrder /\ OwedInOrder
  BY <1>3 DEF PipeInOrder, OwedInOrder
<1>6. CollectedInOrder
  BY <1>1 DEF CollectedInOrder, SplitInit
<1> QED BY <1>2, <1>4, <1>5, <1>6 DEF SplitInv

LEMMA SplitInvInductive == SplitInv /\ [SplitNext]_splitVars => SplitInv'
<1> SUFFICES ASSUME SplitInv, [SplitNext]_splitVars PROVE SplitInv'
  OBVIOUS
<1>1. ASSUME NEW count \in ChunkCounts, NEW reliable \in BOOLEAN, SplitPacket(reliable, count)
      PROVE  SplitInv'
  <2>1. reliable = TRUE \/ reliable = FALSE
    OBVIOUS
  <2> QED BY <1>1, <2>1, SplitReliable, SplitUnreliable
<1>2. CASE SplitInVain
  BY <1>2, SplitInVainKeeps
<1>3. CASE ReceiveReliableChunk
  BY <1>3, ReceiveReliableKeeps
<1>4. ASSUME NEW c \in datagrams, ReceiveChunk(c) PROVE SplitInv'
  BY <1>4, ReceiveChunkKeeps
<1>5. ASSUME NEW c \in datagrams, LoseChunk(c) PROVE SplitInv'
  BY <1>5, LoseChunkKeeps
<1>6. ASSUME NEW n \in Numbers, removeUnreliableTimedOuts(n) PROVE SplitInv'
  BY <1>6, TimeoutKeeps
<1>7. CASE UNCHANGED splitVars
  BY <1>7, SplitUnchanged
<1> QED BY <1>1, <1>2, <1>3, <1>4, <1>5, <1>6, <1>7 DEF SplitNext

LEMMA SplitInvariant == SplitSpec => []SplitInv
BY SplitInit_SplitInv, SplitInvInductive, PTL DEF SplitSpec

(* What IncomingSplitBuffer::insert() hands over is one packet, although   *)
(* reliable and unreliable packets share the numbers and the buffer, and   *)
(* whatever the network does to the unreliable chunks: for every number of *)
(* split numbers and every way to cut packets.                             *)
THEOREM HandedWholeCorrect == SplitSpec => []HandedWhole
<1>1. ASSUME SplitInv PROVE HandedWhole
  <2>1. CASE handed = {}
    BY <2>1, FS_EmptySet DEF HandedWhole
  <2>2. ASSUME NEW packet \in Packets, handed = {packet} PROVE HandedWhole
    <3>1. Cardinality(handed) = 1
      BY <2>2, FS_Singleton
    <3> QED BY <3>1 DEF HandedWhole
  <2> QED BY <1>1, <2>1, <2>2 DEF SplitInv, SplitTypes
<1> QED BY <1>1, SplitInvariant, PTL

(* A reliable packet is collected from the channel one at a time, is not   *)
(* timed out and is handed over with its last chunk, in the order sent.    *)
THEOREM ReliableSplitsKeptCorrect == SplitSpec => []ReliableSplitsKept
<1>1. ASSUME SplitInv PROVE ReliableSplitsKept
  <2> DEFINE sent == {pipe[i].packet : i \in DOMAIN pipe}
  <2>1. \A p \in Collecting : pipe # <<>> /\ p = pipe[1].packet
    <3> SUFFICES ASSUME NEW p \in Collecting PROVE pipe # <<>> /\ p = pipe[1].packet
      OBVIOUS
    <3>1. PICK n \in Incomplete : \E d \in m_buf[n].chunks : d.reliable /\ p = d.packet
      BY DEF Collecting
    <3>2. PICK d \in m_buf[n].chunks : d.reliable /\ p = d.packet
      BY <3>1
    <3>3. m_buf[n].reliable
      BY <1>1, <3>2 DEF SplitInv, Entries
    <3> QED BY <1>1, <3>2, <3>3 DEF SplitInv, CollectedInOrder
  <2>2. pipe # <<>> => 1 \in DOMAIN pipe /\ 1 \in DOMAIN owed /\ owed[1] = pipe[1].packet
    BY <1>1, OldestOwed
  <2>3. Collecting \subseteq sent
    BY <2>1, <2>2
  <2>4. {owed[i] : i \in DOMAIN owed} = sent
    BY <1>1 DEF SplitInv, OwedInOrder, Range
  <2>5. {owed[i] : i \in DOMAIN owed} = Collecting \union sent
    BY <2>3, <2>4
  <2>6. Collecting \subseteq {owed[i] : i \in DOMAIN owed \intersect {1}}
    BY <2>1, <2>2
  <2>7. Collecting # {} => \E i \in DOMAIN pipe : pipe[i].packet \in Collecting
    BY <2>1, <2>2
  <2> QED BY <2>5, <2>6, <2>7 DEF ReliableSplitsKept
<1> QED BY <1>1, SplitInvariant, PTL

-----------------------------------------------------------------------------
(* The peers: their uses, their deletion, and the events about them.       *)

Events == [type : {"added", "data", "removed"}, peer : PeerIds]
Places == {"idle", "process", "handle", "data", "visit", "erase", "event", "drop", "finish"}

PeersTypes ==
  /\ created \in 0 .. MaxPeers /\ m_peers \subseteq 1 .. created
  /\ m_usage \in [PeerIds -> Nat] /\ freed \in [PeerIds -> Nat]
  /\ m_pending_deletion \in [PeerIds -> BOOLEAN]
  /\ helpers \in [ConThreads -> Seq(PeerIds)] /\ place \in [ConThreads -> Places]
  /\ deleting \in [ConThreads -> PeerIds \union {NoPeer}]
  /\ timeouted_peers \subseteq PeerIds /\ unbuffering \in BOOLEAN
  /\ result \in PeerIds \union {NoPeer}
  /\ m_event_queue \in Seq(Events)
  /\ told \in [PeerIds -> {"nothing", "added", "removed", "wrong"}]
  /\ late \in [PeerIds -> Nat]

(* How many PeerHelpers a thread has where: receive() has one, and         *)
(* processPacket() two, the second time for what is in a reliable packet.  *)
Depth(t) == Len(helpers[t])
Stacks ==
  /\ \A t \in ConThreads : place[t] = "idle" => Depth(t) = 0
  /\ Depth("receive") \in 0 .. 3 /\ Depth("send") \in 0 .. 1 /\ Depth("user") \in 0 .. 1
  /\ place["receive"] = "process" => Depth("receive") \in 1 .. 2
  /\ place["receive"] \in {"handle", "erase"} => Depth("receive") \in 2 .. 3
  /\ place["receive"] = "data" => result \in PeerIds
  /\ place["receive"] # "visit"
  /\ place["send"] \in {"idle", "visit", "erase", "event", "drop", "finish"}
  /\ place["send"] = "visit" => Depth("send") = 1
  /\ place["user"] \in {"idle", "finish"}

(* A peer is freed when the last of its uses ends, or is dropped unused.   *)
Counts == \A p \in PeerIds :
  /\ IsFiniteSet(Uses(p)) /\ m_usage[p] = Cardinality(Uses(p))
  /\ freed[p] = IF m_pending_deletion[p] /\ Uses(p) = {} THEN 1 ELSE 0

(* Whoever takes a peer out of the map is the one that drops it.           *)
Deletions ==
  /\ \A p \in PeerIds : m_pending_deletion[p] => p \in 1 .. created \ m_peers
  /\ \A t \in ConThreads :
       /\ place[t] \in {"event", "drop"} <=> deleting[t] # NoPeer
       /\ deleting[t] # NoPeer => /\ deleting[t] \in 1 .. created \ m_peers
                                  /\ ~m_pending_deletion[deleting[t]]
                                  /\ \A u \in ConThreads \ {t} : deleting[u] # deleting[t]

PeersInv == PeersTypes /\ Stacks /\ Counts /\ Deletions

(* The event at index i is the one of that type about the peer.            *)
Indices == 1 .. Len(m_event_queue)
Is(i, type, p) == i \in Indices /\ m_event_queue[i] = [type |-> type, peer |-> p]
IsAbout(i, p) == Is(i, "added", p) \/ Is(i, "data", p) \/ Is(i, "removed", p)

(* The events of a peer that are to come fit what the user knows of it.    *)
Announced(p) ==
  /\ told[p] # "wrong"
  /\ p <= created <=> (told[p] # "nothing" \/ \E i \in Indices : Is(i, "added", p))
  /\ \A i \in Indices :
       /\ Is(i, "added", p) =>
            told[p] = "nothing" /\ \A j \in Indices : j < i => ~IsAbout(j, p)
       /\ Is(i, "data", p) \/ Is(i, "removed", p) =>
            told[p] # "nothing" \/ \E j \in Indices : j < i /\ Is(j, "added", p)
       /\ Is(i, "removed", p) =>
            told[p] # "removed" /\ \A j \in Indices : j < i => ~Is(j, "removed", p)

Removed(p) == told[p] = "removed" \/ \E i \in Indices : Is(i, "removed", p)

(* Its removal is announced when it is out of the map, by who takes it out.*)
RemovedOnce(p) == Removed(p) =>
  p \notin m_peers /\ \A t \in ConThreads : place[t] = "event" => deleting[t] # p

(* The receive thread may still put data of the peer.                      *)
AtData(p) ==
  \/ place["receive"] \in {"process", "handle"} /\ Held("receive") = p
  \/ place["receive"] = "data" /\ result = p

LateAt(i, p) ==
  Is(i, "data", p) /\ (told[p] = "removed" \/ \E j \in Indices : j < i /\ Is(j, "removed", p))
NoneLate(p) == late[p] = 0 /\ \A i \in Indices : ~LateAt(i, p)

(* Of all data of a removed peer, one at most was or will be late.         *)
LateOnce(p) ==
  /\ late[p] \in {0, 1} /\ (late[p] = 1 => told[p] = "removed")
  /\ \A i \in Indices : LateAt(i, p) =>
       late[p] = 0 /\ \A j \in Indices : j < i => ~LateAt(j, p)
  /\ Removed(p) /\ AtData(p) => NoneLate(p)

(* Threads hold peers that were created.                                   *)
HeldIn(n) == \A t \in ConThreads : \A i \in 1 .. Depth(t) : helpers[t][i] <= n
HeldCreated ==
  /\ HeldIn(created)
  /\ place["receive"] = "data" => result <= created

EventsInv == HeldCreated /\ \A p \in PeerIds : Announced(p) /\ RemovedOnce(p) /\ LateOnce(p)

LEMMA SameUses ==
  ASSUME NEW A, NEW B, A \subseteq ConThreads \X (1 .. 3), B \subseteq ConThreads \X (1 .. 3),
         \A u \in ConThreads, i \in 1 .. 3 : <<u, i>> \in A <=> <<u, i>> \in B
  PROVE  A = B
<1>1. ASSUME NEW x \in ConThreads \X (1 .. 3) PROVE x \in A <=> x \in B
  <2>1. PICK u \in ConThreads, i \in 1 .. 3 : x = <<u, i>>
    OBVIOUS
  <2> QED BY <2>1
<1> QED BY <1>1

LEMMA UsesMember ==
  ASSUME NEW q, NEW u \in ConThreads, NEW i \in 1 .. 3
  PROVE  <<u, i>> \in Uses(q) <=> i \in DOMAIN helpers[u] /\ helpers[u][i] = q
BY DEF Uses

(* The end of the stack of a thread grows and shrinks.                     *)
LEMMA Pushed ==
  ASSUME PeersTypes, NEW t \in ConThreads, NEW p \in PeerIds, Depth(t) \in 0 .. 2,
         getPeerNoEx(t, p)
  PROVE  /\ helpers' \in [ConThreads -> Seq(PeerIds)]
         /\ Depth(t)' = Depth(t) + 1 /\ Held(t)' = p
         /\ \A u \in ConThreads \ {t} : helpers'[u] = helpers[u] /\ Depth(u)' = Depth(u)
         /\ \A i \in 1 .. Depth(t) : helpers'[t][i] = helpers[t][i]
         /\ Uses(p)' = Uses(p) \union {<<t, Depth(t) + 1>>} /\ <<t, Depth(t) + 1>> \notin Uses(p)
         /\ \A q \in PeerIds \ {p} : Uses(q)' = Uses(q)
<1> DEFINE h == helpers[t]
<1>1. /\ h \in Seq(PeerIds) /\ Len(h) \in 0 .. 2 /\ DOMAIN h = 1 .. Len(h)
      /\ helpers' = [helpers EXCEPT ![t] = Append(h, p)]
  BY DEF PeersTypes, getPeerNoEx, Depth
<1>2. /\ Append(h, p) \in Seq(PeerIds) /\ DOMAIN Append(h, p) = 1 .. Len(h) + 1
      /\ Len(Append(h, p)) = Len(h) + 1
      /\ \A i \in 1 .. Len(h) : Append(h, p)[i] = h[i]
      /\ Append(h, p)[Len(h) + 1] = p
  BY <1>1, AppendProperties
<1>3. /\ helpers' \in [ConThreads -> Seq(PeerIds)] /\ helpers'[t] = Append(h, p)
      /\ \A u \in ConThreads \ {t} : helpers'[u] = helpers[u]
  BY <1>1, <1>2 DEF PeersTypes
<1> HIDE DEF h
<1>4. Depth(t)' = Depth(t) + 1 /\ Held(t)' = p
  BY <1>2, <1>3 DEF Depth, Held, h
<1>5. \A i \in 1 .. Depth(t) : helpers'[t][i] = helpers[t][i]
  BY <1>2, <1>3 DEF Depth, h
<1>6. ASSUME NEW q \in PeerIds, NEW u \in ConThreads, NEW i \in 1 .. 3
      PROVE  <<u, i>> \in Uses(q)' <=> (<<u, i>> \in Uses(q) \/ (q = p /\ u = t /\ i = Len(h) + 1))
  <2>1. <<u, i>> \in Uses(q)' <=> i \in DOMAIN helpers'[u] /\ helpers'[u][i] = q
    BY DEF Uses
  <2>2. <<u, i>> \in Uses(q) <=> i \in DOMAIN helpers[u] /\ helpers[u][i] = q
    BY UsesMember
  <2>3. CASE u # t
    BY <1>3, <2>1, <2>2, <2>3
  <2>4. CASE u = t
    BY <1>1, <1>2, <1>3, <2>1, <2>2, <2>4 DEF h
  <2> QED BY <2>3, <2>4
<1>7. \A q \in PeerIds : Uses(q) \subseteq ConThreads \X (1 .. 3) /\ Uses(q)' \subseteq ConThreads \X (1 .. 3)
  BY DEF Uses
<1>8. Len(h) + 1 \in 1 .. 3 /\ <<t, Len(h) + 1>> \notin Uses(p)
  <2>1. Len(h) + 1 \in 1 .. 3
    <3>1. \A n \in 0 .. 2 : n + 1 \in 1 .. 3
      OBVIOUS
    <3> QED BY <1>1, <3>1
  <2>2. Len(h) + 1 \notin DOMAIN h
    BY <1>1
  <2> QED BY <2>1, <2>2, UsesMember DEF h
<1>9. Depth(t) = Len(h)
  BY DEF Depth, h
<1>10. Uses(p)' = Uses(p) \union {<<t, Depth(t) + 1>>}
  <2> DEFINE B == Uses(p) \union {<<t, Len(h) + 1>>}
  <2>1. B \subseteq ConThreads \X (1 .. 3)
    BY <1>7, <1>8
  <2>2. \A u \in ConThreads, i \in 1 .. 3 : <<u, i>> \in Uses(p)' <=> <<u, i>> \in B
    BY <1>6
  <2> HIDE DEF B
  <2>3. Uses(p)' = B
    BY <1>7, <2>1, <2>2, SameUses
  <2> QED BY <1>9, <2>3 DEF B
<1>11. ASSUME NEW q \in PeerIds \ {p} PROVE Uses(q)' = Uses(q)
  BY <1>6, <1>7, SameUses
<1>12. \A u \in ConThreads \ {t} : Depth(u)' = Depth(u)
  BY <1>3 DEF Depth
<1> QED BY <1>3, <1>4, <1>5, <1>8, <1>9, <1>10, <1>11, <1>12

LEMMA Popped ==
  ASSUME PeersTypes, NEW t \in ConThreads, Depth(t) \in 0 .. 3, DecUseCount(t),
         NEW p, p = Held(t)
  PROVE  /\ p \in PeerIds /\ Depth(t) # 0
         /\ helpers' \in [ConThreads -> Seq(PeerIds)]
         /\ Depth(t)' = Depth(t) - 1
         /\ \A u \in ConThreads \ {t} : helpers'[u] = helpers[u] /\ Depth(u)' = Depth(u)
         /\ \A i \in 1 .. Depth(t) - 1 : helpers'[t][i] = helpers[t][i]
         /\ Uses(p)' = Uses(p) \ {<<t, Depth(t)>>} /\ <<t, Depth(t)>> \in Uses(p)
         /\ \A q \in PeerIds \ {p} : Uses(q)' = Uses(q)
<1> DEFINE h == helpers[t]
           s == SubSeq(h, 1, Len(h) - 1)
<1>1. /\ h \in Seq(PeerIds) /\ h # <<>> /\ Len(h) \in 0 .. 3 /\ DOMAIN h = 1 .. Len(h)
      /\ helpers' = [helpers EXCEPT ![t] = s]
  BY DEF PeersTypes, DecUseCount, Depth
<1>2. Len(h) \in 1 .. 3 /\ p = h[Len(h)] /\ p \in PeerIds
  <2>1. Len(h) # 0
    BY <1>1
  <2>2. Len(h) \in 1 .. 3 /\ p = h[Len(h)]
    BY <1>1, <2>1 DEF Held
  <2> QED BY <1>1, <2>2
<1>3. /\ s \in Seq(PeerIds) /\ DOMAIN s = 1 .. Len(h) - 1 /\ Len(s) = Len(h) - 1
      /\ \A i \in 1 .. Len(h) - 1 : s[i] = h[i]
  <2> HIDE DEF h
  <2>1. s = [i \in 1 .. Len(h) - 1 |-> h[i]]
    BY <1>1, <1>2, SubSeqProperties
  <2>2. s \in Seq(PeerIds) /\ Len(s) = Len(h) - 1
    BY <1>1, <1>2, SubSeqProperties
  <2> QED BY <2>1, <2>2
<1>4. /\ helpers' \in [ConThreads -> Seq(PeerIds)] /\ helpers'[t] = s
      /\ \A u \in ConThreads \ {t} : helpers'[u] = helpers[u]
  BY <1>1, <1>3 DEF PeersTypes
<1>5. Depth(t) = Len(h)
  BY DEF Depth
<1> HIDE DEF h, s
<1>6. Depth(t)' = Depth(t) - 1
  BY <1>3, <1>4, <1>5 DEF Depth
<1>7. \A i \in 1 .. Depth(t) - 1 : helpers'[t][i] = helpers[t][i]
  BY <1>3, <1>4, <1>5 DEF h
<1>8. ASSUME NEW q \in PeerIds, NEW u \in ConThreads, NEW i \in 1 .. 3
      PROVE  <<u, i>> \in Uses(q)' <=> <<u, i>> \in Uses(q) /\ ~(u = t /\ i = Len(h))
  <2>1. <<u, i>> \in Uses(q)' <=> i \in DOMAIN helpers'[u] /\ helpers'[u][i] = q
    BY DEF Uses
  <2>2. <<u, i>> \in Uses(q) <=> i \in DOMAIN helpers[u] /\ helpers[u][i] = q
    BY UsesMember
  <2>3. CASE u # t
    BY <1>4, <2>1, <2>2, <2>3
  <2>4. CASE u = t
    <3>1. i \in DOMAIN s <=> i \in DOMAIN h /\ i # Len(h)
      <4>1. Len(h) \in 1 .. 3 /\ DOMAIN h = 1 .. Len(h) /\ DOMAIN s = 1 .. Len(h) - 1
        BY <1>1, <1>2, <1>3
      <4>2. \A n \in 1 .. 3 : i \in 1 .. n - 1 <=> i \in 1 .. n /\ i # n
        OBVIOUS
      <4> QED BY <4>1, <4>2
    <3>2. i \in DOMAIN s => s[i] = h[i]
      BY <1>3
    <3>3. helpers'[u] = s /\ helpers[u] = h
      BY <1>4, <2>4 DEF h
    <3> QED BY <2>1, <2>2, <2>4, <3>1, <3>2, <3>3
  <2> QED BY <2>3, <2>4
<1>9. \A q \in PeerIds : Uses(q) \subseteq ConThreads \X (1 .. 3) /\ Uses(q)' \subseteq ConThreads \X (1 .. 3)
  BY DEF Uses
<1>10. \A q \in PeerIds : <<t, Len(h)>> \in Uses(q) <=> q = p
  <2>1. Len(h) \in 1 .. 3 /\ Len(h) \in DOMAIN h
    BY <1>1, <1>2
  <2> QED BY <2>1, UsesMember, <1>2 DEF h
<1>11. Uses(p)' = Uses(p) \ {<<t, Len(h)>>} /\ <<t, Len(h)>> \in Uses(p)
  <2> DEFINE B == Uses(p) \ {<<t, Len(h)>>}
  <2>1. B \subseteq ConThreads \X (1 .. 3)
    BY <1>2, <1>9
  <2>2. \A u \in ConThreads, i \in 1 .. 3 : <<u, i>> \in Uses(p)' <=> <<u, i>> \in B
    <3>1. \A u \in ConThreads, i \in 1 .. 3 : <<u, i>> = <<t, Len(h)>> <=> u = t /\ i = Len(h)
      OBVIOUS
    <3> QED BY <1>2, <1>8, <3>1
  <2>3. Uses(p)' \subseteq ConThreads \X (1 .. 3)
    BY <1>2, <1>9
  <2> HIDE DEF B
  <2>4. Uses(p)' = B
    BY <2>1, <2>2, <2>3, SameUses
  <2> QED BY <1>2, <1>10, <2>4 DEF B
<1>12. ASSUME NEW q \in PeerIds \ {p} PROVE Uses(q)' = Uses(q)
  <2>1. \A u \in ConThreads, i \in 1 .. 3 : <<u, i>> \in Uses(q)' <=> <<u, i>> \in Uses(q)
    BY <1>8, <1>10
  <2> QED BY <1>9, <2>1, SameUses
<1>13. Depth(t) # 0
  BY <1>2, <1>5
<1>14. \A u \in ConThreads \ {t} : Depth(u)' = Depth(u)
  BY <1>4 DEF Depth
<1> QED BY <1>2, <1>4, <1>5, <1>6, <1>7, <1>11, <1>12, <1>13, <1>14

(* Who finds a peer counts, as long as it is not pending.                  *)
LEMMA CountsPushed ==
  ASSUME PeersTypes, Counts, NEW t \in ConThreads, NEW p \in PeerIds, Depth(t) \in 0 .. 2,
         getPeerNoEx(t, p), UNCHANGED <<m_pending_deletion, freed>>
  PROVE  Counts' /\ m_usage' \in [PeerIds -> Nat]
<1>1. /\ ~m_pending_deletion[p] /\ m_usage' = [m_usage EXCEPT ![p] = @ + 1]
      /\ m_usage \in [PeerIds -> Nat]
  BY DEF getPeerNoEx, PeersTypes
<1>2. ASSUME NEW q \in PeerIds
      PROVE  /\ IsFiniteSet(Uses(q)') /\ m_usage'[q] = Cardinality(Uses(q)')
             /\ freed'[q] = IF m_pending_deletion'[q] /\ Uses(q)' = {} THEN 1 ELSE 0
  <2>1. CASE q = p
    <3>1. IsFiniteSet(Uses(p)') /\ Cardinality(Uses(p)') = Cardinality(Uses(p)) + 1
      <4>1. Uses(p)' = Uses(p) \union {<<t, Depth(t) + 1>>} /\ <<t, Depth(t) + 1>> \notin Uses(p)
        BY Pushed
      <4>2. IsFiniteSet(Uses(p))
        BY DEF Counts
      <4> QED BY <4>1, <4>2, FS_AddElement
    <3> QED BY <1>1, <2>1, <3>1 DEF Counts
  <2>2. CASE q # p
    BY <1>1, <2>2, Pushed DEF Counts
  <2> QED BY <2>1, <2>2
<1> QED BY <1>1, <1>2 DEF Counts

(* The last one out frees a pending peer, and nobody else does.            *)
LEMMA CountsPopped ==
  ASSUME PeersTypes, Counts, NEW t \in ConThreads, Depth(t) \in 0 .. 3, DecUseCount(t),
         UNCHANGED m_pending_deletion
  PROVE  Counts' /\ m_usage' \in [PeerIds -> Nat] /\ freed' \in [PeerIds -> Nat]
<1>0. PICK p : p = Held(t)
  OBVIOUS
<1>1. p \in PeerIds
  BY <1>0, Popped
<1>2. /\ m_usage' = [m_usage EXCEPT ![p] = @ - 1]
      /\ IF LastUse(p) THEN FreePeer(p) ELSE UNCHANGED freed
      /\ m_usage \in [PeerIds -> Nat] /\ freed \in [PeerIds -> Nat]
      /\ m_pending_deletion \in [PeerIds -> BOOLEAN]
  BY <1>0 DEF DecUseCount, PeersTypes
<1>3. /\ Uses(p)' = Uses(p) \ {<<t, Depth(t)>>} /\ <<t, Depth(t)>> \in Uses(p)
      /\ \A q \in PeerIds \ {p} : Uses(q)' = Uses(q)
  BY <1>0, Popped
<1>4. /\ IsFiniteSet(Uses(p)) /\ m_usage[p] = Cardinality(Uses(p)) /\ freed[p] = 0
  BY <1>1, <1>3 DEF Counts
<1>5. /\ IsFiniteSet(Uses(p)') /\ Cardinality(Uses(p)') = m_usage[p] - 1
      /\ Cardinality(Uses(p)') \in Nat
  BY <1>3, <1>4, FS_RemoveElement, FS_CardinalityType
<1>6. Uses(p)' = {} <=> m_usage[p] = 1
  BY <1>1, <1>2, <1>5, FS_EmptySet
<1>7. /\ m_usage' \in [PeerIds -> Nat] /\ m_usage'[p] = m_usage[p] - 1
      /\ \A q \in PeerIds \ {p} : m_usage'[q] = m_usage[q]
  BY <1>1, <1>2, <1>5
<1>8. /\ freed' \in [PeerIds -> Nat]
      /\ freed'[p] = IF m_pending_deletion[p] /\ m_usage[p] = 1 THEN 1 ELSE 0
      /\ \A q \in PeerIds \ {p} : freed'[q] = freed[q]
  <2>1. CASE LastUse(p)
    <3>1. freed' = [freed EXCEPT ![p] = 0 + 1]
      BY <1>2, <1>4, <2>1 DEF FreePeer
    <3> QED BY <1>1, <1>2, <2>1, <3>1 DEF LastUse
  <2>2. CASE ~LastUse(p)
    BY <1>2, <1>4, <2>2 DEF LastUse
  <2> QED BY <2>1, <2>2
<1>9. ASSUME NEW q \in PeerIds
      PROVE  /\ IsFiniteSet(Uses(q)') /\ m_usage'[q] = Cardinality(Uses(q)')
             /\ freed'[q] = IF m_pending_deletion'[q] /\ Uses(q)' = {} THEN 1 ELSE 0
  <2>1. CASE q = p
    <3>1. freed'[p] = IF m_pending_deletion'[p] /\ Uses(p)' = {} THEN 1 ELSE 0
      BY <1>6, <1>8
    <3> QED BY <2>1, <3>1, <1>5, <1>7
  <2>2. CASE q # p
    BY <2>2, <1>3, <1>7, <1>8 DEF Counts
  <2> QED BY <2>1, <2>2
<1> QED BY <1>7, <1>8, <1>9 DEF Counts

LEMMA CountsDropped ==
  ASSUME PeersTypes, Counts, Deletions, NEW t \in ConThreads, DeleteDrop(t)
  PROVE  Counts' /\ m_pending_deletion' \in [PeerIds -> BOOLEAN] /\ freed' \in [PeerIds -> Nat]
<1> DEFINE p == deleting[t]
<1>1. p \in PeerIds /\ ~m_pending_deletion[p]
  BY DEF Deletions, DeleteDrop, PeersTypes
<1>2. /\ m_pending_deletion' = [m_pending_deletion EXCEPT ![p] = TRUE]
      /\ DropFrees(p) /\ UNCHANGED <<m_usage, helpers>>
      /\ freed \in [PeerIds -> Nat] /\ m_pending_deletion \in [PeerIds -> BOOLEAN]
  BY DEF DeleteDrop, PeersTypes
<1>3. /\ freed[p] = 0 /\ IsFiniteSet(Uses(p)) /\ m_usage[p] = Cardinality(Uses(p))
  BY <1>1 DEF Counts
<1>4. m_usage[p] = 0 <=> Uses(p) = {}
  BY <1>3, FS_EmptySet
<1>5. /\ freed' \in [PeerIds -> Nat] /\ freed'[p] = IF m_usage[p] = 0 THEN 1 ELSE 0
      /\ \A q \in PeerIds \ {p} : freed'[q] = freed[q]
  <2>1. CASE m_usage[p] = 0
    <3>1. freed' = [freed EXCEPT ![p] = 0 + 1]
      BY <1>2, <1>3, <2>1 DEF DropFrees, FreePeer
    <3> QED BY <1>1, <1>2, <2>1, <3>1
  <2>2. CASE m_usage[p] # 0
    BY <1>2, <1>3, <2>2 DEF DropFrees
  <2> QED BY <2>1, <2>2
<1>6. \A q \in PeerIds : Uses(q)' = Uses(q)
  BY <1>2 DEF Uses
<1> HIDE DEF p
<1> QED BY <1>1, <1>2, <1>3, <1>4, <1>5, <1>6 DEF Counts

LEMMA EventPut ==
  ASSUME PeersTypes, NEW type \in {"added", "data", "removed"}, NEW p \in PeerIds,
         putEvent(type, p)
  PROVE  /\ m_event_queue' \in Seq(Events) /\ Len(m_event_queue') = Len(m_event_queue) + 1
         /\ \A i \in 1 .. Len(m_event_queue) : m_event_queue'[i] = m_event_queue[i]
         /\ m_event_queue'[Len(m_event_queue) + 1] = [type |-> type, peer |-> p]
<1>1. m_event_queue' = Append(m_event_queue, [type |-> type, peer |-> p])
  BY DEF putEvent
<1>2. m_event_queue \in Seq(Events) /\ [type |-> type, peer |-> p] \in Events
  BY DEF PeersTypes, Events
<1> QED BY <1>1, <1>2, AppendProperties

LEMMA EventTaken ==
  ASSUME PeersTypes, TakeEvent
  PROVE  /\ m_event_queue' \in Seq(Events) /\ Len(m_event_queue) \in Nat \ {0}
         /\ Len(m_event_queue') = Len(m_event_queue) - 1
         /\ \A i \in 1 .. Len(m_event_queue) - 1 : m_event_queue'[i] = m_event_queue[i + 1]
         /\ Head(m_event_queue) = m_event_queue[1] /\ m_event_queue[1] \in Events
<1>1. m_event_queue' = Tail(m_event_queue) /\ m_event_queue # <<>> /\ m_event_queue \in Seq(Events)
  BY DEF TakeEvent, PeersTypes
<1>2. Len(m_event_queue) \in Nat \ {0}
  BY <1>1
<1> QED BY <1>1, <1>2, HeadTailProperties

LEMMA PeersInvInit == PeersInit => PeersInv
<1> SUFFICES ASSUME PeersInit PROVE PeersInv
  OBVIOUS
<1> USE DEF PeersInit
<1>1. /\ \A t \in ConThreads : helpers[t] = <<>> /\ Depth(t) = 0
      /\ \A p \in PeerIds : Uses(p) = {}
  BY DEF Depth, Uses
<1>2. PeersTypes
  <2>1. <<>> \in Seq(PeerIds) /\ <<>> \in Seq(Events)
    OBVIOUS
  <2>2. 0 \in 0 .. MaxPeers
    BY PeersAssumption
  <2> QED BY <2>1, <2>2 DEF PeersTypes, Places
<1>3. Stacks
  BY <1>1 DEF Stacks, ConThreads
<1>4. Counts
  BY <1>1, FS_EmptySet DEF Counts
<1>5. Deletions
  BY DEF Deletions
<1> QED BY <1>2, <1>3, <1>4, <1>5 DEF PeersInv

LEMMA HeldPeer ==
  ASSUME PeersTypes, NEW t \in ConThreads, Depth(t) \in Nat \ {0} PROVE Held(t) \in PeerIds
<1>1. /\ helpers[t] \in Seq(PeerIds) /\ Len(helpers[t]) \in Nat /\ Len(helpers[t]) # 0
  BY DEF PeersTypes, Depth
<1>2. \A s \in Seq(PeerIds) : Len(s) # 0 => s[Len(s)] \in PeerIds
  OBVIOUS
<1> QED BY <1>1, <1>2 DEF Held

LEMMA SameCounts == Counts /\ UNCHANGED <<countVars, helpers>> => Counts'
BY DEF Counts, countVars, Uses

(* The steps that take a peer.                                             *)
LEMMA TakingStep ==
  ASSUME PeersInv,
         \/ \E p \in PeerIds : \/ \E a \in Addresses, knew \in BOOLEAN : Receive(p, a, knew)
                               \/ getFromBuffers(p) \/ Visit(p) \/ UsePeer(p)
         \/ processPacket
  PROVE  PeersInv'
<1> USE DEF PeersInv
<1>1. \A t \in ConThreads : place[t] \in Places
  BY DEF PeersTypes
<1>2. ASSUME NEW p \in PeerIds, NEW t \in ConThreads, NEW there \in Places,
             place[t] = "idle", getPeerNoEx(t, p), Go(t, there), 
             \/ t = "receive" /\ (there = "process" \/ there = "finish")
             \/ t = "send" /\ there = "visit"
             \/ t = "user" /\ there = "finish",
             unbuffering' \in BOOLEAN,
             UNCHANGED <<m_peers, created, m_pending_deletion, freed, m_event_queue, deleting,
                         timeouted_peers, result, ghostVars>>
      PROVE  PeersInv'
  <2>1. Depth(t) = 0 /\ Depth(t) \in 0 .. 2
    BY <1>2 DEF Stacks
  <2>2. /\ helpers' \in [ConThreads -> Seq(PeerIds)] /\ Depth(t)' = 1
        /\ \A u \in ConThreads \ {t} : Depth(u)' = Depth(u)
    <3>1. /\ helpers' \in [ConThreads -> Seq(PeerIds)] /\ Depth(t)' = Depth(t) + 1
          /\ \A u \in ConThreads \ {t} : Depth(u)' = Depth(u)
      BY <1>2, <2>1, Pushed
    <3> QED BY <2>1, <3>1
  <2>3. /\ place' \in [ConThreads -> Places] /\ place'[t] = there
        /\ \A u \in ConThreads \ {t} : place'[u] = place[u]
    BY <1>2 DEF PeersTypes, Go
  <2>4. Counts' /\ m_usage' \in [PeerIds -> Nat]
    BY <1>2, <2>1, CountsPushed
  <2>5. PeersTypes'
    BY <1>2, <2>2, <2>3, <2>4 DEF PeersTypes, ghostVars
  <2>6. Stacks'
    <3>1. CASE t = "receive"
      BY <1>2, <2>1, <2>2, <2>3, <3>1 DEF Stacks, ConThreads
    <3>2. CASE t = "send"
      BY <1>2, <2>1, <2>2, <2>3, <3>2 DEF Stacks, ConThreads
    <3>3. CASE t = "user"
      BY <1>2, <2>1, <2>2, <2>3, <3>3 DEF Stacks, ConThreads
    <3> QED BY <1>2, <3>1, <3>2, <3>3
  <2>7. Deletions'
    BY <1>2, <2>3 DEF Deletions
  <2> QED BY <2>4, <2>5, <2>6, <2>7
<1>3. ASSUME NEW p \in PeerIds, NEW a \in Addresses, NEW knew \in BOOLEAN, Receive(p, a, knew)
      PROVE  PeersInv'
  <2>1. PICK there \in {"process", "finish"} : Go("receive", there)
    BY <1>3 DEF Receive
  <2> QED BY <1>2, <1>3, <2>1 DEF Receive, ConThreads, Places, attributeVars
<1>4. ASSUME NEW p \in PeerIds, getFromBuffers(p) PROVE PeersInv'
  BY <1>2, <1>4 DEF getFromBuffers, ConThreads, Places, attributeVars
<1>5. ASSUME NEW p \in PeerIds, Visit(p) PROVE PeersInv'
  <2>1. unbuffering' \in BOOLEAN
    BY <1>5 DEF Visit, PeersTypes
  <2> QED BY <1>2, <1>5, <2>1 DEF Visit, ConThreads, Places, attributeVars
<1>6. ASSUME NEW p \in PeerIds, UsePeer(p) PROVE PeersInv'
  <2>1. unbuffering' \in BOOLEAN
    BY <1>6 DEF UsePeer, PeersTypes
  <2> QED BY <1>2, <1>6, <2>1 DEF UsePeer, ConThreads, Places, attributeVars
<1>7. CASE processPacket
  <2> DEFINE p == Held("receive")
  <2>1. /\ place["receive"] = "process" /\ Depth("receive") \in 1 .. 2 /\ "receive" \in ConThreads
        /\ UNCHANGED <<m_peers, attributeVars, m_pending_deletion, freed, m_event_queue, deleting,
                       timeouted_peers, unbuffering, result, ghostVars>>
    BY <1>7 DEF processPacket, Stacks, ConThreads
  <2>2. CASE getPeerNoEx("receive", p) /\ Go("receive", "handle")
    <3>1. PICK q \in PeerIds : q = p
      BY <2>1, HeldPeer
    <3>2. getPeerNoEx("receive", q) /\ Depth("receive") \in 0 .. 2
      BY <2>1, <2>2, <3>1
    <3> HIDE DEF p
    <3>3. /\ helpers' \in [ConThreads -> Seq(PeerIds)] /\ Depth("receive")' = Depth("receive") + 1
          /\ \A u \in ConThreads \ {"receive"} : Depth(u)' = Depth(u)
      BY <2>1, <3>2, Pushed
    <3>4. /\ place' \in [ConThreads -> Places] /\ place'["receive"] = "handle"
          /\ \A u \in ConThreads \ {"receive"} : place'[u] = place[u]
      BY <2>1, <2>2 DEF PeersTypes, Go, Places
    <3>5. Counts' /\ m_usage' \in [PeerIds -> Nat]
      BY <2>1, <3>2, CountsPushed
    <3>6. PeersTypes'
      BY <2>1, <3>3, <3>4, <3>5 DEF PeersTypes, ghostVars, attributeVars
    <3>7. Stacks'
      BY <2>1, <3>3, <3>4 DEF Stacks, ConThreads
    <3>8. Deletions'
      BY <2>1, <3>4 DEF Deletions, attributeVars
    <3> QED BY <3>5, <3>6, <3>7, <3>8
  <2>3. CASE Go("receive", "finish") /\ UNCHANGED <<m_usage, helpers>>
    <3>1. /\ place' \in [ConThreads -> Places] /\ place'["receive"] = "finish"
          /\ \A u \in ConThreads \ {"receive"} : place'[u] = place[u]
      BY <2>1, <2>3 DEF PeersTypes, Go, Places
    <3>2. PeersTypes'
      BY <2>1, <2>3, <3>1 DEF PeersTypes, ghostVars, attributeVars
    <3>3. \A t \in ConThreads : Depth(t)' = Depth(t)
      BY <2>3 DEF Depth
    <3>4. Stacks'
      BY <2>1, <3>1, <3>3 DEF Stacks, ConThreads
    <3>5. Counts'
      BY <2>1, <2>3, SameCounts DEF countVars
    <3>6. Deletions'
      BY <2>1, <3>1 DEF Deletions, attributeVars
    <3> QED BY <3>2, <3>4, <3>5, <3>6
  <2> QED BY <1>7, <2>2, <2>3 DEF processPacket
<1> QED BY <1>3, <1>4, <1>5, <1>6, <1>7

(* The steps that leave helpers and counts as they are.                    *)
LEMMA QuietStepOfPeers ==
  ASSUME PeersInv,
         \/ \E a \in Addresses : createPeer(a)
         \/ \E p \in PeerIds, t \in ConThreads : DeleteErase(t, p)
         \/ HandlePacket \/ PutData \/ Visited \/ BeginDelete
         \/ \E t \in ConThreads : DeleteEvent(t) \/ Left(t)
         \/ TakeEvent
  PROVE  PeersInv'
<1> USE DEF PeersInv, attributeVars, countVars, threadVars, ghostVars
<1>1. UNCHANGED <<countVars, helpers>>
  BY DEF createPeer, DeleteErase, HandlePacket, PutData, Visited, BeginDelete, DeleteEvent,
         Left, TakeEvent
<1>2. Counts' /\ \A t \in ConThreads : Depth(t)' = Depth(t)
  BY <1>1, SameCounts DEF Depth
<1>3. ASSUME NEW t \in ConThreads, NEW there \in Places, Go(t, there)
      PROVE  /\ place' \in [ConThreads -> Places] /\ place'[t] = there
             /\ \A u \in ConThreads \ {t} : place'[u] = place[u]
  BY <1>3 DEF PeersTypes, Go
<1>4. ASSUME NEW a \in Addresses, createPeer(a) PROVE PeersInv'
  <2>1. /\ created + 1 \in 0 .. MaxPeers /\ created + 1 \in PeerIds /\ created' = created + 1
        /\ m_peers' = m_peers \union {created'}
    BY <1>4, PeersAssumption DEF createPeer, PeersTypes, PeerIds
  <2>2. m_event_queue' \in Seq(Events)
    BY <1>4, <2>1, EventPut DEF createPeer
  <2>3. m_peers' \subseteq 1 .. created'
    BY <2>1 DEF PeersTypes
  <2>4. PeersTypes'
    BY <1>4, <2>1, <2>2, <2>3 DEF createPeer, PeersTypes
  <2>5. Stacks'
    <3>1. UNCHANGED <<place, result>>
      BY <1>4 DEF createPeer
    <3> QED BY <1>2, <3>1 DEF Stacks, ConThreads
  <2>6. Deletions'
    <3>1. \A q \in PeerIds : q \in 1 .. created => q \in 1 .. created' /\ q # created'
      BY <2>1 DEF PeersTypes
    <3> QED BY <1>4, <2>1, <3>1 DEF createPeer, Deletions, PeersTypes
  <2> QED BY <1>2, <2>4, <2>5, <2>6
<1>5. ASSUME NEW p \in PeerIds, NEW t \in ConThreads, DeleteErase(t, p) PROVE PeersInv'
  <2>1. /\ t # "user" /\ place[t] = "erase" /\ deleting[t] = NoPeer /\ m_peers' = m_peers \ {p}
        /\ p # NoPeer
    BY <1>5, PeersAssumption DEF DeleteErase, Stacks, Deletions, PeerIds
  <2>2. \/ /\ p \in m_peers /\ deleting' = [deleting EXCEPT ![t] = p] /\ Go(t, "event")
        \/ Go(t, "finish") /\ UNCHANGED deleting
    BY <1>5 DEF DeleteErase, InMap
  <2>3. /\ place' \in [ConThreads -> Places] /\ place'[t] \in {"event", "finish"}
        /\ \A u \in ConThreads \ {t} : place'[u] = place[u]
    BY <1>3, <2>2 DEF Places
  <2>4. PeersTypes'
    BY <1>5, <2>1, <2>2, <2>3 DEF DeleteErase, PeersTypes
  <2>5. Stacks'
    <3>1. result' = result
      BY <1>5 DEF DeleteErase
    <3>2. CASE t = "receive"
      BY <1>2, <2>3, <3>1, <3>2 DEF Stacks, ConThreads
    <3>3. CASE t = "send"
      BY <1>2, <2>1, <2>3, <3>1, <3>3 DEF Stacks, ConThreads
    <3> QED BY <2>1, <3>2, <3>3 DEF ConThreads
  <2>6. Deletions'
    <3>1. CASE p \in m_peers /\ deleting' = [deleting EXCEPT ![t] = p] /\ Go(t, "event")
      <4>1. /\ deleting'[t] = p /\ \A u \in ConThreads \ {t} : deleting'[u] = deleting[u]
            /\ place'[t] = "event" /\ p \in 1 .. created
        BY <1>3, <3>1 DEF PeersTypes, Places
      <4>2. UNCHANGED <<created, m_pending_deletion>>
        BY <1>5 DEF DeleteErase
      <4>3. \A u \in ConThreads \ {t} : deleting[u] # p /\ (place'[u] = place[u])
          BY <2>1, <2>3, <3>1 DEF Deletions
      <4>4. ~m_pending_deletion[p]
        BY <3>1 DEF Deletions
      <4>5. \A q \in PeerIds : m_pending_deletion'[q] => q \in 1 .. created' \ m_peers'
        BY <2>1, <4>2 DEF Deletions
      <4>6. \A u \in ConThreads \ {t} : deleting[u] # NoPeer => deleting[u] \in 1 .. created' \ m_peers'
        BY <2>1, <4>2 DEF Deletions
      <4>7. p \in 1 .. created' \ m_peers'
        BY <2>1, <4>1, <4>2
      <4> QED BY <2>1, <4>1, <4>2, <4>3, <4>4, <4>5, <4>6, <4>7 DEF Deletions
    <3>2. CASE Go(t, "finish") /\ UNCHANGED deleting
      <4>1. place'[t] = "finish"
        BY <1>3, <3>2 DEF Places
      <4> QED BY <1>5, <2>1, <2>3, <3>2, <4>1 DEF DeleteErase, Deletions
    <3> QED BY <2>2, <3>1, <3>2
  <2> QED BY <1>2, <2>4, <2>5, <2>6
<1>6. CASE HandlePacket
  <2>1. PICK there \in {"data", "finish", "erase", "process"} : Go("receive", there)
    BY <1>6 DEF HandlePacket
  <2>2. /\ place' \in [ConThreads -> Places] /\ place'["receive"] = there
        /\ \A u \in ConThreads \ {"receive"} : place'[u] = place[u]
    BY <1>3, <2>1 DEF Places, ConThreads
  <2>3. Depth("receive") \in 2 .. 3 /\ place["receive"] = "handle"
    BY <1>6 DEF HandlePacket, Stacks
  <2>4. result' \in PeerIds \union {NoPeer}
    <3>1. Held("receive") \in PeerIds
      BY <2>3, HeldPeer DEF ConThreads
    <3> QED BY <1>6, <3>1 DEF HandlePacket, PeersTypes
  <2>5. PeersTypes'
    BY <1>6, <2>2, <2>4 DEF HandlePacket, PeersTypes
  <2>6. there = "process" => Depth("receive") = 2
    <3>1. there = "process" => place'["receive"] # "data" /\ place'["receive"] # "finish"
                               /\ place'["receive"] # "erase"
      BY <2>2
    <3>2. \A x \in {"data", "finish", "erase"} : Go("receive", x) => place'["receive"] = x
      BY <1>3 DEF ConThreads, Places
    <3> QED BY <1>6, <3>1, <3>2 DEF HandlePacket, Depth
  <2>7. Stacks'
    <3>1. there = "data" => result' \in PeerIds
      <4>1. \A x \in {"finish", "erase", "process"} : Go("receive", x) => place'["receive"] = x
        BY <1>3 DEF ConThreads, Places
      <4>2. Held("receive") \in PeerIds
        BY <2>3, HeldPeer DEF ConThreads
      <4> QED BY <1>6, <2>2, <4>1, <4>2 DEF HandlePacket
    <3> QED BY <1>2, <2>2, <2>3, <2>6, <3>1 DEF Stacks, ConThreads
  <2>8. Deletions'
    BY <1>6, <2>2, <2>3 DEF HandlePacket, Deletions
  <2> QED BY <1>2, <2>5, <2>7, <2>8
<1>7. CASE PutData
  <2>1. /\ place' \in [ConThreads -> Places] /\ place'["receive"] = "finish"
        /\ \A u \in ConThreads \ {"receive"} : place'[u] = place[u]
    BY <1>3, <1>7 DEF PutData, Places, ConThreads
  <2>2. result \in PeerIds /\ putEvent("data", result) /\ result' = NoPeer
        /\ place["receive"] = "data"
    BY <1>7 DEF PutData, Stacks
  <2>3. m_event_queue' \in Seq(Events)
    BY <2>2, EventPut
  <2>4. PeersTypes'
    BY <1>7, <2>1, <2>2, <2>3 DEF PutData, PeersTypes
  <2>5. Stacks'
    BY <1>2, <2>1 DEF Stacks, ConThreads
  <2>6. Deletions'
    BY <1>7, <2>1, <2>2 DEF PutData, Deletions
  <2> QED BY <1>2, <2>4, <2>5, <2>6
<1>8. CASE Visited
  <2>1. /\ place' \in [ConThreads -> Places] /\ place'["send"] = "finish"
        /\ \A u \in ConThreads \ {"send"} : place'[u] = place[u]
    BY <1>3, <1>8 DEF Visited, Places, ConThreads
  <2>2. timeouted_peers' \subseteq PeerIds
    <3>1. Held("send") \in PeerIds
      BY <1>8, HeldPeer DEF ConThreads, Visited, Stacks
    <3> QED BY <1>8, <3>1 DEF Visited, PeersTypes
  <2>3. PeersTypes'
    BY <1>8, <2>1, <2>2 DEF Visited, PeersTypes
  <2>4. Stacks'
    <3>1. result' = result
      BY <1>8 DEF Visited
    <3> QED BY <1>2, <2>1, <3>1 DEF Stacks, ConThreads
  <2>5. Deletions'
    BY <1>8, <2>1 DEF Visited, Deletions
  <2> QED BY <1>2, <2>3, <2>4, <2>5
<1>9. CASE BeginDelete
  <2>1. /\ place' \in [ConThreads -> Places] /\ place'["send"] = "erase"
        /\ \A u \in ConThreads \ {"send"} : place'[u] = place[u]
    BY <1>3, <1>9 DEF BeginDelete, Places, ConThreads
  <2>2. PeersTypes'
    BY <1>9, <2>1 DEF BeginDelete, PeersTypes
  <2>3. Stacks'
    BY <1>2, <1>9, <2>1 DEF BeginDelete, Stacks, ConThreads
  <2>4. Deletions'
    BY <1>9, <2>1 DEF BeginDelete, Deletions
  <2> QED BY <1>2, <2>2, <2>3, <2>4
<1>10. ASSUME NEW t \in ConThreads, DeleteEvent(t) PROVE PeersInv'
  <2>1. /\ place' \in [ConThreads -> Places] /\ place'[t] = "drop" /\ place[t] = "event"
        /\ \A u \in ConThreads \ {t} : place'[u] = place[u]
    BY <1>3, <1>10 DEF DeleteEvent, Places
  <2>2. deleting[t] \in PeerIds
    BY <2>1 DEF Deletions, PeersTypes
  <2>3. m_event_queue' \in Seq(Events)
    BY <1>10, <2>2, EventPut DEF DeleteEvent
  <2>4. PeersTypes'
    BY <1>10, <2>1, <2>3 DEF DeleteEvent, PeersTypes
  <2>5. Stacks'
    <3>1. result' = result /\ t # "user"
      BY <1>10, <2>1 DEF DeleteEvent, Stacks
    <3>2. CASE t = "receive"
      BY <1>2, <2>1, <3>1, <3>2 DEF Stacks, ConThreads
    <3>3. CASE t = "send"
      BY <1>2, <2>1, <3>1, <3>3 DEF Stacks, ConThreads
    <3> QED BY <3>1, <3>2, <3>3 DEF ConThreads
  <2>6. Deletions'
    BY <1>10, <2>1 DEF DeleteEvent, Deletions
  <2> QED BY <1>2, <2>4, <2>5, <2>6
<1>11. ASSUME NEW t \in ConThreads, Left(t) PROVE PeersInv'
  <2>1. /\ place' \in [ConThreads -> Places] /\ place'[t] = "idle" /\ place[t] = "finish"
        /\ \A u \in ConThreads \ {t} : place'[u] = place[u]
    BY <1>3, <1>11 DEF Left, Places
  <2>2. Depth(t) = 0
    BY <1>11 DEF Left, Depth
  <2>3. PeersTypes'
    BY <1>11, <2>1 DEF Left, PeersTypes
  <2>4. Stacks'
    <3>1. result' = result
      BY <1>11 DEF Left
    <3>2. CASE t = "receive"
      BY <1>2, <2>1, <2>2, <3>1, <3>2 DEF Stacks, ConThreads
    <3>3. CASE t = "send"
      BY <1>2, <2>1, <2>2, <3>1, <3>3 DEF Stacks, ConThreads
    <3>4. CASE t = "user"
      BY <1>2, <2>1, <2>2, <3>1, <3>4 DEF Stacks, ConThreads
    <3> QED BY <3>2, <3>3, <3>4 DEF ConThreads
  <2>5. Deletions'
    BY <1>11, <2>1 DEF Left, Deletions
  <2> QED BY <1>2, <2>3, <2>4, <2>5
<1>12. CASE TakeEvent
  <2> DEFINE e == Head(m_event_queue)
  <2>1. m_event_queue' \in Seq(Events) /\ e \in Events
    BY <1>12, EventTaken
  <2>2. /\ told' = [told EXCEPT ![e.peer] = Heard(@, e.type)]
        /\ late' = [late EXCEPT ![e.peer] =
                      IF e.type = "data" /\ told[e.peer] = "removed" THEN @ + 1 ELSE @]
    BY <1>12 DEF TakeEvent
  <2> HIDE DEF e
  <2>3. e.peer \in PeerIds /\ told[e.peer] \in {"nothing", "added", "removed", "wrong"}
        /\ late[e.peer] \in Nat
    BY <2>1 DEF Events, PeersTypes
  <2>4. Heard(told[e.peer], e.type) \in {"nothing", "added", "removed", "wrong"}
    BY <2>1, <2>3 DEF Heard, Events
  <2>5. /\ told' \in [PeerIds -> {"nothing", "added", "removed", "wrong"}]
        /\ late' \in [PeerIds -> Nat]
    BY <2>2, <2>3, <2>4 DEF PeersTypes
  <2>6. UNCHANGED <<m_peers, attributeVars, countVars, threadVars>>
    BY <1>12 DEF TakeEvent
  <2>7. PeersTypes'
    BY <2>1, <2>5, <2>6 DEF PeersTypes
  <2>8. Stacks'
    BY <1>2, <2>6 DEF Stacks, ConThreads
  <2>9. Deletions'
    BY <2>6 DEF Deletions
  <2> QED BY <1>2, <2>7, <2>8, <2>9
<1> QED BY <1>4, <1>5, <1>6, <1>7, <1>8, <1>9, <1>10, <1>11, <1>12

LEMMA LeaveStep == ASSUME PeersInv, NEW t \in ConThreads, Leave(t) PROVE PeersInv'
<1> USE DEF PeersInv, attributeVars, ghostVars
<1>1. /\ Depth(t) \in 0 .. 3 /\ (t # "receive" => Depth(t) \in 0 .. 1)
      /\ place[t] \in {"finish", "data"} /\ DecUseCount(t)
      /\ UNCHANGED <<m_peers, attributeVars, m_pending_deletion, m_event_queue, place, deleting,
                     timeouted_peers, unbuffering, result, ghostVars>>
  BY DEF Leave, Stacks, ConThreads
<1>2. /\ helpers' \in [ConThreads -> Seq(PeerIds)] /\ Depth(t)' = Depth(t) - 1 /\ Depth(t) # 0
      /\ \A u \in ConThreads \ {t} : Depth(u)' = Depth(u)
  BY <1>1, Popped
<1>3. Counts' /\ m_usage' \in [PeerIds -> Nat] /\ freed' \in [PeerIds -> Nat]
  BY <1>1, CountsPopped
<1>4. PeersTypes'
  BY <1>1, <1>2, <1>3 DEF PeersTypes
<1>5. Stacks'
  <2>1. CASE t = "receive"
    BY <1>1, <1>2, <2>1 DEF Stacks, ConThreads
  <2>2. CASE t = "send"
    BY <1>1, <1>2, <2>2 DEF Stacks, ConThreads
  <2>3. CASE t = "user"
    BY <1>1, <1>2, <2>3 DEF Stacks, ConThreads
  <2> QED BY <2>1, <2>2, <2>3 DEF ConThreads
<1>6. Deletions'
  BY <1>1 DEF Deletions
<1> QED BY <1>3, <1>4, <1>5, <1>6

LEMMA DropStep == ASSUME PeersInv, NEW t \in ConThreads, DeleteDrop(t) PROVE PeersInv'
<1> USE DEF PeersInv, attributeVars, ghostVars
<1>1. /\ place[t] = "drop" /\ place' = [place EXCEPT ![t] = "finish"]
      /\ deleting' = [deleting EXCEPT ![t] = NoPeer]
      /\ m_pending_deletion' = [m_pending_deletion EXCEPT ![deleting[t]] = TRUE]
      /\ UNCHANGED <<m_peers, attributeVars, m_usage, m_event_queue, helpers, timeouted_peers,
                     unbuffering, result, ghostVars>>
  BY DEF DeleteDrop, Go
<1>2. Counts' /\ m_pending_deletion' \in [PeerIds -> BOOLEAN] /\ freed' \in [PeerIds -> Nat]
  BY CountsDropped
<1>3. PeersTypes'
  BY <1>1, <1>2 DEF PeersTypes, Places
<1>4. /\ place'[t] = "finish" /\ \A u \in ConThreads \ {t} : place'[u] = place[u]
      /\ deleting'[t] = NoPeer /\ \A u \in ConThreads \ {t} : deleting'[u] = deleting[u]
  BY <1>1 DEF PeersTypes
<1>5. Stacks'
  <2>1. \A u \in ConThreads : Depth(u)' = Depth(u)
    BY <1>1 DEF Depth
  <2> QED BY <1>1, <1>4, <2>1 DEF Stacks, ConThreads
<1>6. Deletions'
  <2>1. deleting[t] \in PeerIds /\ deleting[t] \in 1 .. created \ m_peers
    BY <1>1 DEF Deletions, PeersTypes
  <2>2. \A q \in PeerIds \ {deleting[t]} : m_pending_deletion'[q] = m_pending_deletion[q]
    BY <1>1 DEF PeersTypes
  <2>3. \A u \in ConThreads \ {t} : deleting[u] # NoPeer => deleting[u] # deleting[t] /\ deleting[u] \in PeerIds
    BY <1>1 DEF Deletions, PeersTypes
  <2>4. \A q \in PeerIds : m_pending_deletion'[q] => q \in 1 .. created' \ m_peers'
    BY <1>1, <2>1, <2>2 DEF Deletions
  <2> QED BY <1>1, <1>4, <2>2, <2>3, <2>4 DEF Deletions
<1> QED BY <1>2, <1>3, <1>5, <1>6

LEMMA PeersInvStep == PeersInv /\ [PeersNext]_peersVars => PeersInv'
<1> SUFFICES ASSUME PeersInv, [PeersNext]_peersVars PROVE PeersInv'
  OBVIOUS
<1>1. CASE UNCHANGED peersVars
  <2> USE DEF PeersInv, attributeVars, countVars, threadVars, ghostVars
  <2>1. UNCHANGED <<m_peers, attributeVars, countVars, m_event_queue, threadVars, ghostVars>>
    BY <1>1 DEF peersVars
  <2>2. PeersTypes'
    BY <2>1 DEF PeersTypes
  <2>3. Counts' /\ \A t \in ConThreads : Depth(t)' = Depth(t)
    BY <2>1, SameCounts DEF Depth
  <2>4. Stacks'
    BY <2>1, <2>3 DEF Stacks, ConThreads
  <2>5. Deletions'
    BY <2>1 DEF Deletions
  <2> QED BY <2>2, <2>3, <2>4, <2>5
<1>2. CASE PeersNext
  BY <1>2, TakingStep, QuietStepOfPeers, LeaveStep, DropStep DEF PeersNext
<1> QED BY <1>1, <1>2

(* No thread holds, is deleting or can find a freed peer, none is freed    *)
(* twice, and who drops the last use of a peer that is out of the map      *)
(* frees it, whatever the three threads do with it at the same time.       *)
THEOREM FreedInTimeCorrect == PeersSpec => []FreedInTime
<1>1. PeersInv => FreedInTime
  <2> SUFFICES ASSUME PeersInv, NEW p \in 1 .. created
               PROVE  /\ m_usage[p] = Cardinality(Uses(p))
                      /\ freed[p] = IF m_pending_deletion[p] /\ Uses(p) = {} THEN 1 ELSE 0
                      /\ p \in m_peers \union {deleting[t] : t \in ConThreads} => ~m_pending_deletion[p]
    BY DEF FreedInTime
  <2>1. p \in PeerIds
    BY PeersAssumption DEF PeersInv, PeersTypes, PeerIds
  <2>2. \A t \in ConThreads : deleting[t] = p => ~m_pending_deletion[p]
    BY <2>1, PeersAssumption DEF PeersInv, Deletions, PeerIds
  <2> QED BY <2>1, <2>2 DEF PeersInv, Counts, Deletions
<1> QED BY <1>1, PeersInvInit, PeersInvStep, PTL DEF PeersSpec

(* What is put or taken, in terms of who is told what.                     *)
LEMMA IsOne ==
  ASSUME NEW i, NEW type, NEW p, NEW type2, NEW p2, Is(i, type, p), Is(i, type2, p2)
  PROVE  type = type2 /\ p = p2
BY DEF Is

LEMMA IsPut ==
  ASSUME PeersTypes, NEW type \in {"added", "data", "removed"}, NEW p \in PeerIds,
         putEvent(type, p), NEW i, NEW type2, NEW q
  PROVE  Is(i, type2, q)' <=> (Is(i, type2, q) \/ (i = Len(m_event_queue) + 1 /\ type2 = type /\ q = p))
<1> DEFINE n == Len(m_event_queue)
<1>1. /\ n \in Nat /\ Len(m_event_queue') = n + 1
      /\ \A j \in 1 .. n : m_event_queue'[j] = m_event_queue[j]
      /\ m_event_queue'[n + 1] = [type |-> type, peer |-> p]
  BY EventPut DEF PeersTypes
<1>2. i \in 1 .. n + 1 <=> i \in 1 .. n \/ i = n + 1
  BY <1>1
<1>3. n + 1 \notin 1 .. n
  BY <1>1
<1> QED BY <1>1, <1>2, <1>3 DEF Is, Indices

LEMMA IsTaken ==
  ASSUME PeersTypes, TakeEvent, NEW i \in Nat \ {0}, NEW type, NEW q
  PROVE  Is(i, type, q)' <=> Is(i + 1, type, q)
<1> DEFINE n == Len(m_event_queue)
<1>1. /\ n \in Nat \ {0} /\ Len(m_event_queue') = n - 1
      /\ \A j \in 1 .. n - 1 : m_event_queue'[j] = m_event_queue[j + 1]
  BY EventTaken
<1>2. i \in 1 .. n - 1 <=> i + 1 \in 1 .. n
  BY <1>1
<1> QED BY <1>1, <1>2 DEF Is, Indices

LEMMA EventsInvInit == PeersInit => EventsInv
<1> SUFFICES ASSUME PeersInit PROVE EventsInv
  OBVIOUS
<1>1. Len(m_event_queue) = 0 /\ \A i, type, p : ~Is(i, type, p)
  BY DEF PeersInit, Is, Indices
<1>2. HeldCreated
  BY DEF PeersInit, HeldCreated, HeldIn, Depth, ConThreads
<1>3. ASSUME NEW p \in PeerIds PROVE Announced(p) /\ RemovedOnce(p) /\ LateOnce(p)
  <2>1. ~(p <= created) /\ told[p] = "nothing" /\ late[p] = 0
    BY <1>3 DEF PeersInit, PeerIds
  <2>2. ~Removed(p) /\ \A i : ~LateAt(i, p)
    BY <1>1, <2>1 DEF Removed, LateAt
  <2> QED BY <1>1, <2>1, <2>2 DEF Announced, RemovedOnce, LateOnce
<1> QED BY <1>2, <1>3 DEF EventsInv

(* A step that puts and takes nothing keeps all of it, if who is taken out *)
(* of the map, and whose data are at hand, was in the map.                 *)
LEMMA EventsKept ==
  ASSUME EventsInv, UNCHANGED <<created, m_event_queue, told, late>>, m_peers' \subseteq m_peers,
         \A p \in PeerIds :
           /\ \A t \in ConThreads :
                place'[t] = "event" /\ deleting'[t] = p =>
                  (place[t] = "event" /\ deleting[t] = p) \/ (p \in m_peers)
           /\ AtData(p)' => AtData(p) \/ p \in m_peers
  PROVE  \A p \in PeerIds : Announced(p)' /\ RemovedOnce(p)' /\ LateOnce(p)'
<1> SUFFICES ASSUME NEW p \in PeerIds PROVE Announced(p)' /\ RemovedOnce(p)' /\ LateOnce(p)'
  OBVIOUS
<1>1. Announced(p) /\ RemovedOnce(p) /\ LateOnce(p)
  BY DEF EventsInv
<1>2. \A i, type : Is(i, type, p)' = Is(i, type, p)
  BY DEF Is, Indices
<1>3. (Removed(p)' <=> Removed(p)) /\ \A i : LateAt(i, p)' <=> LateAt(i, p)
  BY <1>2 DEF Removed, LateAt, Indices
<1>4. Announced(p)'
  BY <1>1, <1>2 DEF Announced, IsAbout, Indices
<1>5. RemovedOnce(p)'
  BY <1>1, <1>3 DEF RemovedOnce
<1>6. LateOnce(p)'
  BY <1>1, <1>3 DEF LateOnce, NoneLate, RemovedOnce, Indices
<1> QED BY <1>4, <1>5, <1>6

(* Something is put: "added" of somebody new, data of somebody known, or   *)
(* "removed" by who took the peer out of the map.                          *)
LEMMA EventsPut ==
  ASSUME PeersInv, EventsInv, NEW type \in {"added", "data", "removed"}, NEW p \in PeerIds,
         putEvent(type, p), UNCHANGED <<told, late>>,
         type = "added" => created' = created + 1 /\ p = created'
         /\ m_peers' = m_peers \union {p} /\ UNCHANGED <<place, deleting, result, helpers>>,
         type # "added" => p <= created /\ UNCHANGED <<created, m_peers, deleting, helpers>>,
         type = "data" => AtData(p) /\ place'["receive"] = "finish"
         /\ \A t \in ConThreads : place'[t] = "event" => place[t] = "event",
         type = "removed" => \E t \in ConThreads :
           /\ place[t] = "event" /\ deleting[t] = p /\ place'[t] = "drop" /\ UNCHANGED result
           /\ \A u \in ConThreads \ {t} : place'[u] = place[u]
  PROVE  \A q \in PeerIds : Announced(q)' /\ RemovedOnce(q)' /\ LateOnce(q)'
<1> DEFINE n == Len(m_event_queue)
<1> SUFFICES ASSUME NEW q \in PeerIds PROVE Announced(q)' /\ RemovedOnce(q)' /\ LateOnce(q)'
  OBVIOUS
<1> USE DEF PeersInv
<1>1. /\ Announced(q) /\ RemovedOnce(q) /\ LateOnce(q)
      /\ told[q] \in {"nothing", "added", "removed", "wrong"} /\ late[q] \in Nat
      /\ created \in Nat /\ q \in Nat
  BY DEF EventsInv, PeersTypes, PeerIds
<1>2. /\ n \in Nat /\ Indices' = Indices \union {n + 1}
      /\ \A i \in Indices : i \in Nat /\ i < n + 1 /\ ~(n + 1 < i)
      /\ n + 1 \notin Indices /\ ~(n + 1 < n + 1)
  <2>1. Len(m_event_queue') = n + 1
    BY EventPut
  <2>2. n \in Nat
    BY DEF PeersTypes
  <2> HIDE DEF n
  <2> QED BY <2>1, <2>2 DEF Indices, n
<1>3. \A i, type2 : Is(i, type2, q)' <=> (Is(i, type2, q) \/ (i = n + 1 /\ type2 = type /\ q = p))
  BY IsPut
<1>4. \A i, type2 : Is(i, type2, q) => i \in Indices
  BY DEF Is
<1> HIDE DEF n
<1> DEFINE new == n + 1
<1>5. /\ Indices' = Indices \union {new} /\ new \notin Indices /\ ~(new < new)
      /\ \A i \in Indices : i < new /\ ~(new < i)
      /\ \A i, type2 : Is(i, type2, q)' <=> (Is(i, type2, q) \/ (i = new /\ type2 = type /\ q = p))
      /\ \A i, type2 : Is(i, type2, q) => i \in Indices
  BY <1>2, <1>3, <1>4
<1> HIDE DEF new
<1>6. CASE q # p
  <2>1. \A i, type2 : Is(i, type2, q)' <=> Is(i, type2, q)
    BY <1>3, <1>6
  <2>2. (Removed(q)' <=> Removed(q)) /\ \A i : LateAt(i, q)' <=> LateAt(i, q)
    BY <1>5, <2>1 DEF Removed, LateAt
  <2>3. \A i : IsAbout(i, q)' <=> IsAbout(i, q)
    BY <2>1 DEF IsAbout
  <2>4. q <= created <=> q <= created'
    BY <1>1, <1>6
  <2>5. Announced(q)'
    BY <1>1, <1>5, <2>1, <2>3, <2>4 DEF Announced
  <2>6. RemovedOnce(q)'
    BY <1>1, <1>6, <2>2 DEF RemovedOnce
  <2>7. AtData(q)' => AtData(q)
    BY <1>6 DEF AtData, Held, ConThreads
  <2>8. LateOnce(q)'
    BY <1>1, <1>5, <2>2, <2>7 DEF LateOnce, NoneLate, LateAt
  <2> QED BY <2>5, <2>6, <2>8
<1>7. CASE q = p /\ type = "added"
  <2>1. ~(q <= created) /\ q <= created'
    BY <1>1, <1>7
  <2>2. told[q] = "nothing" /\ \A i, type2 : type2 \in {"added", "data", "removed"} => ~Is(i, type2, q)
    BY <1>1, <1>5, <2>1 DEF Announced
  <2>3. \A i, type2 : type2 \in {"added", "data", "removed"} => (Is(i, type2, q)' <=> i = new /\ type2 = type)
    BY <1>5, <1>7, <2>2
  <2>4. ~Removed(q)' /\ late'[q] = 0 /\ \A i : ~LateAt(i, q)'
    BY <1>1, <1>7, <2>2, <2>3 DEF Removed, LateAt, LateOnce
  <2>5. Announced(q)'
    BY <1>5, <1>7, <2>1, <2>2, <2>3 DEF Announced, IsAbout
  <2> QED BY <2>4, <2>5 DEF RemovedOnce, LateOnce
<1>8. CASE q = p /\ type = "data"
  <2>1. \A i : /\ Is(i, "added", q)' <=> Is(i, "added", q)
               /\ Is(i, "removed", q)' <=> Is(i, "removed", q)
               /\ Is(i, "data", q)' <=> (Is(i, "data", q) \/ i = new)
    BY <1>5, <1>8
  <2>2. told[q] # "nothing" \/ \E i \in Indices : Is(i, "added", q)
    BY <1>1, <1>8 DEF Announced
  <2>3. Announced(q)'
    BY <1>1, <1>5, <1>8, <2>1, <2>2 DEF Announced, IsAbout
  <2>4. Removed(q)' <=> Removed(q)
    BY <1>5, <2>1 DEF Removed
  <2>5. RemovedOnce(q)'
    BY <1>1, <1>8, <2>4 DEF RemovedOnce
  <2>6. ~AtData(q)'
    BY <1>8 DEF AtData
  <2>7. \A i : LateAt(i, q)' <=> (LateAt(i, q) \/ (i = new /\ Removed(q)))
    BY <1>5, <2>1 DEF LateAt, Removed
  <2>8. Removed(q) => NoneLate(q)
    BY <1>1, <1>8 DEF LateOnce
  <2>9. LateOnce(q)'
    BY <1>1, <1>5, <2>6, <2>7, <2>8 DEF LateOnce, NoneLate, LateAt
  <2> QED BY <2>3, <2>5, <2>9
<1>9. CASE q = p /\ type = "removed"
  <2>1. \A i : /\ Is(i, "added", q)' <=> Is(i, "added", q)
               /\ Is(i, "data", q)' <=> Is(i, "data", q)
               /\ Is(i, "removed", q)' <=> (Is(i, "removed", q) \/ i = new)
    BY <1>5, <1>9
  <2>2. told[q] # "nothing" \/ \E i \in Indices : Is(i, "added", q)
    BY <1>1, <1>9 DEF Announced
  <2>3. ~Removed(q)
    BY <1>1, <1>9 DEF RemovedOnce
  <2>4. Announced(q)'
    BY <1>1, <1>5, <1>9, <2>1, <2>2, <2>3 DEF Announced, IsAbout, Removed
  <2>5. RemovedOnce(q)'
    <3>1. PICK t \in ConThreads :
            /\ place[t] = "event" /\ deleting[t] = p /\ place'[t] = "drop" /\ UNCHANGED result
            /\ \A u \in ConThreads \ {t} : place'[u] = place[u]
      BY <1>9
    <3>2. deleting[t] \in 1 .. created \ m_peers /\ \A u \in ConThreads \ {t} : deleting[u] # deleting[t]
      BY <3>1 DEF Deletions
    <3> QED BY <1>9, <3>1, <3>2 DEF RemovedOnce
  <2>6. \A i : ~LateAt(i, q)'
    <3>1. \A i : Is(i, "data", q)' => i \in Indices /\ told[q] # "removed"
      BY <1>5, <2>1, <2>3 DEF Removed
    <3>2. \A i \in Indices, j \in Indices' : j < i => ~Is(j, "removed", q)'
      BY <1>5, <2>1, <2>3 DEF Removed
    <3> QED BY <3>1, <3>2 DEF LateAt
  <2>7. late'[q] = 0
    BY <1>1, <2>3 DEF LateOnce, Removed
  <2>8. LateOnce(q)'
    BY <2>6, <2>7 DEF LateOnce, NoneLate
  <2> QED BY <2>4, <2>5, <2>8
<1> QED BY <1>6, <1>7, <1>8, <1>9

(* The user takes an event: what was to come about its peer is told.       *)
LEMMA EventsTaken ==
  ASSUME PeersInv, EventsInv, TakeEvent
  PROVE  \A q \in PeerIds : Announced(q)' /\ RemovedOnce(q)' /\ LateOnce(q)'
<1> USE DEF PeersInv
<1>1. PICK e : e = Head(m_event_queue)
  OBVIOUS
<1>2. /\ e \in Events /\ Is(1, e.type, e.peer)
  BY <1>1, EventTaken DEF Is, Indices, Events
<1>3. /\ told' = [told EXCEPT ![e.peer] = Heard(@, e.type)]
      /\ late' = [late EXCEPT ![e.peer] =
                    IF e.type = "data" /\ told[e.peer] = "removed" THEN @ + 1 ELSE @]
      /\ UNCHANGED <<m_peers, created, place, helpers, deleting, result>>
  BY <1>1 DEF TakeEvent, attributeVars, threadVars
<1>4. /\ \A i \in Indices' : i \in Nat \ {0} /\ i + 1 \in Indices
      /\ \A i \in Indices : i = 1 \/ (i - 1 \in Indices' /\ (i - 1) + 1 = i)
      /\ \A i \in Indices : i \in Nat \ {0} /\ (i # 1 => 1 < i)
      /\ 1 \in Indices
  <2>1. /\ Len(m_event_queue) \in Nat \ {0} /\ Len(m_event_queue') = Len(m_event_queue) - 1
    BY EventTaken
  <2> QED BY <2>1 DEF Indices
<1> SUFFICES ASSUME NEW q \in PeerIds PROVE Announced(q)' /\ RemovedOnce(q)' /\ LateOnce(q)'
  OBVIOUS
<1>5. /\ Announced(q) /\ RemovedOnce(q) /\ LateOnce(q)
      /\ told[q] \in {"nothing", "added", "removed", "wrong"} /\ late[q] \in Nat
  BY DEF EventsInv, PeersTypes
<1>6. \A i \in Indices' : \A type : Is(i, type, q)' <=> Is(i + 1, type, q)
  BY <1>4, IsTaken
<1>7. \A type : (\E i \in Indices : Is(i, type, q)) <=> (Is(1, type, q) \/ \E i \in Indices' : Is(i, type, q)')
  BY <1>4, <1>6
<1>8. \A i \in Indices' : \A type :
        (\E j \in Indices : j < i + 1 /\ Is(j, type, q))
          <=> (Is(1, type, q) \/ \E j \in Indices' : j < i /\ Is(j, type, q)')
  <2> SUFFICES ASSUME NEW i \in Indices', NEW type
               PROVE  (\E j \in Indices : j < i + 1 /\ Is(j, type, q))
                        <=> (Is(1, type, q) \/ \E j \in Indices' : j < i /\ Is(j, type, q)')
    OBVIOUS
  <2>1. i \in Nat \ {0}
    BY <1>4
  <2>2. ASSUME NEW j \in Indices, j < i + 1, Is(j, type, q)
        PROVE  Is(1, type, q) \/ \E k \in Indices' : k < i /\ Is(k, type, q)'
    <3>1. CASE j = 1
      BY <2>2, <3>1
    <3>2. CASE j # 1
      <4>1. j - 1 \in Indices' /\ (j - 1) + 1 = j /\ j \in Nat
        BY <1>4, <3>2
      <4>2. j - 1 < i
        BY <2>1, <2>2, <4>1
      <4>3. Is(j - 1, type, q)'
        BY <1>6, <2>2, <4>1
      <4> QED BY <4>1, <4>2, <4>3
    <3> QED BY <3>1, <3>2
  <2>3. ASSUME NEW j \in Indices', j < i, Is(j, type, q)'
        PROVE  \E k \in Indices : k < i + 1 /\ Is(k, type, q)
    <3>1. j + 1 \in Indices /\ j \in Nat /\ Is(j + 1, type, q)
      BY <1>4, <1>6, <2>3
    <3> QED BY <2>1, <2>3, <3>1
  <2>4. 1 \in Indices /\ 1 < i + 1
    BY <1>4, <2>1
  <2> QED BY <2>2, <2>3, <2>4
<1> DEFINE EarlierIs(i, type) == \E j \in Indices : j < i /\ Is(j, type, q)
           BeforeNow(i, type) == \E j \in Indices' : j < i /\ Is(j, type, q)'
<1>9. \A i \in Indices' : \A type : EarlierIs(i + 1, type) <=> (Is(1, type, q) \/ BeforeNow(i, type))
  BY <1>8
<1>10. /\ \A i \in Indices :
            /\ Is(i, "added", q) =>
                 told[q] = "nothing" /\ \A type \in {"added", "data", "removed"} : ~EarlierIs(i, type)
            /\ Is(i, "data", q) \/ Is(i, "removed", q) => told[q] # "nothing" \/ EarlierIs(i, "added")
            /\ Is(i, "removed", q) => told[q] # "removed" /\ ~EarlierIs(i, "removed")
            /\ LateAt(i, q) <=> Is(i, "data", q) /\ (told[q] = "removed" \/ EarlierIs(i, "removed"))
       /\ \A type : ~EarlierIs(1, type)
  <2>1. \A type : ~EarlierIs(1, type)
    <3>1. \A j \in Indices : ~(j < 1)
      BY <1>4
    <3> QED BY <3>1
  <2>2. ASSUME NEW i \in Indices
        PROVE  /\ Is(i, "added", q) =>
                    told[q] = "nothing" /\ \A type \in {"added", "data", "removed"} : ~EarlierIs(i, type)
               /\ Is(i, "data", q) \/ Is(i, "removed", q) => told[q] # "nothing" \/ EarlierIs(i, "added")
               /\ Is(i, "removed", q) => told[q] # "removed" /\ ~EarlierIs(i, "removed")
    BY <1>5 DEF Announced, IsAbout
  <2>3. \A i : LateAt(i, q) <=> Is(i, "data", q) /\ (told[q] = "removed" \/ EarlierIs(i, "removed"))
    BY DEF LateAt
  <2> QED BY <2>1, <2>2, <2>3
<1>11. /\ (\A i \in Indices' :
              /\ Is(i, "added", q)' => /\ told'[q] = "nothing" /\ ~BeforeNow(i, "added")
                                       /\ ~BeforeNow(i, "data") /\ ~BeforeNow(i, "removed")
              /\ Is(i, "data", q)' \/ Is(i, "removed", q)' =>
                   told'[q] # "nothing" \/ BeforeNow(i, "added")
              /\ Is(i, "removed", q)' => told'[q] # "removed" /\ ~BeforeNow(i, "removed"))
       /\ told'[q] # "wrong"
       /\ (q <= created <=> (told'[q] # "nothing" \/ \E i \in Indices' : Is(i, "added", q)'))
       => Announced(q)'
  <2>1. \A i \in Indices' :
          ~BeforeNow(i, "added") /\ ~BeforeNow(i, "data") /\ ~BeforeNow(i, "removed")
          => \A j \in Indices' : j < i => ~IsAbout(j, q)'
    BY DEF IsAbout
  <2>2. created' = created
    BY <1>3
  <2> QED BY <2>1, <2>2 DEF Announced
<1>12. \A i : LateAt(i, q)' <=> Is(i, "data", q)' /\ (told'[q] = "removed" \/ BeforeNow(i, "removed"))
  BY DEF LateAt
<1> HIDE DEF EarlierIs, BeforeNow
<1>13. \A type : Is(1, type, q) <=> q = e.peer /\ type = e.type
  BY <1>2, IsOne
<1>14. /\ Is(1, "added", q) => told[q] = "nothing" /\ told'[q] = "added"
       /\ Is(1, "removed", q) => told[q] = "added" /\ told'[q] = "removed"
       /\ ~Is(1, "added", q) /\ ~Is(1, "removed", q) => told'[q] = told[q]
  <2>1. CASE q # e.peer
    BY <1>3, <1>13, <2>1 DEF PeersTypes
  <2>2. CASE q = e.peer
    <3>1. told'[q] = Heard(told[q], e.type)
      BY <1>3, <2>2 DEF PeersTypes
    <3>2. told[q] # "wrong"
      BY <1>5 DEF Announced
    <3>3. CASE e.type = "added"
      BY <1>4, <1>10, <1>13, <2>2, <3>1, <3>3 DEF Heard
    <3>4. CASE e.type = "removed"
      <4>1. told[q] = "added"
        BY <1>4, <1>5, <1>10, <1>13, <2>2, <3>2, <3>4
      <4> QED BY <1>13, <2>2, <3>1, <3>4, <4>1 DEF Heard
    <3>5. CASE e.type = "data"
      <4>1. told[q] # "nothing"
        BY <1>4, <1>10, <1>13, <2>2, <3>5
      <4>2. Heard(told[q], "data") = told[q]
        BY <4>1 DEF Heard
      <4> QED BY <1>13, <3>1, <3>5, <4>2
    <3> QED BY <1>2, <3>3, <3>4, <3>5 DEF Events
  <2> QED BY <2>1, <2>2
<1>15. /\ LateAt(1, q) => late[q] = 0 /\ late'[q] = 1 /\ told[q] = "removed" /\ told'[q] = "removed"
       /\ ~LateAt(1, q) => late'[q] = late[q]
  <2>1. LateAt(1, q) <=> q = e.peer /\ e.type = "data" /\ told[q] = "removed"
    BY <1>4, <1>10, <1>13
  <2>2. CASE LateAt(1, q)
    <3>1. late[q] = 0
      BY <1>4, <1>5, <2>2 DEF LateOnce
    <3>2. late'[q] = 0 + 1
      BY <1>3, <2>1, <2>2, <3>1 DEF PeersTypes
    <3> QED BY <1>13, <1>14, <2>1, <2>2, <3>1, <3>2
  <2>3. CASE ~LateAt(1, q)
    BY <1>3, <2>1, <2>3 DEF PeersTypes
  <2> QED BY <2>2, <2>3
<1>16. \A i \in Indices' : LateAt(i, q)' <=> LateAt(i + 1, q)
  <2> SUFFICES ASSUME NEW i \in Indices' PROVE LateAt(i, q)' <=> LateAt(i + 1, q)
    OBVIOUS
  <2>1. /\ LateAt(i, q)' <=> Is(i, "data", q)' /\ (told'[q] = "removed" \/ BeforeNow(i, "removed"))
        /\ LateAt(i + 1, q) <=> Is(i + 1, "data", q) /\ (told[q] = "removed" \/ EarlierIs(i + 1, "removed"))
    BY <1>4, <1>10, <1>12
  <2>2. told'[q] = "removed" <=> told[q] = "removed" \/ Is(1, "removed", q)
    BY <1>13, <1>14
  <2> QED BY <1>6, <1>9, <2>1, <2>2
<1>17. Removed(q)' <=> Removed(q)
  BY <1>7, <1>13, <1>14 DEF Removed
<1>18. Announced(q)'
  <2>1. ASSUME NEW i \in Indices'
        PROVE  /\ Is(i, "added", q)' => /\ told'[q] = "nothing" /\ ~BeforeNow(i, "added")
                                        /\ ~BeforeNow(i, "data") /\ ~BeforeNow(i, "removed")
               /\ Is(i, "data", q)' \/ Is(i, "removed", q)' =>
                    told'[q] # "nothing" \/ BeforeNow(i, "added")
               /\ Is(i, "removed", q)' => told'[q] # "removed" /\ ~BeforeNow(i, "removed")
    <3>1. /\ i + 1 \in Indices
          /\ \A type : Is(i, type, q)' <=> Is(i + 1, type, q)
          /\ \A type : EarlierIs(i + 1, type) <=> (Is(1, type, q) \/ BeforeNow(i, type))
      BY <1>4, <1>6, <1>9
    <3>2. Is(i, "added", q)' => /\ told'[q] = "nothing" /\ ~BeforeNow(i, "added")
                                /\ ~BeforeNow(i, "data") /\ ~BeforeNow(i, "removed")
      BY <1>10, <1>14, <3>1
    <3>3. Is(i, "data", q)' \/ Is(i, "removed", q)' => told'[q] # "nothing" \/ BeforeNow(i, "added")
      BY <1>10, <1>14, <3>1
    <3>4. Is(i, "removed", q)' => told'[q] # "removed" /\ ~BeforeNow(i, "removed")
      BY <1>10, <1>14, <3>1
    <3> QED BY <3>2, <3>3, <3>4
  <2>2. told'[q] # "wrong"
    BY <1>5, <1>14 DEF Announced
  <2>3. q <= created <=> (told'[q] # "nothing" \/ \E i \in Indices' : Is(i, "added", q)')
    BY <1>5, <1>7, <1>13, <1>14 DEF Announced
  <2> QED BY <1>11, <2>1, <2>2, <2>3
<1>19. RemovedOnce(q)'
  BY <1>3, <1>5, <1>17 DEF RemovedOnce
<1>20. LateOnce(q)'
  <2>1. AtData(q)' <=> AtData(q)
    BY <1>3 DEF AtData, Held
  <2>2. late'[q] \in {0, 1} /\ (late'[q] = 1 => told'[q] = "removed")
    BY <1>5, <1>13, <1>14, <1>15 DEF LateOnce
  <2>3. ASSUME NEW i \in Indices', LateAt(i, q)'
        PROVE  late'[q] = 0 /\ \A j \in Indices' : j < i => ~LateAt(j, q)'
    <3>1. i + 1 \in Indices /\ LateAt(i + 1, q) /\ i \in Nat \ {0} /\ 1 \in Indices /\ 1 < i + 1
      BY <1>4, <1>16, <2>3
    <3>2. ~LateAt(1, q) /\ late[q] = 0
      BY <1>5, <3>1 DEF LateOnce
    <3>3. ASSUME NEW j \in Indices', j < i PROVE ~LateAt(j, q)'
      <4>1. j + 1 \in Indices /\ j + 1 < i + 1
        BY <1>4, <3>1, <3>3
      <4> QED BY <1>5, <1>16, <3>1, <3>3, <4>1 DEF LateOnce
    <3> QED BY <1>15, <3>2, <3>3
  <2>4. Removed(q)' /\ AtData(q)' => NoneLate(q)'
    <3>1. Removed(q) /\ AtData(q) => late[q] = 0 /\ \A i \in Indices : ~LateAt(i, q)
      BY <1>5 DEF LateOnce, NoneLate
    <3> QED BY <1>4, <1>15, <1>16, <1>17, <2>1, <3>1 DEF NoneLate
  <2> QED BY <2>2, <2>3, <2>4 DEF LateOnce
<1> QED BY <1>18, <1>19, <1>20

LEMMA HeldPushed ==
  ASSUME PeersInv, EventsInv, NEW t \in ConThreads, NEW p \in PeerIds, Depth(t) \in 0 .. 2,
         getPeerNoEx(t, p), UNCHANGED created
  PROVE  HeldIn(created)'
<1>1. /\ Depth(t)' = Depth(t) + 1 /\ Held(t)' = p
      /\ \A u \in ConThreads \ {t} : helpers'[u] = helpers[u] /\ Depth(u)' = Depth(u)
      /\ \A i \in 1 .. Depth(t) : helpers'[t][i] = helpers[t][i]
  BY Pushed DEF PeersInv
<1>2. \A u \in ConThreads : \A i \in 1 .. Depth(u) : helpers[u][i] <= created
  BY DEF EventsInv, HeldCreated, HeldIn
<1>3. p <= created
  BY DEF getPeerNoEx, PeersInv, PeersTypes
<1>4. helpers'[t][Depth(t) + 1] = p
  BY <1>1 DEF Held, Depth
<1>5. ASSUME NEW i \in 1 .. Depth(t)' PROVE helpers'[t][i] <= created
  <2>1. i \in 1 .. Depth(t) \/ i = Depth(t) + 1
    BY <1>1
  <2> QED BY <1>1, <1>2, <1>3, <1>4, <2>1
<1>6. ASSUME NEW u \in ConThreads \ {t}, NEW i \in 1 .. Depth(u)' PROVE helpers'[u][i] <= created
  BY <1>1, <1>2
<1> QED BY <1>5, <1>6 DEF HeldIn

LEMMA HeldPopped ==
  ASSUME PeersInv, EventsInv, NEW t \in ConThreads, Depth(t) \in 0 .. 3, DecUseCount(t),
         UNCHANGED created
  PROVE  HeldIn(created)'
<1>1. /\ Depth(t)' = Depth(t) - 1
      /\ \A u \in ConThreads \ {t} : helpers'[u] = helpers[u] /\ Depth(u)' = Depth(u)
      /\ \A i \in 1 .. Depth(t) - 1 : helpers'[t][i] = helpers[t][i]
  BY Popped DEF PeersInv
<1>2. \A u \in ConThreads : \A i \in 1 .. Depth(u) : helpers[u][i] <= created
  BY DEF EventsInv, HeldCreated, HeldIn
<1>3. ASSUME NEW i \in 1 .. Depth(t)' PROVE helpers'[t][i] <= created
  <2>1. i \in 1 .. Depth(t) - 1 /\ i \in 1 .. Depth(t)
    BY <1>1
  <2> QED BY <1>1, <1>2, <2>1
<1>4. ASSUME NEW u \in ConThreads \ {t}, NEW i \in 1 .. Depth(u)' PROVE helpers'[u][i] <= created
  BY <1>1, <1>2
<1> QED BY <1>3, <1>4 DEF HeldIn

LEMMA HeldSame ==
  ASSUME PeersInv, EventsInv, UNCHANGED helpers, created' \in {created, created + 1}
  PROVE  HeldIn(created)'
<1>1. \A u \in ConThreads : \A i \in 1 .. Depth(u) : helpers[u][i] <= created /\ helpers[u][i] \in Nat
  <2>1. ASSUME NEW u \in ConThreads, NEW i \in 1 .. Depth(u) PROVE helpers[u][i] \in Nat
    <3>1. helpers[u] \in Seq(PeerIds) /\ i \in 1 .. Len(helpers[u])
      BY DEF PeersInv, PeersTypes, Depth
    <3>2. helpers[u][i] \in PeerIds
      BY <3>1, ElementOfSeq
    <3> QED BY <3>2 DEF PeerIds
  <2> QED BY <2>1 DEF EventsInv, HeldCreated, HeldIn
<1>2. created \in Nat
  BY DEF PeersInv, PeersTypes
<1>3. \A u \in ConThreads : Depth(u)' = Depth(u)
  BY DEF Depth
<1> QED BY <1>1, <1>2, <1>3 DEF HeldIn

(* A thread finds a peer, or goes from one place to another.               *)
LEMMA EventsTakingStep ==
  ASSUME PeersInv, EventsInv,
         \/ \E p \in PeerIds : \/ \E a \in Addresses, knew \in BOOLEAN : Receive(p, a, knew)
                               \/ getFromBuffers(p) \/ Visit(p) \/ UsePeer(p)
         \/ processPacket
  PROVE  EventsInv'
<1> USE DEF PeersInv, attributeVars, ghostVars
<1>1. UNCHANGED <<created, m_event_queue, told, late, m_peers, deleting, result>>
  BY DEF Receive, getFromBuffers, Visit, UsePeer, processPacket
<1>2. /\ \A t \in ConThreads : place[t] \in Places
      /\ HeldCreated /\ PeersTypes
  BY DEF PeersTypes, EventsInv
<1>3. ASSUME NEW p \in PeerIds, NEW t \in ConThreads, NEW there \in Places,
             Depth(t) \in 0 .. 2, getPeerNoEx(t, p), Go(t, there), there \notin {"event", "data"}
      PROVE  EventsInv'
  <2>1. HeldIn(created)'
    BY <1>1, <1>3, HeldPushed
  <2>2. /\ place'[t] = there /\ \A u \in ConThreads \ {t} : place'[u] = place[u]
    BY <1>3 DEF PeersTypes, Go
  <2>3. /\ Held(t)' = p /\ \A u \in ConThreads \ {t} : Held(u)' = Held(u)
    BY <1>3, Pushed DEF Held
  <2>4. p \in m_peers
    BY <1>3 DEF getPeerNoEx
  <2>5. \A q \in PeerIds : AtData(q)' => AtData(q) \/ q \in m_peers
    <3>1. CASE t = "receive"
      BY <1>1, <1>3, <2>2, <2>3, <2>4, <3>1 DEF AtData
    <3>2. CASE t # "receive"
      BY <1>1, <2>2, <2>3, <3>2 DEF AtData, ConThreads
    <3> QED BY <3>1, <3>2
  <2>6. \A u \in ConThreads : place'[u] = "event" => place[u] = "event"
    BY <1>3, <2>2
  <2>7. \A q \in PeerIds : Announced(q)' /\ RemovedOnce(q)' /\ LateOnce(q)'
    BY <1>1, <2>5, <2>6, EventsKept
  <2>8. place'["receive"] = "data" => place["receive"] = "data"
    BY <1>3, <2>2 DEF ConThreads
  <2>9. HeldCreated'
    BY <1>1, <1>2, <2>1, <2>8 DEF HeldCreated, HeldIn
  <2> QED BY <2>7, <2>9 DEF EventsInv
<1>4. \A t \in ConThreads : place[t] = "idle" => Depth(t) \in 0 .. 2
  <2>1. 0 \in 0 .. 2
    OBVIOUS
  <2> QED BY <2>1 DEF Stacks
<1>5. ASSUME NEW p \in PeerIds, NEW a \in Addresses, NEW knew \in BOOLEAN, Receive(p, a, knew)
      PROVE  EventsInv'
  <2>1. PICK there \in {"process", "finish"} : Go("receive", there)
    BY <1>5 DEF Receive
  <2> QED BY <1>3, <1>4, <1>5, <2>1 DEF Receive, ConThreads, Places
<1>6. ASSUME NEW p \in PeerIds, getFromBuffers(p) PROVE EventsInv'
  BY <1>3, <1>4, <1>6 DEF getFromBuffers, ConThreads, Places
<1>7. ASSUME NEW p \in PeerIds, Visit(p) PROVE EventsInv'
  BY <1>3, <1>4, <1>7 DEF Visit, ConThreads, Places
<1>8. ASSUME NEW p \in PeerIds, UsePeer(p) PROVE EventsInv'
  BY <1>3, <1>4, <1>8 DEF UsePeer, ConThreads, Places
<1>9. CASE processPacket
  <2>1. place["receive"] = "process" /\ Depth("receive") \in 1 .. 2 /\ "receive" \in ConThreads
    BY <1>9 DEF processPacket, Stacks, ConThreads
  <2>2. Depth("receive") \in 0 .. 2 /\ Depth("receive") \in Nat \ {0}
    BY <2>1
  <2>3. PICK q \in PeerIds : q = Held("receive")
    BY <2>1, <2>2, HeldPeer
  <2>4. CASE getPeerNoEx("receive", q) /\ Go("receive", "handle")
    BY <1>3, <2>1, <2>2, <2>4 DEF Places
  <2>5. CASE Go("receive", "finish") /\ UNCHANGED <<m_usage, helpers>>
    <3>1. /\ place'["receive"] = "finish"
          /\ \A u \in ConThreads \ {"receive"} : place'[u] = place[u]
      BY <2>1, <2>5 DEF PeersTypes, Go, Places
    <3>2. \A p \in PeerIds : ~AtData(p)'
      BY <3>1 DEF AtData
    <3>3. \A p \in PeerIds : Announced(p)' /\ RemovedOnce(p)' /\ LateOnce(p)'
      BY <1>1, <2>1, <3>1, <3>2, EventsKept
    <3>4. HeldIn(created)'
      BY <1>1, <2>5, HeldSame
    <3> QED BY <3>1, <3>3, <3>4 DEF EventsInv, HeldCreated, HeldIn
  <2> QED BY <1>9, <2>3, <2>4, <2>5 DEF processPacket
<1> QED BY <1>5, <1>6, <1>7, <1>8, <1>9

LEMMA EventsMovingStep ==
  ASSUME PeersInv, EventsInv,
         \/ \E p \in PeerIds, t \in ConThreads : DeleteErase(t, p)
         \/ HandlePacket \/ Visited \/ BeginDelete
         \/ \E t \in ConThreads : DeleteDrop(t) \/ Leave(t) \/ Left(t)
  PROVE  EventsInv'
<1> USE DEF PeersInv, attributeVars, ghostVars, countVars
<1>1. UNCHANGED <<created, m_event_queue, told, late>> /\ m_peers' \subseteq m_peers
  BY DEF DeleteErase, HandlePacket, Visited, BeginDelete, DeleteDrop, Leave, Left
<1>2. /\ HeldCreated /\ PeersTypes /\ Stacks
  BY DEF EventsInv
<1>3. ASSUME HeldIn(created)',
             place'["receive"] = "data" => result' <= created,
             \A p \in PeerIds :
               /\ \A t \in ConThreads :
                    place'[t] = "event" /\ deleting'[t] = p =>
                      (place[t] = "event" /\ deleting[t] = p) \/ (p \in m_peers)
               /\ AtData(p)' => AtData(p) \/ p \in m_peers
      PROVE  EventsInv'
  <2>1. \A p \in PeerIds : Announced(p)' /\ RemovedOnce(p)' /\ LateOnce(p)'
    BY <1>1, <1>3, EventsKept
  <2>2. HeldCreated'
    BY <1>1, <1>3 DEF HeldCreated, HeldIn
  <2> QED BY <2>1, <2>2 DEF EventsInv
<1>4. ASSUME NEW t \in ConThreads, NEW there \in Places, Go(t, there)
      PROVE  place'[t] = there /\ \A u \in ConThreads \ {t} : place'[u] = place[u]
  BY <1>4 DEF PeersTypes, Go
<1>5. ASSUME NEW t \in ConThreads, NEW there \in Places, Go(t, there),
             there \notin {"process", "handle", "data", "event"},
             HeldIn(created)', UNCHANGED result,
             t # "receive" => UNCHANGED helpers,
             \A u \in ConThreads \ {t} : deleting'[u] = deleting[u]
      PROVE  EventsInv'
  <2>1. place'[t] = there /\ \A u \in ConThreads \ {t} : place'[u] = place[u]
    BY <1>4, <1>5
  <2>2. place'["receive"] = "data" => result' <= created
    BY <1>2, <1>5, <2>1 DEF HeldCreated, ConThreads
  <2>3. \A p \in PeerIds : AtData(p)' => AtData(p)
    BY <1>5, <2>1 DEF AtData, Held, ConThreads
  <2>4. \A u \in ConThreads : place'[u] = "event" => place[u] = "event" /\ deleting'[u] = deleting[u]
    BY <1>5, <2>1
  <2> QED BY <1>3, <1>5, <2>2, <2>3, <2>4
<1>6. UNCHANGED helpers => HeldIn(created)'
  BY <1>1, HeldSame
<1>7. ASSUME NEW p \in PeerIds, NEW t \in ConThreads, DeleteErase(t, p) PROVE EventsInv'
  <2>1. UNCHANGED <<helpers, result>>
    BY <1>7 DEF DeleteErase
  <2>2. CASE p \in m_peers /\ deleting' = [deleting EXCEPT ![t] = p] /\ Go(t, "event")
    <3>1. /\ place'[t] = "event" /\ \A u \in ConThreads \ {t} : place'[u] = place[u]
          /\ deleting'[t] = p /\ \A u \in ConThreads \ {t} : deleting'[u] = deleting[u]
      BY <1>4, <2>2 DEF Places, PeersTypes
    <3>2. \A q \in PeerIds : AtData(q)' => AtData(q)
      BY <2>1, <3>1 DEF AtData, Held, ConThreads
    <3>3. place'["receive"] = "data" => result' <= created
      BY <1>2, <2>1, <3>1 DEF HeldCreated, ConThreads
    <3>4. \A u \in ConThreads, q \in PeerIds :
            place'[u] = "event" /\ deleting'[u] = q =>
              (place[u] = "event" /\ deleting[u] = q) \/ (q \in m_peers)
      BY <2>2, <3>1
    <3> QED BY <1>3, <1>6, <2>1, <3>2, <3>3, <3>4
  <2>3. CASE Go(t, "finish") /\ UNCHANGED deleting
    BY <1>5, <1>6, <2>1, <2>3 DEF Places
  <2> QED BY <1>7, <2>2, <2>3 DEF DeleteErase, InMap
<1>8. CASE HandlePacket
  <2>1. /\ place["receive"] = "handle" /\ UNCHANGED <<helpers, deleting>>
        /\ "receive" \in ConThreads /\ Depth("receive") \in 2 .. 3
    BY <1>8 DEF HandlePacket, Stacks, ConThreads
  <2>2. PICK q \in PeerIds : q = Held("receive")
    BY <2>1, HeldPeer
  <2>3. Held("receive") <= created
    <3>1. Depth("receive") \in 1 .. Depth("receive")
      BY <2>1
    <3> QED BY <1>2, <2>1, <3>1 DEF HeldCreated, HeldIn, Held, Depth
  <2>4. PICK there \in {"data", "finish", "erase", "process"} :
          Go("receive", there) /\ (there = "data" => result' = q) /\ (there # "data" => result' = result)
    BY <1>8, <2>2 DEF HandlePacket
  <2>5. /\ place'["receive"] = there /\ \A u \in ConThreads \ {"receive"} : place'[u] = place[u]
    BY <1>4, <2>1, <2>4 DEF Places
  <2>6. \A p \in PeerIds : AtData(p)' => AtData(p)
    BY <2>1, <2>2, <2>4, <2>5 DEF AtData, Held
  <2>7. \A u \in ConThreads : place'[u] = "event" => place[u] = "event"
    BY <2>5
  <2>8. place'["receive"] = "data" => result' <= created
    BY <2>2, <2>3, <2>4, <2>5
  <2> QED BY <1>3, <1>6, <2>1, <2>6, <2>7, <2>8
<1>9. CASE Visited
  <2>1. Go("send", "finish") /\ UNCHANGED <<helpers, result, deleting>>
    BY <1>9 DEF Visited
  <2> QED BY <1>5, <1>6, <2>1 DEF ConThreads, Places
<1>10. CASE BeginDelete
  <2>1. Go("send", "erase") /\ UNCHANGED <<helpers, result, deleting>>
    BY <1>10 DEF BeginDelete
  <2> QED BY <1>5, <1>6, <2>1 DEF ConThreads, Places
<1>11. ASSUME NEW t \in ConThreads, DeleteDrop(t) PROVE EventsInv'
  <2>1. /\ Go(t, "finish") /\ UNCHANGED <<helpers, result>>
        /\ \A u \in ConThreads \ {t} : deleting'[u] = deleting[u]
    BY <1>11 DEF DeleteDrop, PeersTypes
  <2> QED BY <1>5, <1>6, <2>1 DEF Places
<1>12. ASSUME NEW t \in ConThreads, Left(t) PROVE EventsInv'
  <2>1. Go(t, "idle") /\ UNCHANGED <<helpers, result, deleting>>
    BY <1>12 DEF Left
  <2> QED BY <1>5, <1>6, <2>1 DEF Places
<1>13. ASSUME NEW t \in ConThreads, Leave(t) PROVE EventsInv'
  <2>1. /\ DecUseCount(t) /\ UNCHANGED <<place, result, deleting>> /\ Depth(t) \in 0 .. 3
        /\ (place[t] = "finish" \/ place[t] = "data")
    BY <1>13 DEF Leave, Stacks, ConThreads
  <2>2. HeldIn(created)'
    BY <1>1, <2>1, HeldPopped
  <2>3. \A u \in ConThreads \ {t} : Held(u)' = Held(u)
    BY <2>1, Popped DEF Held
  <2>4. \A p \in PeerIds : AtData(p)' => AtData(p)
    BY <2>1, <2>3 DEF AtData, ConThreads
  <2>5. place'["receive"] = "data" => result' <= created
    BY <1>2, <2>1 DEF HeldCreated
  <2> QED BY <1>3, <2>1, <2>2, <2>4, <2>5
<1> QED BY <1>7, <1>8, <1>9, <1>10, <1>11, <1>12, <1>13

LEMMA EventsPuttingStep ==
  ASSUME PeersInv, EventsInv,
         \/ \E a \in Addresses : createPeer(a)
         \/ PutData \/ TakeEvent \/ \E t \in ConThreads : DeleteEvent(t)
  PROVE  EventsInv'
<1> USE DEF PeersInv, attributeVars, threadVars, ghostVars, countVars
<1>1. UNCHANGED helpers /\ created' \in {created, created + 1} /\ HeldCreated /\ created \in Nat
  BY DEF createPeer, PutData, TakeEvent, DeleteEvent, EventsInv, PeersTypes
<1>2. HeldIn(created)'
  BY <1>1, HeldSame
<1>3. ASSUME NEW t \in ConThreads, NEW there \in Places, Go(t, there)
      PROVE  place'[t] = there /\ \A u \in ConThreads \ {t} : place'[u] = place[u]
  BY <1>3 DEF PeersTypes, Go
<1>4. ASSUME NEW a \in Addresses, createPeer(a) PROVE EventsInv'
  <2>1. PICK p \in PeerIds : p = created'
    BY <1>4, PeersAssumption DEF createPeer, PeersTypes, PeerIds
  <2>2. /\ putEvent("added", p) /\ UNCHANGED <<told, late>> /\ created' = created + 1
        /\ m_peers' = m_peers \union {p} /\ UNCHANGED <<place, deleting, result, helpers>>
    BY <1>4, <2>1 DEF createPeer
  <2>3. \A q \in PeerIds : Announced(q)' /\ RemovedOnce(q)' /\ LateOnce(q)'
    BY <2>1, <2>2, EventsPut
  <2>4. place'["receive"] # "data"
    BY <1>4, <2>2 DEF createPeer
  <2> QED BY <1>2, <2>3, <2>4 DEF EventsInv, HeldCreated, HeldIn
<1>5. CASE PutData
  <2>1. result \in PeerIds /\ place["receive"] = "data" /\ result <= created
    BY <1>1, <1>5 DEF PutData, Stacks, HeldCreated
  <2>2. /\ putEvent("data", result) /\ UNCHANGED <<told, late, created, m_peers, deleting, helpers>>
        /\ Go("receive", "finish")
    BY <1>5 DEF PutData
  <2>3. place'["receive"] = "finish" /\ \A u \in ConThreads \ {"receive"} : place'[u] = place[u]
    BY <1>3, <2>2 DEF ConThreads, Places
  <2>4. AtData(result)
    BY <2>1 DEF AtData
  <2>5. \A t \in ConThreads : place'[t] = "event" => place[t] = "event"
    BY <2>3
  <2>6. \A q \in PeerIds : Announced(q)' /\ RemovedOnce(q)' /\ LateOnce(q)'
    BY <2>1, <2>2, <2>3, <2>4, <2>5, EventsPut
  <2> QED BY <1>2, <2>3, <2>6 DEF EventsInv, HeldCreated, HeldIn
<1>6. ASSUME NEW t \in ConThreads, DeleteEvent(t) PROVE EventsInv'
  <2>1. /\ place[t] = "event" /\ Go(t, "drop") /\ putEvent("removed", deleting[t])
        /\ UNCHANGED <<told, late, created, m_peers, deleting, helpers, result>>
    BY <1>6 DEF DeleteEvent
  <2>2. deleting[t] \in PeerIds /\ deleting[t] <= created
    BY <1>1, <2>1 DEF Deletions, PeersTypes
  <2>3. place'[t] = "drop" /\ \A u \in ConThreads \ {t} : place'[u] = place[u]
    BY <1>3, <2>1 DEF Places
  <2>4. PICK p \in PeerIds : p = deleting[t]
    BY <2>2
  <2>5. \A q \in PeerIds : Announced(q)' /\ RemovedOnce(q)' /\ LateOnce(q)'
    BY <2>1, <2>2, <2>3, <2>4, EventsPut
  <2>6. place'["receive"] = "data" => place["receive"] = "data"
    BY <2>3 DEF ConThreads
  <2> QED BY <1>1, <1>2, <2>1, <2>5, <2>6 DEF EventsInv, HeldCreated, HeldIn
<1>7. CASE TakeEvent
  <2>1. \A q \in PeerIds : Announced(q)' /\ RemovedOnce(q)' /\ LateOnce(q)'
    BY <1>7, EventsTaken
  <2>2. UNCHANGED <<place, result, created>>
    BY <1>7 DEF TakeEvent
  <2> QED BY <1>1, <1>2, <2>1, <2>2 DEF EventsInv, HeldCreated, HeldIn
<1> QED BY <1>4, <1>5, <1>6, <1>7

LEMMA EventsInvStep ==
  PeersInv /\ EventsInv /\ [PeersNext]_peersVars => EventsInv'
<1> SUFFICES ASSUME PeersInv, EventsInv, [PeersNext]_peersVars PROVE EventsInv'
  OBVIOUS
<1>1. CASE UNCHANGED peersVars
  <2> USE DEF attributeVars, threadVars, ghostVars
  <2>1. UNCHANGED <<m_peers, created, m_event_queue, place, helpers, deleting, result, told, late>>
    BY <1>1 DEF peersVars
  <2>2. \A p \in PeerIds : AtData(p)' <=> AtData(p)
    BY <2>1 DEF AtData, Held
  <2>3. \A p \in PeerIds : Announced(p)' /\ RemovedOnce(p)' /\ LateOnce(p)'
    BY <2>1, <2>2, EventsKept
  <2>4. HeldIn(created)'
    BY <2>1, HeldSame
  <2> QED BY <2>1, <2>3, <2>4 DEF EventsInv, HeldCreated, HeldIn
<1>2. CASE PeersNext
  BY <1>2, EventsTakingStep, EventsMovingStep, EventsPuttingStep DEF PeersNext
<1> QED BY <1>1, <1>2

(* The user of the connection hears of a peer when it is added, before     *)
(* anything else about it, and once of its removal, after which at most    *)
(* one packet of it comes, however the threads that receive, send and      *)
(* delete interleave.                                                      *)
THEOREM EventsInOrderCorrect == PeersSpec => []EventsInOrder
<1>1. EventsInv => EventsInOrder
  <2> SUFFICES ASSUME EventsInv, NEW p \in PeerIds PROVE told[p] # "wrong" /\ late[p] <= 1
    BY DEF EventsInOrder
  <2> QED BY DEF EventsInv, Announced, LateOnce
<1> QED BY <1>1, PeersInvInit, PeersInvStep, EventsInvInit, EventsInvStep, PTL DEF PeersSpec

-----------------------------------------------------------------------------
(* The handshake: who says which peer id, and when.                        *)

Reliables == [num : Nat, sender : Nat]
Datagrams == [to : {"server", "client"}, sender : Nat,
              body : {"reliable", "ack", "set_peer_id"}, num : Nat]

HandshakeTypes ==
  /\ m_peer_id \in Nat /\ made \in Nat
  /\ client_commands \in Seq({"send", "peer_id_set"})
  /\ queued_reliables \in Seq(Reliables) /\ outgoing_reliables_sent \subseteq Reliables
  /\ client_acks \subseteq Nat
  /\ client_receiving \in [at : {"none", "set", "command"}, id : Nat]
  /\ server_id \in Nat /\ half_open \in BOOLEAN /\ sessions \in Nat
  /\ server_commands \in Seq({"create", "resend"})
  /\ wire \subseteq Datagrams

(* The client names its own id or none, in whatever it has made or sent.   *)
Senders ==
  /\ \A d \in wire : d.to = "server" => d.sender \in {PEER_ID_INEXISTENT, m_peer_id}
  /\ \A p \in outgoing_reliables_sent \union Range(queued_reliables) :
       p.sender \in {PEER_ID_INEXISTENT, m_peer_id}

(* The server only gives ids of peers it made, and the client takes one.   *)
Ids ==
  /\ server_commands # <<>> => server_id # PEER_ID_INEXISTENT
  /\ \A d \in wire : d.body = "set_peer_id" => d.num # PEER_ID_INEXISTENT
  /\ client_receiving.at = "none" => client_receiving = None
  /\ client_receiving.at = "set" =>
       m_peer_id = PEER_ID_INEXISTENT /\ client_receiving.id # PEER_ID_INEXISTENT
  /\ client_receiving.at = "command" => m_peer_id # PEER_ID_INEXISTENT

HandshakeInv == HandshakeTypes /\ Senders /\ Ids /\ OpenIsMutual

LEMMA HandshakeInvInit == HandshakeInit => HandshakeInv
<1> SUFFICES ASSUME HandshakeInit PROVE HandshakeInv
  OBVIOUS
<1> USE DEF HandshakeInit, None, PEER_ID_INEXISTENT
<1>1. <<"send">> \in Seq({"send", "peer_id_set"}) /\ Range(<<>>) = {}
  BY DEF Range
<1>2. None \in [at : {"none", "set", "command"}, id : Nat]
  OBVIOUS
<1>3. HandshakeTypes
  <2>1. <<>> \in Seq(Reliables) /\ <<>> \in Seq({"create", "resend"})
    OBVIOUS
  <2> QED BY <1>1, <1>2, <2>1 DEF HandshakeTypes
<1>4. Senders /\ Ids /\ OpenIsMutual
  BY <1>1 DEF Senders, Ids, OpenIsMutual
<1> QED BY <1>3, <1>4 DEF HandshakeInv

LEMMA SentDatagram ==
  ASSUME NEW sender \in Nat, NEW body \in {"reliable", "ack"}, NEW num \in Nat
  PROVE  LET d == ToServer(sender, body, num) IN
         d \in Datagrams /\ d.to = "server" /\ d.body # "set_peer_id" /\ d.sender = sender
BY DEF ToServer, Datagrams

LEMMA MadeReliable == HandshakeTypes => Made \in Reliables /\ Made.sender = m_peer_id
BY DEF HandshakeTypes, Made, Reliables

LEMMA QueuedReliables ==
  HandshakeTypes => Range(queued_reliables) \subseteq Reliables
BY RangeIn DEF HandshakeTypes

LEMMA ClientStep ==
  ASSUME HandshakeInv,
         \/ ClientResend \/ ClientPing \/ UserSend \/ SendCommand \/ PeerIdSetCommand
         \/ NextPhase \/ SendPackets \/ ClientSetsPeerId \/ ClientPutsCommand
         \/ \E d \in wire : ClientGetsAck(d) \/ ClientGetsSetPeerId(d)
  PROVE  HandshakeInv'
<1> USE MadeReliable, QueuedReliables
    DEF HandshakeInv, HandshakeTypes, Senders, Ids, OpenIsMutual, clientVars, serverVars,
        PEER_ID_INEXISTENT, None
<1>1. CASE ClientResend
  <2>1. PICK p \in outgoing_reliables_sent : Transmit({p})
    BY <1>1 DEF ClientResend
  <2>2. wire' = wire \union {ToServer(p.sender, "reliable", p.num)}
    BY <2>1 DEF Transmit
  <2>3. ToServer(p.sender, "reliable", p.num) \in Datagrams
    BY DEF Reliables, Datagrams, ToServer
  <2> QED BY <1>1, <2>2, <2>3 DEF ClientResend, ToServer
<1>2. CASE ClientPing
  <2>1. wire' = wire \union {ToServer(Made.sender, "reliable", Made.num)}
    BY <1>2 DEF ClientPing, Transmit
  <2>2. ToServer(Made.sender, "reliable", Made.num) \in Datagrams
    BY DEF Reliables, Datagrams, ToServer
  <2>3. HandshakeTypes'
    BY <1>2, <2>1, <2>2 DEF ClientPing
  <2>4. Senders'
    BY <1>2, <2>1 DEF ClientPing, ToServer
  <2>5. Ids' /\ OpenIsMutual'
    BY <1>2, <2>1 DEF ClientPing, ToServer
  <2> QED BY <2>3, <2>4, <2>5
<1>3. CASE UserSend \/ NextPhase
  <2>1. Append(client_commands, "send") \in Seq({"send", "peer_id_set"})
    OBVIOUS
  <2>2. client_commands' \in Seq({"send", "peer_id_set"})
    BY <1>3, <2>1 DEF UserSend, NextPhase
  <2> QED BY <1>3, <2>2 DEF UserSend, NextPhase
<1>4. CASE SendCommand
  <2>1. /\ Append(queued_reliables, Made) \in Seq(Reliables)
        /\ Range(Append(queued_reliables, Made)) = Range(queued_reliables) \union {Made}
    BY AppendRange
  <2> QED BY <1>4, <2>1 DEF SendCommand
<1>5. CASE PeerIdSetCommand
  <2>1. \A p \in Reliables : /\ [p EXCEPT !.sender = m_peer_id] \in Reliables
                             /\ [p EXCEPT !.sender = m_peer_id].sender = m_peer_id
    BY DEF Reliables
  <2>2. \A p \in outgoing_reliables_sent' : p \in Reliables /\ p.sender = m_peer_id
    BY <1>5, <2>1 DEF PeerIdSetCommand, fixPeerId
  <2> QED BY <1>5, <2>2 DEF PeerIdSetCommand
<1>6. CASE SendPackets
  <2> DEFINE packets == {queued_reliables[i] : i \in DOMAIN queued_reliables}
             sent == {ToServer(p.sender, "reliable", p.num) : p \in packets}
             acks == {ToServer(m_peer_id, "ack", id) : id \in client_acks}
  <2>1. packets = Range(queued_reliables)
    BY DEF Range
  <2>2. \A d \in sent \union acks :
          /\ d \in Datagrams /\ d.to = "server" /\ d.body # "set_peer_id"
          /\ d.sender \in {PEER_ID_INEXISTENT, m_peer_id}
    <3>1. \A p \in packets : p \in Reliables /\ p.sender \in {PEER_ID_INEXISTENT, m_peer_id}
      BY <2>1
    <3>2. \A d \in sent : \E p \in packets : d = ToServer(p.sender, "reliable", p.num)
      OBVIOUS
    <3>3. \A d \in acks : \E id \in Nat : d = ToServer(m_peer_id, "ack", id)
      OBVIOUS
    <3>4. \A d \in sent : /\ d \in Datagrams /\ d.to = "server" /\ d.body # "set_peer_id"
                         /\ d.sender \in {PEER_ID_INEXISTENT, m_peer_id}
      <4>1. \A p \in packets : p.sender \in Nat /\ p.num \in Nat
        BY <3>1 DEF Reliables
      <4> SUFFICES ASSUME NEW d \in sent
                   PROVE  /\ d \in Datagrams /\ d.to = "server" /\ d.body # "set_peer_id"
                          /\ d.sender \in {PEER_ID_INEXISTENT, m_peer_id}
        OBVIOUS
      <4>2. PICK p \in packets : d = ToServer(p.sender, "reliable", p.num)
        BY <3>2
      <4> HIDE DEF packets, sent, acks
      <4>3. /\ d \in Datagrams /\ d.to = "server" /\ d.body # "set_peer_id"
            /\ d.sender = p.sender
        <5>1. PICK sender \in Nat, num \in Nat : sender = p.sender /\ num = p.num
          BY <4>1, <4>2
        <5>2. d = ToServer(sender, "reliable", num)
          BY <4>2, <5>1
        <5>3. LET e == ToServer(sender, "reliable", num)
              IN  /\ e \in Datagrams /\ e.to = "server" /\ e.body # "set_peer_id"
                  /\ e.sender = sender
          BY SentDatagram
        <5> QED BY <5>1, <5>2, <5>3
      <4>4. p.sender \in {PEER_ID_INEXISTENT, m_peer_id}
        BY <3>1, <4>2
      <4> QED BY <4>3, <4>4
    <3>5. \A d \in acks : /\ d \in Datagrams /\ d.to = "server" /\ d.body # "set_peer_id"
                         /\ d.sender \in {PEER_ID_INEXISTENT, m_peer_id}
      BY <3>3, SentDatagram
    <3> QED BY <3>4, <3>5
  <2>3. /\ wire' = wire \union (sent \union acks) /\ queued_reliables' = <<>>
        /\ outgoing_reliables_sent' = outgoing_reliables_sent \union packets
        /\ client_acks' = {}
        /\ UNCHANGED <<m_peer_id, made, client_commands, client_receiving, serverVars>>
    BY <1>6 DEF SendPackets
  <2>4. Range(queued_reliables') = {}
    BY <2>3 DEF Range
  <2> HIDE DEF packets, sent, acks
  <2>5. HandshakeTypes'
    BY <2>1, <2>2, <2>3
  <2>6. Senders'
    BY <2>1, <2>2, <2>3, <2>4
  <2>7. Ids' /\ OpenIsMutual'
    BY <2>2, <2>3
  <2> QED BY <2>5, <2>6, <2>7
<1>7. CASE ClientSetsPeerId
  <2>1. server_id = PEER_ID_INEXISTENT \/ half_open
    BY <1>7 DEF ClientSetsPeerId
  <2> QED BY <1>7, <2>1 DEF ClientSetsPeerId
<1>8. CASE ClientPutsCommand
  BY <1>8 DEF ClientPutsCommand
<1>9. ASSUME NEW d \in wire, ClientGetsAck(d) PROVE HandshakeInv'
  BY <1>9 DEF ClientGetsAck
<1>10. ASSUME NEW d \in wire, ClientGetsSetPeerId(d) PROVE HandshakeInv'
  BY <1>10 DEF ClientGetsSetPeerId, Datagrams
<1> QED BY <1>1, <1>2, <1>3, <1>4, <1>5, <1>6, <1>7, <1>8, <1>9, <1>10

LEMMA ServerStep ==
  ASSUME HandshakeInv,
         \/ \E d \in wire : ServerGetsFirst(d) \/ ServerGetsAnonymous(d) \/ ServerGetsKnown(d)
         \/ ServerCommand \/ ServerResend \/ ServerTimeout
  PROVE  HandshakeInv'
<1> USE DEF HandshakeInv, HandshakeTypes, Senders, Ids, OpenIsMutual, clientVars, serverVars,
            PEER_ID_INEXISTENT, None
<1>1. ASSUME NEW d \in wire
      PROVE  /\ ToClient("ack", d.num) \in Datagrams
             /\ ToClient("ack", d.num).to = "client" /\ ToClient("ack", d.num).body = "ack"
  BY DEF Datagrams, ToClient
<1>2. /\ ToClient("set_peer_id", server_id) \in Datagrams
      /\ ToClient("set_peer_id", server_id).to = "client"
      /\ ToClient("set_peer_id", server_id).num = server_id
  BY DEF Datagrams, ToClient
<1>3. ASSUME NEW d \in wire, ServerGetsFirst(d) PROVE HandshakeInv'
  <2>1. <<"create">> \in Seq({"create", "resend"}) /\ sessions + 1 \in Nat /\ sessions + 1 # 0
    OBVIOUS
  <2>2. HandshakeTypes'
    BY <1>1, <1>3, <2>1 DEF ServerGetsFirst, Opens
  <2>3. Senders' /\ Ids' /\ OpenIsMutual'
    BY <1>1, <1>3, <2>1 DEF ServerGetsFirst, Opens
  <2> QED BY <2>2, <2>3
<1>4. ASSUME NEW d \in wire, ServerGetsAnonymous(d) PROVE HandshakeInv'
  BY <1>1, <1>4 DEF ServerGetsAnonymous, Opens, Process
<1>5. ASSUME NEW d \in wire, ServerGetsKnown(d) PROVE HandshakeInv'
  BY <1>1, <1>5 DEF ServerGetsKnown, Opens, Process
<1>6. CASE ServerCommand
  BY <1>2, <1>6 DEF ServerCommand
<1>7. CASE ServerResend
  BY <1>2, <1>7 DEF ServerResend
<1>8. CASE ServerTimeout
  <2>1. HandshakeTypes'
    <3>1. <<>> \in Seq({"create", "resend"})
      OBVIOUS
    <3> QED BY <1>8, <3>1 DEF ServerTimeout
  <2>2. Senders' /\ Ids' /\ OpenIsMutual'
    BY <1>8 DEF ServerTimeout
  <2> QED BY <2>1, <2>2
<1> QED BY <1>3, <1>4, <1>5, <1>6, <1>7, <1>8

LEMMA HandshakeInvStep == HandshakeInv /\ [HandshakeNext]_handshakeVars => HandshakeInv'
<1> SUFFICES ASSUME HandshakeInv, [HandshakeNext]_handshakeVars PROVE HandshakeInv'
  OBVIOUS
<1>1. CASE UNCHANGED handshakeVars
  BY <1>1 DEF handshakeVars, clientVars, serverVars, HandshakeInv, HandshakeTypes, Senders,
              Ids, OpenIsMutual
<1>2. CASE HandshakeNext
  BY <1>2, ClientStep, ServerStep DEF HandshakeNext
<1> QED BY <1>1, <1>2

(* A peer that the server takes for open is one the client takes itself    *)
(* for, whatever is lost, repeated and late, and however often the server  *)
(* gives the client up and makes it a new peer.                            *)
THEOREM OpenIsMutualCorrect == HandshakeSpec => []OpenIsMutual
<1>1. HandshakeInv => OpenIsMutual
  BY DEF HandshakeInv
<1> QED BY <1>1, HandshakeInvInit, HandshakeInvStep, PTL DEF HandshakeSpec

(* An id, once set, stays; a step that keeps it set makes no packet without *)
(* it, and the step that sets it patches all that were sent.                *)
LEMMA UnpatchedStep ==
  ASSUME HandshakeInv, HandshakeNext, IdSet'
  PROVE  Unpatched' \subseteq IF IdSet THEN Unpatched ELSE StillQueued
<1> USE MadeReliable, QueuedReliables
    DEF HandshakeInv, HandshakeTypes, clientVars, serverVars, None, PEER_ID_INEXISTENT
<1>1. /\ StillQueued = Range(queued_reliables)
      /\ StillQueued' = Range(queued_reliables')
  BY DEF StillQueued, Range
<1>2. /\ IdSet <=> /\ m_peer_id # 0 /\ client_receiving = None
                   /\ "peer_id_set" \notin Range(client_commands)
      /\ IdSet' <=> /\ m_peer_id' # 0 /\ client_receiving' = None
                    /\ "peer_id_set" \notin Range(client_commands')
  BY DEF IdSet, Range
<1>3. /\ Unpatched = {p \in outgoing_reliables_sent \union Range(queued_reliables) :
                        p.sender # m_peer_id}
      /\ Unpatched' = {p \in outgoing_reliables_sent' \union Range(queued_reliables') :
                         p.sender # m_peer_id'}
  BY <1>1 DEF Unpatched
<1>4. CASE ClientResend \/ NextPhase
  BY <1>2, <1>3, <1>4 DEF ClientResend, NextPhase
<1>5. CASE ClientPing
  <2>1. /\ outgoing_reliables_sent' = outgoing_reliables_sent \union {Made}
        /\ UNCHANGED <<m_peer_id, client_commands, client_receiving, queued_reliables>>
    BY <1>5 DEF ClientPing
  <2>2. IdSet /\ Unpatched' = Unpatched
    BY <1>2, <1>3, <2>1
  <2> QED BY <2>2
<1>6. CASE UserSend
  <2>1. Range(client_commands') = Range(client_commands) \union {"send"}
    <3>1. client_commands' = Append(client_commands, "send")
      BY <1>6 DEF UserSend
    <3>2. client_commands \in Seq({"send", "peer_id_set"})
      OBVIOUS
    <3>3. Range(Append(client_commands, "send")) = Range(client_commands) \union {"send"}
      BY ONLY <3>2, AppendRange
    <3> QED BY ONLY <3>1, <3>3
  <2>2. IdSet /\ Unpatched' = Unpatched
    BY <1>2, <1>3, <1>6, <2>1 DEF UserSend
  <2> QED BY <2>2
<1>7. CASE SendCommand
  <2>1. Range(queued_reliables') = Range(queued_reliables) \union {Made}
    BY <1>7, AppendRange DEF SendCommand
  <2>2. \A c \in Range(client_commands) : c = "send" \/ c \in Range(client_commands')
    <3>1. client_commands # <<>> /\ client_commands[1] = "send" /\ client_commands' = Tail(client_commands)
      BY <1>7 DEF SendCommand
    <3>2. ASSUME NEW i \in 1 .. Len(client_commands), i # 1
          PROVE  client_commands[i] \in Range(Tail(client_commands))
      <4>1. i - 1 \in DOMAIN Tail(client_commands) /\ Tail(client_commands)[i - 1] = client_commands[i]
        BY <3>1, <3>2
      <4> QED BY <4>1 DEF Range
    <3>3. \A c \in Range(client_commands) : \E i \in 1 .. Len(client_commands) : c = client_commands[i]
      <4>1. DOMAIN client_commands = 1 .. Len(client_commands)
        OBVIOUS
      <4> QED BY <4>1 DEF Range
    <3> QED BY <3>1, <3>2, <3>3
  <2>3. UNCHANGED <<m_peer_id, client_receiving, outgoing_reliables_sent>>
    BY <1>7 DEF SendCommand
  <2>4. IdSet
    BY <1>2, <2>2, <2>3
  <2>5. Unpatched' = Unpatched
    BY <1>3, <2>1, <2>3
  <2> QED BY <2>4, <2>5
<1>8. CASE PeerIdSetCommand
  <2>1. \A p \in outgoing_reliables_sent' : p.sender = m_peer_id
    BY <1>8 DEF PeerIdSetCommand, fixPeerId, Reliables
  <2>2. UNCHANGED <<m_peer_id, queued_reliables>>
    BY <1>8 DEF PeerIdSetCommand
  <2>3. Unpatched' \subseteq StillQueued
    BY <1>1, <1>3, <2>1, <2>2
  <2>4. ~IdSet
    <3>1. client_commands # <<>> /\ Head(client_commands) # "send"
      BY <1>8 DEF PeerIdSetCommand
    <3>2. 1 \in DOMAIN client_commands /\ client_commands[1] = "peer_id_set"
      BY <3>1
    <3>3. "peer_id_set" \in Range(client_commands)
      BY <3>2 DEF Range
    <3> QED BY <1>2, <3>3
  <2> QED BY <2>3, <2>4
<1>9. CASE SendPackets
  <2>1. /\ Range(queued_reliables') = {}
        /\ outgoing_reliables_sent' = outgoing_reliables_sent \union Range(queued_reliables)
        /\ UNCHANGED <<m_peer_id, client_commands, client_receiving>>
    BY <1>9 DEF SendPackets, Range
  <2>2. IdSet /\ Unpatched' = Unpatched
    BY <1>2, <1>3, <2>1
  <2> QED BY <2>2
<1>10. CASE ClientSetsPeerId
  BY <1>2, <1>10 DEF ClientSetsPeerId
<1>11. CASE ClientPutsCommand
  <2>1. Range(client_commands') = Range(client_commands) \union {"peer_id_set"}
    <3>1. client_commands' = Append(client_commands, "peer_id_set")
      BY <1>11 DEF ClientPutsCommand
    <3>2. client_commands \in Seq({"send", "peer_id_set"})
      OBVIOUS
    <3>3. Range(Append(client_commands, "peer_id_set")) = Range(client_commands) \union {"peer_id_set"}
      BY ONLY <3>2, AppendRange
    <3> QED BY ONLY <3>1, <3>3
  <2> QED BY <1>2, <2>1
<1>12. ASSUME NEW d \in wire, ClientGetsAck(d) \/ ClientGetsSetPeerId(d)
       PROVE  Unpatched' \subseteq IF IdSet THEN Unpatched ELSE StillQueued
  <2>1. /\ client_receiving = None
        /\ outgoing_reliables_sent' \subseteq outgoing_reliables_sent
        /\ UNCHANGED <<m_peer_id, client_commands, queued_reliables>>
    BY <1>12 DEF ClientGetsAck, ClientGetsSetPeerId
  <2>2. IdSet /\ Unpatched' \subseteq Unpatched
    BY <1>2, <1>3, <2>1
  <2> QED BY <2>2
<1>13. CASE \/ \E d \in wire : ServerGetsFirst(d) \/ ServerGetsAnonymous(d) \/ ServerGetsKnown(d)
            \/ ServerCommand \/ ServerResend \/ ServerTimeout
  <2>1. UNCHANGED clientVars
    BY <1>13 DEF ServerGetsFirst, ServerGetsAnonymous, ServerGetsKnown, ServerCommand,
                 ServerResend, ServerTimeout
  <2> QED BY <1>2, <1>3, <2>1
<1> QED BY <1>4, <1>5, <1>6, <1>7, <1>8, <1>9, <1>10, <1>11, <1>12, <1>13 DEF HandshakeNext

(* A reliable packet that the client keeps without its id, after the order *)
(* to patch them is done, was in queued_reliables when it was: whatever the *)
(* user, the two threads and the server do before, meanwhile and after.     *)
THEOREM OnlyQueuedUnpatchedCorrect == HandshakeSpec => OnlyQueuedUnpatched
<1> DEFINE Misses ==
      IdSet' => Unpatched' \subseteq IF IdSet THEN Unpatched ELSE StillQueued
<1>1. HandshakeInv /\ [HandshakeNext]_handshakeVars => [Misses]_handshakeVars
  BY UnpatchedStep
<1>2. HandshakeSpec => [][Misses]_handshakeVars
  BY <1>1, HandshakeInvInit, HandshakeInvStep, PTL DEF HandshakeSpec
<1> QED BY <1>2 DEF OnlyQueuedUnpatched

-----------------------------------------------------------------------------
(* Meshes of a client's blocks (MeshQueue).                                *)
MeshEntry  == [p : Meshes, lod : Lods \cup {Unspecified}, urgent : BOOLEAN]
MeshJob    == [at : {"fill", "make"}, p : Meshes, lod : Lods \cup {Unspecified},
               urgent : BOOLEAN, revision : Nat]
MeshResult == [p : Meshes, lod : Lods, revision : Nat, urgent : BOOLEAN]

(* What addBlock() leaves in a queue: what was there, at the same places   *)
(* and with its level of detail unless another is asked for, and the       *)
(* blocks, at that level.                                                  *)
Extends(old, new, ps, lod) ==
  /\ new \in Seq(MeshEntry)
  /\ Queued(new) = Queued(old) \cup ps
  /\ \A i \in DOMAIN old : /\ i \in DOMAIN new /\ new[i].p = old[i].p
                           /\ old[i].p \notin ps \/ lod = Unspecified => new[i].lod = old[i].lod
  /\ lod # Unspecified =>
       \A p \in ps : \E i \in DOMAIN new : new[i].p = p /\ new[i].lod = lod

LEMMA AddBlocksExtends ==
  ASSUME NEW entries \in Seq(MeshEntry), NEW ps, ps \subseteq Meshes,
         NEW lod \in Lods \cup {Unspecified}, NEW urgent \in BOOLEAN
  PROVE  Extends(entries, AddBlocks(entries, ps, lod, urgent), ps, lod)
<1> DEFINE old == [i \in DOMAIN entries |->
                     IF entries[i].p \in ps THEN Merged(entries[i], lod, urgent) ELSE entries[i]]
           new == SetToSeq(ps \ Queued(entries))
           back == [i \in DOMAIN new |-> [p |-> new[i], lod |-> lod, urgent |-> urgent]]
           all == AddBlocks(entries, ps, lod, urgent)
           n   == Len(entries)
<1>1. IsFiniteSet(ps \ Queued(entries))
  BY FS_Subset, MeshAssumption
<1>2. new \in Seq(ps \ Queued(entries)) /\ Range(new) = ps \ Queued(entries)
  BY <1>1, SetToSeqRange
<1> HIDE DEF new
<1>3. n \in Nat /\ DOMAIN entries = 1 .. n /\ \A i \in 1 .. n : entries[i] \in MeshEntry
  OBVIOUS
<1>4. \A i \in 1 .. n : /\ old[i] \in MeshEntry /\ old[i].p = entries[i].p
                        /\ entries[i].p \notin ps \/ lod = Unspecified
                             => old[i].lod = entries[i].lod
                        /\ entries[i].p \in ps /\ lod # Unspecified => old[i].lod = lod
  BY <1>3 DEF Merged, MeshEntry
<1>5. old \in Seq(MeshEntry) /\ Len(old) = n
  BY <1>3, <1>4
<1>6. Len(new) \in Nat /\ DOMAIN new = 1 .. Len(new)
      /\ \A i \in 1 .. Len(new) : new[i] \in ps \ Queued(entries)
  BY <1>2
<1>7. \A i \in 1 .. Len(new) : back[i] \in MeshEntry /\ back[i].p = new[i] /\ back[i].lod = lod
  BY <1>6 DEF MeshEntry
<1>8. back \in Seq(MeshEntry) /\ Len(back) = Len(new)
  BY <1>6, <1>7
<1>9. all = old \o back
  BY DEF AddBlocks, new
<1> HIDE DEF old, back, all
<1>10. /\ all \in Seq(MeshEntry) /\ Len(all) = n + Len(new)
       /\ \A i \in 1 .. n : all[i] = old[i]
       /\ \A i \in 1 .. Len(new) : all[n + i] = back[i]
  <2>1. all \in Seq(MeshEntry) /\ Len(all) = n + Len(new)
        /\ \A i \in 1 .. n + Len(new) : all[i] = IF i <= n THEN old[i] ELSE back[i - n]
    <3>1. /\ old \o back \in Seq(MeshEntry) /\ Len(old \o back) = Len(old) + Len(back)
          /\ \A i \in 1 .. Len(old) + Len(back) :
               (old \o back)[i] = IF i <= Len(old) THEN old[i] ELSE back[i - Len(old)]
      BY <1>5, <1>8, ConcatProperties
    <3> QED BY <1>5, <1>8, <1>9, <3>1
  <2>2. \A i \in 1 .. n : i \in 1 .. n + Len(new) /\ i <= n
    BY <1>3, <1>6
  <2>3. \A i \in 1 .. Len(new) : n + i \in 1 .. n + Len(new) /\ ~(n + i <= n) /\ (n + i) - n = i
    BY <1>3, <1>6
  <2>4. \A i \in 1 .. Len(new) : all[n + i] = back[(n + i) - n]
    BY <2>1, <2>3
  <2> QED BY <2>1, <2>2, <2>3, <2>4
<1>11. DOMAIN all = 1 .. n + Len(new)
  BY <1>10
<1>12. \A i \in 1 .. n : i \in DOMAIN all
  BY <1>3, <1>6, <1>11
<1>13. \A i \in 1 .. Len(new) : n + i \in DOMAIN all
  BY <1>3, <1>6, <1>11
<1>14. \A i \in DOMAIN all : i \in 1 .. n \/ \E j \in 1 .. Len(new) : i = n + j
  <2>1. ASSUME NEW i \in 1 .. n + Len(new), ~(i \in 1 .. n)
        PROVE  i - n \in 1 .. Len(new) /\ i = n + (i - n)
    BY <1>3, <1>6, <2>1
  <2> QED BY <1>11, <2>1
<1>15. Queued(all) \subseteq Queued(entries) \cup ps
  <2>1. ASSUME NEW i \in DOMAIN all
        PROVE  all[i].p \in Queued(entries) \cup ps
    <3>1. CASE i \in 1 .. n
      BY <1>3, <1>4, <1>10, <3>1 DEF Queued
    <3>2. CASE \E j \in 1 .. Len(new) : i = n + j
      BY <1>6, <1>7, <1>10, <3>2
    <3> QED BY <1>14, <3>1, <3>2
  <2> QED BY <2>1 DEF Queued
<1>16. \A p \in Queued(entries) : \E i \in 1 .. n : entries[i].p = p
  BY <1>3 DEF Queued
<1>17. \A p \in ps \ Queued(entries) : \E i \in 1 .. Len(new) : new[i] = p
  BY <1>2, <1>6 DEF Range
<1>18. ASSUME NEW p \in Queued(entries) \cup ps
       PROVE  \E i \in DOMAIN all : all[i].p = p /\ (p \in ps /\ lod # Unspecified => all[i].lod = lod)
  <2>1. CASE p \in Queued(entries)
    <3>1. PICK i \in 1 .. n : entries[i].p = p
      BY <1>16, <2>1
    <3> QED BY <1>4, <1>10, <1>12, <3>1
  <2>2. CASE p \in ps \ Queued(entries)
    <3>1. PICK i \in 1 .. Len(new) : new[i] = p
      BY <1>17, <2>2
    <3>2. n + i \in DOMAIN all /\ all[n + i] = back[i]
      BY <1>10, <1>13
    <3> QED BY <1>7, <3>1, <3>2
  <2> QED BY <2>1, <2>2
<1>19. Queued(all) = Queued(entries) \cup ps
  BY <1>15, <1>18 DEF Queued
<1>20. \A i \in DOMAIN entries :
         /\ i \in DOMAIN all /\ all[i].p = entries[i].p
         /\ entries[i].p \notin ps \/ lod = Unspecified => all[i].lod = entries[i].lod
  BY <1>3, <1>4, <1>10, <1>12
<1>21. \A p \in ps : lod # Unspecified => \E i \in DOMAIN all : all[i].p = p /\ all[i].lod = lod
  BY <1>18
<1>22. Extends(entries, all, ps, lod)
  BY <1>10, <1>19, <1>20, <1>21 DEF Extends
<1> QED BY <1>22 DEF all

-----------------------------------------------------------------------------
MeshTypes ==
  /\ revision \in [Meshes -> Nat] /\ newest \in Nat
  /\ requested \in [Meshes -> [revision : Nat, lod : Lods]]
  /\ lodMesh \in [Meshes -> [Lods -> Nat]]
  /\ wanted \in [Meshes -> Lods]
  /\ queue \in [Queues -> Seq(MeshEntry)]
  /\ urgents \in [Queues -> SUBSET Meshes]
  /\ work \in [Makers -> MeshJob \cup {Idle}]
  /\ \A w \in Makers : work[w].at = "make" => work[w].lod \in Lods
  /\ results \in [Queues -> Seq(MeshResult)]

(* No revision is from the future: of a request it is at most the block's, *)
(* of a mesh at most the newest.                                           *)
RevisionsFit ==
  /\ \A p \in Meshes : requested[p].revision <= revision[p] /\ revision[p] <= newest
  /\ \A w \in Makers : work[w].at = "make" => work[w].revision <= newest
  /\ \A k \in Queues : \A i \in DOMAIN results[k] : results[k][i].revision <= newest

InQueue(p, lod) ==
  \E k \in Queues : \E i \in DOMAIN queue[k] : queue[k][i].p = p /\ queue[k][i].lod = lod

InWork(p, lod, r) ==
  \E w \in Makers : /\ work[w].at \in {"fill", "make"}
                    /\ work[w].p = p /\ work[w].lod = lod
                    /\ work[w].at = "make" => work[w].revision >= r

InResults(p, lod, r) ==
  \E k \in Queues : \E i \in DOMAIN results[k] :
    results[k][i].p = p /\ results[k][i].lod = lod /\ results[k][i].revision >= r

OnTheWay(p, lod, r) == InQueue(p, lod) \/ InWork(p, lod, r) \/ InResults(p, lod, r)

HasNewer(p) == \E q \in Around(p) : revision[q] > revision[p]

(* What is asked for at the revision a block still has has arrived, is on  *)
(* its way at that level of detail, not made from older blocks, or a block *)
(* around is newer.                                                        *)
RequestKept(p) ==
  requested[p].revision = revision[p] /\ lodMesh[p][requested[p].lod] < revision[p]
    => OnTheWay(p, requested[p].lod, revision[p]) \/ HasNewer(p)

MeshInv ==
  /\ MeshTypes /\ UrgentsQueued /\ RevisionsFit
  /\ \A p \in Meshes : RequestKept(p)

-----------------------------------------------------------------------------
LEMMA AroundMeshes ==
  ASSUME NEW p \in Meshes
  PROVE  Around(p) \subseteq Meshes /\ p \in Around(p)
BY DEF Around

LEMMA LargestIs ==
  ASSUME MeshTypes, RevisionsFit, NEW p \in Meshes
  PROVE  /\ LargestOf(p) \in Nat /\ LargestOf(p) <= newest
         /\ \A q \in Around(p) : revision[q] <= LargestOf(p)
         /\ \E q \in Around(p) : LargestOf(p) = revision[q]
<1> DEFINE R == {revision[q] : q \in Around(p)}
           T == {newest - revision[q] : q \in Around(p)}
<1>1. \A q \in Around(p) : q \in Meshes /\ revision[q] \in Nat /\ revision[q] <= newest
  BY AroundMeshes DEF MeshTypes, RevisionsFit
<1>2. newest \in Nat
  BY DEF MeshTypes
<1>3. T \subseteq Nat /\ T # {}
  <2>1. \A q \in Around(p) : newest - revision[q] \in Nat
    BY <1>1, <1>2
  <2> QED BY <2>1, AroundMeshes
<1> HIDE DEF T
<1>4. PICK t \in T : \A u \in T : t <= u
  BY <1>3, LeastNatural
<1>5. PICK m \in Around(p) : t = newest - revision[m]
  BY <1>4 DEF T
<1>6. \A q \in Around(p) : revision[q] <= revision[m]
  <2>1. ASSUME NEW q \in Around(p) PROVE revision[q] <= revision[m]
    <3>1. newest - revision[m] <= newest - revision[q]
      BY <1>4, <1>5 DEF T
    <3> QED BY <1>1, <1>2, <3>1
  <2> QED BY <2>1
<1>7. LargestOf(p) \in R /\ \A q \in Around(p) : revision[q] <= LargestOf(p)
  <2>1. \E r \in R : \A q \in Around(p) : revision[q] <= r
    BY <1>6
  <2> QED BY <2>1 DEF LargestOf
<1> QED BY <1>1, <1>7

-----------------------------------------------------------------------------
(* updateBlock()                                                           *)

LEMMA UpdateExtends ==
  ASSUME MeshTypes, NEW p \in Meshes, NEW lod \in Lods \cup {Unspecified},
         NEW urgent \in BOOLEAN, NEW edge \in SUBSET Meshes,
         UpdateBlock(p, lod, urgent, edge)
  PROVE  /\ queue' \in [Queues -> Seq(MeshEntry)]
         /\ urgents' \in [Queues -> SUBSET Meshes]
         /\ UrgentsQueued => UrgentsQueued'
         /\ \A q \in Meshes : \A l \in Lods :
              InQueue(q, l) /\ (q # p \/ lod = Unspecified) => InQueue(q, l)'
         /\ lod # Unspecified => InQueue(p, lod)'
<1> DEFINE k   == IF urgent THEN "urgent" ELSE "normal"
           own == [queue EXCEPT ![k] = AddBlocks(@, {p}, lod, urgent)]
<1>1. k \in Queues /\ "normal" \in Queues
  BY DEF Queues
<1>2. PICK air \in SUBSET (edge \ Queued(own["normal"])) :
        /\ queue' = [own EXCEPT !["normal"] = AddBlocks(@, edge \ air, Unspecified, urgent)]
        /\ urgents' = [k2 \in Queues |->
             UrgentAfter(urgents[k2],
                         {q \in {p} \cup edge : urgent /\ k2 = IF q = p THEN k ELSE "normal"},
                         IF k2 = "normal" THEN air ELSE {})]
  BY DEF UpdateBlock
<1> DEFINE added(k2) == {q \in {p} \cup edge : urgent /\ k2 = IF q = p THEN k ELSE "normal"}
<1>3. queue \in [Queues -> Seq(MeshEntry)] /\ \A k2 \in Queues : urgents[k2] \subseteq Meshes
  BY DEF MeshTypes
<1>4. Extends(queue[k], AddBlocks(queue[k], {p}, lod, urgent), {p}, lod)
  BY <1>1, <1>3, AddBlocksExtends
<1>5. own \in [Queues -> Seq(MeshEntry)]
  BY <1>1, <1>3, <1>4 DEF Extends
<1>6. Extends(queue[k], own[k], {p}, lod) /\ \A k2 \in Queues \ {k} : own[k2] = queue[k2]
  BY <1>1, <1>3, <1>4
<1> HIDE DEF k, own
<1>7. Unspecified \in Lods \cup {Unspecified}
  OBVIOUS
<1>8. Extends(own["normal"], AddBlocks(own["normal"], edge \ air, Unspecified, urgent),
              edge \ air, Unspecified)
  BY <1>1, <1>5, <1>7, AddBlocksExtends
<1>9. queue' \in [Queues -> Seq(MeshEntry)]
  BY <1>1, <1>2, <1>5, <1>8 DEF Extends
<1>10. /\ Extends(own["normal"], queue'["normal"], edge \ air, Unspecified)
       /\ \A k2 \in Queues \ {"normal"} : queue'[k2] = own[k2]
  BY <1>1, <1>2, <1>5, <1>8
<1>11. \A k2 \in Queues : \A i \in DOMAIN queue[k2] :
         /\ i \in DOMAIN own[k2] /\ own[k2][i].p = queue[k2][i].p
         /\ queue[k2][i].p # p \/ lod = Unspecified => own[k2][i].lod = queue[k2][i].lod
  BY <1>6 DEF Extends
<1>12. \A k2 \in Queues : \A i \in DOMAIN own[k2] :
         /\ i \in DOMAIN queue'[k2] /\ queue'[k2][i].p = own[k2][i].p
         /\ queue'[k2][i].lod = own[k2][i].lod
  BY <1>10 DEF Extends
<1>13. urgents' \in [Queues -> SUBSET Meshes]
  BY <1>2, <1>3 DEF UrgentAfter
<1>14. ASSUME UrgentsQueued, NEW k2 \in Queues, NEW q, q \in urgents'[k2]
       PROVE  q \in Queued(queue'[k2])
  <2>1. Queued(queue[k2]) \subseteq Queued(own[k2])
    BY <1>11 DEF Queued
  <2>2. Queued(own[k2]) \subseteq Queued(queue'[k2])
    BY <1>12 DEF Queued
  <2>3. q \in (urgents[k2] \cup added(k2)) \ (IF k2 = "normal" THEN air ELSE {})
    BY <1>2, <1>14 DEF UrgentAfter
  <2>4. CASE q \in urgents[k2]
    BY <1>14, <2>1, <2>2, <2>4 DEF UrgentsQueued
  <2>5. CASE q \in added(k2) /\ q = p
    <3>1. k2 = k
      BY <2>5
    <3>2. p \in Queued(own[k])
      BY <1>6 DEF Extends
    <3> QED BY <2>2, <2>5, <3>1, <3>2
  <2>6. CASE q \in added(k2) /\ q # p
    <3>1. k2 = "normal" /\ q \in edge \ air
      BY <2>3, <2>6
    <3> QED BY <1>10, <3>1 DEF Extends
  <2> QED BY <2>3, <2>4, <2>5, <2>6
<1>15. UrgentsQueued => UrgentsQueued'
  BY <1>14 DEF UrgentsQueued
<1>16. ASSUME NEW q \in Meshes, NEW l \in Lods, InQueue(q, l), q # p \/ lod = Unspecified
       PROVE  InQueue(q, l)'
  <2>1. PICK k2 \in Queues : \E i \in DOMAIN queue[k2] : queue[k2][i].p = q /\ queue[k2][i].lod = l
    BY <1>16 DEF InQueue
  <2>a. PICK i \in DOMAIN queue[k2] : queue[k2][i].p = q /\ queue[k2][i].lod = l
    BY <2>1
  <2>2. i \in DOMAIN own[k2] /\ own[k2][i].p = q /\ own[k2][i].lod = l
    BY <1>11, <1>16, <2>a
  <2>3. i \in DOMAIN queue'[k2] /\ queue'[k2][i].p = q /\ queue'[k2][i].lod = l
    BY <1>12, <2>2
  <2> QED BY <2>3 DEF InQueue
<1>17. ASSUME lod # Unspecified
       PROVE  InQueue(p, lod)'
  <2>1. PICK i \in DOMAIN own[k] : own[k][i].p = p /\ own[k][i].lod = lod
    BY <1>6, <1>17 DEF Extends
  <2>2. i \in DOMAIN queue'[k] /\ queue'[k][i].p = p /\ queue'[k][i].lod = lod
    BY <1>1, <1>12, <2>1
  <2> QED BY <1>1, <2>2 DEF InQueue
<1> QED BY <1>9, <1>13, <1>15, <1>16, <1>17

LEMMA ResultTypes ==
  ASSUME MeshTypes, NEW k \in Queues, NEW i \in DOMAIN results[k]
  PROVE  /\ results[k][i].p \in Meshes /\ results[k][i].lod \in Lods
         /\ results[k][i].revision \in Nat
<1>1. results[k] \in Seq(MeshResult)
  BY DEF MeshTypes
<1>2. results[k][i] \in MeshResult
  BY <1>1
<1> QED BY <1>2 DEF MeshResult

-----------------------------------------------------------------------------
(* What an action leaves of a request: nothing about the block changes,    *)
(* revisions only grow, and what is on its way stays so.                   *)
LEMMA StillKept ==
  ASSUME MeshTypes, MeshTypes', NEW p \in Meshes, RequestKept(p),
         requested'[p] = requested[p], revision'[p] = revision[p],
         \A l \in Lods : lodMesh'[p][l] = lodMesh[p][l],
         \A q \in Meshes : revision[q] <= revision'[q],
         \A l \in Lods, r \in Nat : r = revision[p] /\ OnTheWay(p, l, r)
                                   => OnTheWay(p, l, r)' \/ HasNewer(p)
  PROVE  RequestKept(p)'
<1>1. /\ requested[p].lod \in Lods /\ revision[p] \in Nat
      /\ \A q \in Meshes : revision[q] \in Nat
      /\ \A q \in Meshes : revision'[q] \in Nat
  BY DEF MeshTypes
<1>2. PICK l \in Lods, r \in Nat : l = requested[p].lod /\ r = revision[p]
  BY <1>1
<1>3. ASSUME requested[p].revision = r, lodMesh[p][l] < r
      PROVE  OnTheWay(p, l, r)' \/ HasNewer(p)
  BY <1>2, <1>3 DEF RequestKept
<1>4. HasNewer(p) => HasNewer(p)'
  <2>1. ASSUME NEW q \in Around(p), revision[q] > revision[p]
        PROVE  revision'[q] > revision'[p]
    <3>1. q \in Meshes
      BY AroundMeshes
    <3> QED BY <1>1, <2>1, <3>1
  <2> QED BY <2>1 DEF HasNewer
<1>5. requested'[p].lod = l /\ revision'[p] = r
  BY <1>2
<1>6. requested'[p].revision = revision'[p] /\ lodMesh'[p][requested'[p].lod] < revision'[p]
        => OnTheWay(p, l, r)' \/ HasNewer(p)'
  BY <1>2, <1>3, <1>4, <1>5
<1>7. OnTheWay(p, l, r)' => OnTheWay(p, requested[p].lod, revision[p])'
  BY <1>5 DEF OnTheWay, InQueue, InWork, InResults
<1> QED BY <1>6, <1>7 DEF RequestKept

LEMMA MeshesInitOK ==
  ASSUME MeshesInit
  PROVE  MeshInv
<1>1. MeshTypes
  BY MeshAssumption DEF MeshesInit, MeshTypes, Idle
<1>2. UrgentsQueued
  BY DEF MeshesInit, UrgentsQueued
<1>3. RevisionsFit
  BY DEF MeshesInit, RevisionsFit, Idle
<1>4. \A p \in Meshes : RequestKept(p)
  BY DEF MeshesInit, RequestKept
<1> QED BY <1>1, <1>2, <1>3, <1>4 DEF MeshInv

(* A block arrives.                                                        *)
LEMMA ReceiveMeshBlockOK ==
  ASSUME MeshInv, NEW p \in Meshes, ReceiveMeshBlock(p)
  PROVE  MeshInv'
<1>1. MeshTypes /\ UrgentsQueued /\ RevisionsFit /\ \A q \in Meshes : RequestKept(q)
  BY DEF MeshInv
<1>2. /\ newest' = newest + 1 /\ newest \in Nat
      /\ revision' \in [Meshes -> Nat]
      /\ \A q \in Meshes : revision'[q] = IF q \in Beside(p) THEN newest + 1 ELSE revision[q]
  BY <1>1 DEF ReceiveMeshBlock, MeshTypes
<1>3. /\ queue' \in [Queues -> Seq(MeshEntry)] /\ urgents' \in [Queues -> SUBSET Meshes]
      /\ UrgentsQueued'
      /\ \A q \in Meshes, l \in Lods : InQueue(q, l) => InQueue(q, l)'
  <2>1. CASE UNCHANGED queueVars
    BY <1>1, <2>1 DEF queueVars, MeshTypes, UrgentsQueued, InQueue
  <2>2. CASE \E edge \in {{}, Around(p) \ {p}} : UpdateBlock(p, Unspecified, FALSE, edge)
    <3>1. PICK edge \in SUBSET Meshes : UpdateBlock(p, Unspecified, FALSE, edge)
      BY <2>2, AroundMeshes
    <3>2. Unspecified \in Lods \cup {Unspecified}
      OBVIOUS
    <3> QED BY <1>1, <3>1, <3>2, UpdateExtends
  <2> QED BY <2>1, <2>2 DEF ReceiveMeshBlock
<1>4. UNCHANGED <<requested, lodMesh, wanted, work, results>>
  BY DEF ReceiveMeshBlock
<1>5. MeshTypes'
  BY <1>1, <1>2, <1>3, <1>4 DEF MeshTypes
<1>6. \A q \in Meshes : revision[q] \in Nat /\ requested[q].revision \in Nat
                        /\ requested[q].revision <= revision[q] /\ revision[q] <= newest
  BY <1>1 DEF MeshTypes, RevisionsFit
<1>7. \A q \in Meshes : revision[q] <= revision'[q]
  BY <1>2, <1>6
<1>8. RevisionsFit'
  <2>1. \A q \in Meshes : requested'[q].revision <= revision'[q] /\ revision'[q] <= newest'
    BY <1>2, <1>4, <1>6
  <2>2. \A w \in Makers : work'[w].at = "make" => work'[w].revision <= newest'
    <3>1. \A w \in Makers : work[w].at = "make" => work[w].revision \in Nat
      BY <1>1 DEF MeshTypes, MeshJob, Idle
    <3> QED BY <1>1, <1>2, <1>4, <3>1 DEF RevisionsFit
  <2>3. \A k \in Queues : \A i \in DOMAIN results'[k] : results'[k][i].revision <= newest'
    <3>1. \A k \in Queues : \A i \in DOMAIN results[k] : results[k][i].revision \in Nat
      BY <1>1, ResultTypes
    <3> QED BY <1>1, <1>2, <1>4, <3>1 DEF RevisionsFit
  <2> QED BY <2>1, <2>2, <2>3 DEF RevisionsFit
<1>9. \A q \in Meshes, l \in Lods, r \in Nat : OnTheWay(q, l, r) => OnTheWay(q, l, r)'
  BY <1>3, <1>4 DEF OnTheWay, InWork, InResults
<1>10. ASSUME NEW q \in Meshes PROVE RequestKept(q)'
  <2>1. CASE q \in Beside(p)
    BY <1>2, <1>4, <1>6, <2>1 DEF RequestKept
  <2>2. CASE q \notin Beside(p)
    <3>1. /\ requested'[q] = requested[q] /\ revision'[q] = revision[q]
          /\ \A l \in Lods : lodMesh'[q][l] = lodMesh[q][l]
      BY <1>2, <1>4, <2>2
    <3> QED BY <1>1, <1>5, <1>7, <1>9, <3>1, StillKept
  <2> QED BY <2>1, <2>2
<1> QED BY <1>3, <1>5, <1>8, <1>10 DEF MeshInv

(* Steps that ask for nothing and change no revision.                      *)
LEMMA QuietMeshStep ==
  ASSUME MeshInv, MeshTypes', UrgentsQueued', UNCHANGED <<revision, newest, requested, lodMesh>>,
         \A w \in Makers : work'[w].at = "make" => work'[w].revision <= newest,
         \A k \in Queues : \A i \in DOMAIN results'[k] : results'[k][i].revision <= newest,
         \A q \in Meshes : \A l \in Lods, r \in Nat :
            r = revision[q] /\ OnTheWay(q, l, r) => OnTheWay(q, l, r)' \/ HasNewer(q)
  PROVE  MeshInv'
<1>1. MeshTypes /\ RevisionsFit /\ \A q \in Meshes : RequestKept(q)
  BY DEF MeshInv
<1>2. RevisionsFit'
  BY <1>1 DEF RevisionsFit
<1>3. \A q \in Meshes : revision[q] <= revision'[q]
  BY <1>1 DEF MeshTypes
<1>4. ASSUME NEW q \in Meshes PROVE RequestKept(q)'
  BY <1>1, <1>3, StillKept
<1> QED BY <1>2, <1>4 DEF MeshInv

LEMMA EditMeshNodeOK ==
  ASSUME MeshInv, NEW p \in Meshes, EditMeshNode(p)
  PROVE  MeshInv'
<1>1. MeshTypes /\ UrgentsQueued /\ RevisionsFit
  BY DEF MeshInv
<1>2. PICK edge \in SUBSET Meshes : UpdateBlock(p, Unspecified, TRUE, edge)
  BY AroundMeshes DEF EditMeshNode
<1>3. Unspecified \in Lods \cup {Unspecified}
  OBVIOUS
<1>4. /\ queue' \in [Queues -> Seq(MeshEntry)] /\ urgents' \in [Queues -> SUBSET Meshes]
      /\ UrgentsQueued'
      /\ \A q \in Meshes, l \in Lods : InQueue(q, l) => InQueue(q, l)'
  BY <1>1, <1>2, <1>3, UpdateExtends
<1>5. UNCHANGED <<revision, newest, requested, lodMesh>> /\ UNCHANGED <<wanted, work, results>>
  BY DEF EditMeshNode, blockVars
<1>6. MeshTypes'
  BY <1>1, <1>4, <1>5 DEF MeshTypes
<1>7. /\ \A w \in Makers : work'[w].at = "make" => work'[w].revision <= newest
      /\ \A k \in Queues : \A i \in DOMAIN results'[k] : results'[k][i].revision <= newest
  BY <1>1, <1>5 DEF RevisionsFit
<1>8. \A q \in Meshes : \A l \in Lods, r \in Nat : OnTheWay(q, l, r) => OnTheWay(q, l, r)'
  BY <1>4, <1>5 DEF OnTheWay, InWork, InResults
<1> QED BY <1>4, <1>5, <1>6, <1>7, <1>8, QuietMeshStep

LEMMA TurnCameraOK ==
  ASSUME MeshInv, NEW p \in Meshes, NEW lod \in Lods, TurnCamera(p, lod)
  PROVE  MeshInv'
<1>1. MeshTypes /\ UrgentsQueued /\ RevisionsFit
  BY DEF MeshInv
<1>2. UNCHANGED <<revision, newest, requested, lodMesh>> /\ UNCHANGED <<queue, urgents, work, results>>
  BY DEF TurnCamera, blockVars, queueVars
<1>3. wanted' \in [Meshes -> Lods]
  BY <1>1 DEF TurnCamera, MeshTypes
<1>4. MeshTypes' /\ UrgentsQueued'
  BY <1>1, <1>2, <1>3 DEF MeshTypes, UrgentsQueued
<1>5. /\ \A w \in Makers : work'[w].at = "make" => work'[w].revision <= newest
      /\ \A k \in Queues : \A i \in DOMAIN results'[k] : results'[k][i].revision <= newest
  BY <1>1, <1>2 DEF RevisionsFit
<1>6. \A q \in Meshes : \A l \in Lods, r \in Nat : OnTheWay(q, l, r) => OnTheWay(q, l, r)'
  BY <1>2 DEF OnTheWay, InQueue, InWork, InResults
<1> QED BY <1>2, <1>4, <1>5, <1>6, QuietMeshStep

(* The draw list asks.                                                     *)
LEMMA RequestMeshOK ==
  ASSUME MeshInv, NEW p \in Meshes, RequestMesh(p)
  PROVE  MeshInv'
<1>1. MeshTypes /\ UrgentsQueued /\ RevisionsFit /\ \A q \in Meshes : RequestKept(q)
  BY DEF MeshInv
<1>2. PICK edge \in SUBSET Meshes : UpdateBlock(p, wanted[p], FALSE, edge)
  BY AroundMeshes DEF RequestMesh
<1>3. wanted[p] \in Lods /\ wanted[p] \in Lods \cup {Unspecified} /\ wanted[p] # Unspecified
  BY <1>1, MeshAssumption DEF MeshTypes, Unspecified
<1>4. PICK lod \in Lods : lod = wanted[p]
  BY <1>3
<1>5. /\ queue' \in [Queues -> Seq(MeshEntry)] /\ urgents' \in [Queues -> SUBSET Meshes]
      /\ UrgentsQueued' /\ InQueue(p, lod)'
      /\ \A q \in Meshes \ {p}, l \in Lods : InQueue(q, l) => InQueue(q, l)'
  BY <1>1, <1>2, <1>3, <1>4, UpdateExtends
<1>6. UNCHANGED <<revision, newest, lodMesh>> /\ UNCHANGED <<wanted, work, results>>
  BY DEF RequestMesh, blockVars
<1>7. /\ requested' = [requested EXCEPT ![p] = [revision |-> revision[p], lod |-> lod]]
      /\ revision[p] \in Nat
  BY <1>1, <1>4 DEF RequestMesh, MeshTypes
<1>8. requested' \in [Meshes -> [revision : Nat, lod : Lods]]
  BY <1>1, <1>7 DEF MeshTypes
<1>9. MeshTypes'
  BY <1>1, <1>5, <1>6, <1>8 DEF MeshTypes
<1>10. RevisionsFit'
  <2>1. \A q \in Meshes : requested'[q].revision <= revision'[q] /\ revision'[q] <= newest'
    BY <1>1, <1>6, <1>7 DEF RevisionsFit, MeshTypes
  <2> QED BY <1>1, <1>6, <2>1 DEF RevisionsFit
<1>11. ASSUME NEW q \in Meshes PROVE RequestKept(q)'
  <2>1. CASE q = p
    <3>1. requested'[p].lod = lod
      BY <1>1, <1>7 DEF MeshTypes
    <3> QED BY <1>5, <2>1, <3>1 DEF RequestKept, OnTheWay, InQueue
  <2>2. CASE q # p
    <3>1. \A l \in Lods, r \in Nat : OnTheWay(q, l, r) => OnTheWay(q, l, r)'
      BY <1>5, <1>6, <2>2 DEF OnTheWay, InWork, InResults
    <3>2. requested'[q] = requested[q] /\ \A m \in Meshes : revision[m] <= revision'[m]
      BY <1>1, <1>6, <1>7, <2>2 DEF MeshTypes
    <3> QED BY <1>1, <1>6, <1>9, <3>1, <3>2, StillKept
  <2> QED BY <2>1, <2>2
<1> QED BY <1>5, <1>9, <1>10, <1>11 DEF MeshInv

-----------------------------------------------------------------------------
(* The workers.                                                            *)
LEMMA PopOK ==
  ASSUME MeshInv, NEW w \in Makers, Pop(w)
  PROVE  MeshInv'
<1> DEFINE k == QueueOf(w)
<1>1. MeshTypes /\ UrgentsQueued /\ RevisionsFit
  BY DEF MeshInv
<1>2. k \in Queues
  BY DEF QueueOf, Queues
<1>3. PICK i \in DOMAIN queue[k] :
        /\ queue' = [queue EXCEPT ![k] = RemoveAt(@, i)]
        /\ urgents' = [urgents EXCEPT ![k] = @ \ {queue[k][i].p}]
        /\ work' = [work EXCEPT ![w] = [at |-> "fill", p |-> queue[k][i].p, lod |-> queue[k][i].lod,
                                        urgent |-> queue[k][i].urgent, revision |-> 0]]
  BY DEF Pop
<1>4. work[w] = Idle /\ UNCHANGED <<revision, newest, requested, lodMesh>> /\ UNCHANGED <<wanted, results>>
  BY DEF Pop, blockVars
<1>5. queue \in [Queues -> Seq(MeshEntry)] /\ urgents \in [Queues -> SUBSET Meshes]
      /\ work \in [Makers -> MeshJob \cup {Idle}]
  BY <1>1 DEF MeshTypes
<1> HIDE DEF k
<1>6. queue[k] \in Seq(MeshEntry)
  BY <1>2, <1>5
<1>7. queue[k][i] \in MeshEntry /\ DOMAIN queue[k] = 1 .. Len(queue[k]) /\ Len(queue[k]) \in Nat
  BY <1>6
<1>8. RemoveAt(queue[k], i) \in Seq(MeshEntry)
      /\ \A e \in Range(queue[k]) : e = queue[k][i] \/ e \in Range(RemoveAt(queue[k], i))
  BY <1>6, RemoveAtElements, RemoveAtRange
<1>9. queue' \in [Queues -> Seq(MeshEntry)] /\ urgents' \in [Queues -> SUBSET Meshes]
  BY <1>2, <1>3, <1>5, <1>8
<1>10. queue[k][i].p \in Meshes /\ queue[k][i].lod \in Lods \cup {Unspecified}
       /\ queue[k][i].urgent \in BOOLEAN
  BY <1>7 DEF MeshEntry
<1>11. work' \in [Makers -> MeshJob \cup {Idle}]
  BY <1>3, <1>5, <1>10 DEF MeshJob
<1>12. work'[w].at = "fill" /\ work'[w].p = queue[k][i].p /\ work'[w].lod = queue[k][i].lod
  BY <1>3, <1>5
<1>13. \A v \in Makers : v # w => work'[v] = work[v]
  BY <1>3, <1>5
<1>14. \A v \in Makers : work'[v].at = "make" => work'[v] = work[v]
  BY <1>12, <1>13
<1>15. MeshTypes'
  BY <1>1, <1>4, <1>9, <1>11, <1>14 DEF MeshTypes
<1>16. queue'[k] = RemoveAt(queue[k], i) /\ urgents'[k] = urgents[k] \ {queue[k][i].p}
       /\ \A m \in Queues : m # k => queue'[m] = queue[m] /\ urgents'[m] = urgents[m]
  BY <1>2, <1>3, <1>5
<1>17. UrgentsQueued'
  <2>1. ASSUME NEW m \in Queues, NEW q, q \in urgents'[m]
        PROVE  q \in Queued(queue'[m])
    <3>1. CASE m # k
      BY <1>1, <1>16, <2>1, <3>1 DEF UrgentsQueued
    <3>2. CASE m = k
      <4>1. q \in Queued(queue[k]) /\ q # queue[k][i].p
        BY <1>1, <1>2, <1>16, <2>1, <3>2 DEF UrgentsQueued
      <4>2. PICK j \in DOMAIN queue[k] : queue[k][j].p = q
        BY <4>1 DEF Queued
      <4>3. queue[k][j] \in Range(RemoveAt(queue[k], i))
        BY <1>8, <4>1, <4>2 DEF Range
      <4> QED BY <1>16, <3>2, <4>2, <4>3 DEF Range, Queued
    <3> QED BY <3>1, <3>2
  <2> QED BY <2>1 DEF UrgentsQueued
<1>18. ASSUME NEW q \in Meshes, NEW l \in Lods, NEW r \in Nat, OnTheWay(q, l, r)
       PROVE  OnTheWay(q, l, r)'
  <2>1. CASE InQueue(q, l)
    <3>1. PICK m \in Queues : \E j \in DOMAIN queue[m] : queue[m][j].p = q /\ queue[m][j].lod = l
      BY <2>1 DEF InQueue
    <3>2. PICK j \in DOMAIN queue[m] : queue[m][j].p = q /\ queue[m][j].lod = l
      BY <3>1
    <3>3. CASE m # k
      BY <1>16, <3>1, <3>3 DEF OnTheWay, InQueue
    <3>4. CASE m = k /\ queue[k][j] = queue[k][i]
      BY <1>12, <3>2, <3>4 DEF OnTheWay, InWork
    <3>5. CASE m = k /\ queue[k][j] # queue[k][i]
      <4>1. queue[k][j] \in Range(queue'[k])
        <5>1. queue[k][j] \in Range(queue[k])
          BY <3>2, <3>5 DEF Range
        <5>2. queue[k][j] \in Range(RemoveAt(queue[k], i))
          BY <1>8, <3>5, <5>1
        <5> QED BY <1>16, <5>2
      <4>2. PICK n \in DOMAIN queue'[k] : queue'[k][n] = queue[k][j]
        BY <4>1 DEF Range
      <4>3. queue'[k][n].p = q /\ queue'[k][n].lod = l
        BY <3>2, <3>5, <4>2
      <4> QED BY <1>2, <4>2, <4>3 DEF OnTheWay, InQueue
    <3> QED BY <3>3, <3>4, <3>5
  <2>2. CASE InWork(q, l, r)
    <3>1. PICK v \in Makers : /\ work[v].at \in {"fill", "make"} /\ work[v].p = q /\ work[v].lod = l
                              /\ work[v].at = "make" => work[v].revision >= r
      BY <2>2 DEF InWork
    <3>2. v # w
      BY <1>4, <3>1 DEF Idle
    <3> QED BY <1>13, <3>1, <3>2 DEF OnTheWay, InWork
  <2>3. CASE InResults(q, l, r)
    BY <1>4, <2>3 DEF OnTheWay, InResults
  <2> QED BY <1>18, <2>1, <2>2, <2>3 DEF OnTheWay
<1>19. /\ \A v \in Makers : work'[v].at = "make" => work'[v].revision <= newest
       /\ \A m \in Queues : \A j \in DOMAIN results'[m] : results'[m][j].revision <= newest
  BY <1>1, <1>4, <1>14 DEF RevisionsFit
<1> QED BY <1>4, <1>15, <1>17, <1>18, <1>19, QuietMeshStep

LEMMA FillDataOK ==
  ASSUME MeshInv, NEW w \in Makers, FillDataFromMapBlocks(w)
  PROVE  MeshInv'
<1>1. MeshTypes /\ UrgentsQueued /\ RevisionsFit
  BY DEF MeshInv
<1>2. UNCHANGED <<revision, newest, requested, lodMesh>> /\ UNCHANGED <<wanted, queue, urgents, results>>
  BY DEF FillDataFromMapBlocks, blockVars, queueVars
<1>3. work[w] \in MeshJob /\ work \in [Makers -> MeshJob \cup {Idle}] /\ work[w].at = "fill"
  BY <1>1 DEF FillDataFromMapBlocks, MeshTypes, Idle
<1>4. PICK p \in Meshes : p = work[w].p
  BY <1>3 DEF MeshJob
<1>5. LargestOf(p) \in Nat /\ LargestOf(p) <= newest /\ revision[p] <= LargestOf(p)
  BY <1>1, LargestIs, AroundMeshes
<1>6. wanted[p] \in Lods /\ work[w].lod \in Lods \cup {Unspecified}
  BY <1>1, <1>3 DEF MeshTypes, MeshJob
<1> DEFINE new == [work[w] EXCEPT !.at = "make", !.revision = LargestOf(p),
                       !.lod = IF @ = Unspecified THEN wanted[p] ELSE @]
<1>7. work' = [work EXCEPT ![w] = new]
  BY <1>3, <1>4 DEF FillDataFromMapBlocks
<1>8. /\ new \in MeshJob /\ new.at = "make" /\ new.p = p /\ new.revision = LargestOf(p)
      /\ new.lod \in Lods
      /\ work[w].lod # Unspecified => new.lod = work[w].lod
  BY <1>3, <1>4, <1>5, <1>6 DEF MeshJob
<1> HIDE DEF new
<1>9. /\ work' \in [Makers -> MeshJob \cup {Idle}] /\ work'[w] = new
      /\ \A v \in Makers : v # w => work'[v] = work[v]
  BY <1>3, <1>7, <1>8
<1>10. \A v \in Makers : work'[v].at = "make" => work'[v].lod \in Lods
  BY <1>1, <1>8, <1>9 DEF MeshTypes
<1>11. MeshTypes'
  BY <1>1, <1>2, <1>9, <1>10 DEF MeshTypes
<1>12. UrgentsQueued'
  BY <1>1, <1>2 DEF UrgentsQueued
<1>13. /\ \A v \in Makers : work'[v].at = "make" => work'[v].revision <= newest
       /\ \A m \in Queues : \A j \in DOMAIN results'[m] : results'[m][j].revision <= newest
  BY <1>1, <1>2, <1>5, <1>8, <1>9 DEF RevisionsFit
<1>14. ASSUME NEW q \in Meshes, NEW l \in Lods, NEW r \in Nat, r = revision[q], OnTheWay(q, l, r)
       PROVE  OnTheWay(q, l, r)'
  <2>1. CASE InWork(q, l, r)
    <3>1. PICK v \in Makers : /\ work[v].at \in {"fill", "make"} /\ work[v].p = q /\ work[v].lod = l
                              /\ work[v].at = "make" => work[v].revision >= r
      BY <2>1 DEF InWork
    <3>2. CASE v # w
      BY <1>9, <3>1, <3>2 DEF OnTheWay, InWork
    <3>3. CASE v = w
      <4>1. q = p /\ l # Unspecified /\ new.lod = l
        BY <1>4, <1>8, <3>1, <3>3, MeshAssumption DEF Unspecified
      <4>2. new.revision >= r
        BY <1>5, <1>8, <1>14, <4>1
      <4> QED BY <1>8, <1>9, <4>1, <4>2 DEF OnTheWay, InWork
    <3> QED BY <3>2, <3>3
  <2>2. CASE InQueue(q, l) \/ InResults(q, l, r)
    BY <1>2, <2>2 DEF OnTheWay, InQueue, InResults
  <2> QED BY <1>14, <2>1, <2>2 DEF OnTheWay
<1> QED BY <1>2, <1>11, <1>12, <1>13, <1>14, QuietMeshStep

LEMMA PutResultOK ==
  ASSUME MeshInv, NEW w \in Makers, PutResult(w)
  PROVE  MeshInv'
<1> DEFINE res == [p |-> work[w].p, lod |-> work[w].lod, revision |-> work[w].revision,
                   urgent |-> work[w].urgent]
           k == OutOf(res)
<1>1. MeshTypes /\ UrgentsQueued /\ RevisionsFit
  BY DEF MeshInv
<1>2. UNCHANGED <<revision, newest, requested, lodMesh>> /\ UNCHANGED <<wanted, queue, urgents>>
  BY DEF PutResult, blockVars, queueVars
<1>3. /\ work[w] \in MeshJob /\ work \in [Makers -> MeshJob \cup {Idle}] /\ work[w].at = "make"
      /\ work' = [work EXCEPT ![w] = Idle]
      /\ results' = [results EXCEPT ![k] = Append(@, res)]
  BY <1>1 DEF PutResult, MeshTypes, Idle
<1>4. res \in MeshResult /\ res.revision <= newest
  BY <1>1, <1>3 DEF MeshTypes, RevisionsFit, MeshJob, MeshResult
<1>5. k \in Queues
  BY DEF OutOf, Queues
<1>6. res.p = work[w].p /\ res.lod = work[w].lod /\ res.revision = work[w].revision
  OBVIOUS
<1> HIDE DEF res, k
<1>7. results \in [Queues -> Seq(MeshResult)] /\ results[k] \in Seq(MeshResult)
  BY <1>1, <1>5 DEF MeshTypes
<1>8. /\ Append(results[k], res) \in Seq(MeshResult)
      /\ DOMAIN results[k] = 1 .. Len(results[k]) /\ Len(results[k]) \in Nat
      /\ Len(Append(results[k], res)) = Len(results[k]) + 1
      /\ \A i \in 1 .. Len(results[k]) : Append(results[k], res)[i] = results[k][i]
      /\ Append(results[k], res)[Len(results[k]) + 1] = res
  BY <1>4, <1>7, AppendProperties
<1>9. DOMAIN Append(results[k], res) = 1 .. Len(results[k]) + 1
  BY <1>8
<1>10. /\ results' \in [Queues -> Seq(MeshResult)] /\ results'[k] = Append(results[k], res)
       /\ \A m \in Queues : m # k => results'[m] = results[m]
  BY <1>3, <1>5, <1>7, <1>8
<1>11. ASSUME NEW m \in Queues, NEW i \in DOMAIN results[m]
       PROVE  i \in DOMAIN results'[m] /\ results'[m][i] = results[m][i]
  <2>1. CASE m # k
    BY <1>10, <2>1
  <2>2. CASE m = k
    <3>1. i \in 1 .. Len(results[k]) /\ i \in 1 .. Len(results[k]) + 1
      BY <1>8, <2>2
    <3> QED BY <1>8, <1>9, <1>10, <2>2, <3>1
  <2> QED BY <2>1, <2>2
<1>12. Len(results[k]) + 1 \in DOMAIN results'[k] /\ results'[k][Len(results[k]) + 1] = res
  BY <1>8, <1>9, <1>10
<1>13. \A m \in Queues : \A i \in DOMAIN results'[m] :
         (i \in DOMAIN results[m] /\ results'[m][i] = results[m][i]) \/ results'[m][i] = res
  BY <1>8, <1>9, <1>10
<1>14. /\ work' \in [Makers -> MeshJob \cup {Idle}] /\ work'[w] = Idle
       /\ \A v \in Makers : v # w => work'[v] = work[v]
  BY <1>3
<1>15. \A v \in Makers : work'[v].at = "make" => work'[v] = work[v]
  BY <1>14 DEF Idle
<1>16. MeshTypes'
  BY <1>1, <1>2, <1>10, <1>14, <1>15 DEF MeshTypes
<1>17. UrgentsQueued'
  BY <1>1, <1>2 DEF UrgentsQueued
<1>18. /\ \A v \in Makers : work'[v].at = "make" => work'[v].revision <= newest
       /\ \A m \in Queues : \A i \in DOMAIN results'[m] : results'[m][i].revision <= newest
  BY <1>1, <1>4, <1>13, <1>15 DEF RevisionsFit
<1>19. ASSUME NEW q \in Meshes, NEW l \in Lods, NEW r \in Nat, OnTheWay(q, l, r)
       PROVE  OnTheWay(q, l, r)'
  <2>1. CASE InWork(q, l, r)
    <3>1. PICK v \in Makers : /\ work[v].at \in {"fill", "make"} /\ work[v].p = q /\ work[v].lod = l
                              /\ work[v].at = "make" => work[v].revision >= r
      BY <2>1 DEF InWork
    <3>2. CASE v # w
      BY <1>14, <3>1, <3>2 DEF OnTheWay, InWork
    <3>3. CASE v = w
      BY <1>3, <1>5, <1>6, <1>12, <3>1, <3>3 DEF OnTheWay, InResults
    <3> QED BY <3>2, <3>3
  <2>2. CASE InQueue(q, l)
    BY <1>2, <2>2 DEF OnTheWay, InQueue
  <2>3. CASE InResults(q, l, r)
    <3>1. PICK m \in Queues : \E i \in DOMAIN results[m] :
            results[m][i].p = q /\ results[m][i].lod = l /\ results[m][i].revision >= r
      BY <2>3 DEF InResults
    <3> QED BY <1>11, <3>1 DEF OnTheWay, InResults
  <2> QED BY <1>19, <2>1, <2>2, <2>3 DEF OnTheWay
<1> QED BY <1>2, <1>16, <1>17, <1>18, <1>19, QuietMeshStep

(* Client::step(): a mesh is put into its block, or let go because a block *)
(* around it is newer than what it was made from.                          *)
LEMMA ReplaceMeshOK ==
  ASSUME MeshInv, ReplaceMesh
  PROVE  MeshInv'
<1>1. MeshTypes /\ UrgentsQueued /\ RevisionsFit /\ \A q \in Meshes : RequestKept(q)
  BY DEF MeshInv
<1>2. UNCHANGED <<newest, requested, wanted, queue, urgents, work>>
  BY DEF ReplaceMesh, queueVars
<1>3. PICK k \in Queues :
        /\ results[k] # <<>> /\ results' = [results EXCEPT ![k] = Tail(@)]
        /\ LET r == Head(results[k]) IN
             IF IsUpToDate(r)
             THEN /\ revision' = [revision EXCEPT ![r.p] = r.revision]
                  /\ lodMesh' = [lodMesh EXCEPT ![r.p][r.lod] = r.revision]
             ELSE UNCHANGED <<revision, lodMesh>>
  BY DEF ReplaceMesh, Queues
<1>4. results \in [Queues -> Seq(MeshResult)] /\ results[k] \in Seq(MeshResult)
  BY <1>1 DEF MeshTypes
<1>5. /\ Tail(results[k]) \in Seq(MeshResult) /\ Head(results[k]) \in Range(results[k])
      /\ Range(results[k]) = Range(Tail(results[k])) \union {Head(results[k])}
  BY <1>3, <1>4, TailOnce
<1>6. PICK r \in MeshResult : r = Head(results[k])
  BY <1>4, <1>5, RangeIn
<1>7. r.p \in Meshes /\ r.lod \in Lods /\ r.revision \in Nat
  BY <1>6 DEF MeshResult
<1>8. /\ results' \in [Queues -> Seq(MeshResult)] /\ results'[k] = Tail(results[k])
      /\ \A m \in Queues : m # k => results'[m] = results[m]
  BY <1>3, <1>4, <1>5
<1>9. r.revision <= newest
  <2>1. PICK i \in DOMAIN results[k] : results[k][i] = r
    BY <1>5, <1>6 DEF Range
  <2> QED BY <1>1, <2>1 DEF RevisionsFit
<1>10. /\ LargestOf(r.p) \in Nat /\ revision[r.p] <= LargestOf(r.p)
       /\ \E q \in Around(r.p) : LargestOf(r.p) = revision[q]
  BY <1>1, <1>7, LargestIs, AroundMeshes
<1>11. /\ revision \in [Meshes -> Nat] /\ lodMesh \in [Meshes -> [Lods -> Nat]] /\ newest \in Nat
       /\ \A q \in Meshes : requested[q].revision \in Nat /\ requested[q].lod \in Lods
  BY <1>1 DEF MeshTypes
<1>12. \A q \in Meshes : revision[q] \in Nat /\ revision[q] <= newest
                         /\ requested[q].revision <= revision[q]
  BY <1>1, <1>11 DEF RevisionsFit
<1>13. ASSUME IsUpToDate(r)
       PROVE  /\ revision[r.p] <= r.revision
              /\ \A q \in Meshes : revision'[q] = IF q = r.p THEN r.revision ELSE revision[q]
              /\ \A q \in Meshes : \A l \in Lods :
                   lodMesh'[q][l] = IF q = r.p /\ l = r.lod THEN r.revision ELSE lodMesh[q][l]
              /\ revision' \in [Meshes -> Nat] /\ lodMesh' \in [Meshes -> [Lods -> Nat]]
  <2>1. /\ revision' = [revision EXCEPT ![r.p] = r.revision]
        /\ lodMesh' = [lodMesh EXCEPT ![r.p][r.lod] = r.revision]
    BY <1>3, <1>6, <1>13
  <2>2. revision[r.p] <= r.revision
    BY <1>7, <1>10, <1>12, <1>13 DEF IsUpToDate
  <2> QED BY <1>7, <1>11, <2>1, <2>2
<1>14. /\ revision' \in [Meshes -> Nat] /\ lodMesh' \in [Meshes -> [Lods -> Nat]]
       /\ \A q \in Meshes : revision[q] <= revision'[q] /\ revision'[q] <= newest
  <2>1. CASE IsUpToDate(r)
    BY <1>7, <1>9, <1>11, <1>12, <1>13, <2>1
  <2>2. CASE ~ IsUpToDate(r)
    BY <1>3, <1>6, <1>11, <1>12, <2>2
  <2> QED BY <2>1, <2>2
<1>15. MeshTypes'
  BY <1>1, <1>2, <1>8, <1>14 DEF MeshTypes
<1>16. UrgentsQueued'
  BY <1>1, <1>2 DEF UrgentsQueued
<1>17. \A m \in Queues : \A i \in DOMAIN results'[m] : \E j \in DOMAIN results[m] :
         results'[m][i] = results[m][j]
  <2>1. ASSUME NEW m \in Queues, NEW e, e \in Range(results'[m])
        PROVE  e \in Range(results[m])
    BY <1>5, <1>8, <2>1
  <2> QED BY <2>1 DEF Range
<1>18. RevisionsFit'
  <2>1. \A q \in Meshes : requested'[q].revision <= revision'[q] /\ revision'[q] <= newest'
    <3>1. \A q \in Meshes : revision'[q] \in Nat
      BY <1>14
    <3> QED BY <1>2, <1>11, <1>12, <1>14, <3>1
  <2>2. /\ \A w \in Makers : work'[w].at = "make" => work'[w].revision <= newest'
        /\ \A m \in Queues : \A i \in DOMAIN results'[m] : results'[m][i].revision <= newest'
    BY <1>1, <1>2, <1>17 DEF RevisionsFit
  <2> QED BY <2>1, <2>2 DEF RevisionsFit
<1>19. ASSUME NEW q \in Meshes, NEW l \in Lods, NEW n \in Nat, OnTheWay(q, l, n)
       PROVE  OnTheWay(q, l, n)' \/ (r.p = q /\ r.lod = l /\ r.revision >= n)
  <2>1. CASE InQueue(q, l) \/ InWork(q, l, n)
    BY <1>2, <2>1 DEF OnTheWay, InQueue, InWork
  <2>2. CASE InResults(q, l, n)
    <3>1. PICK m \in Queues : \E i \in DOMAIN results[m] :
            results[m][i].p = q /\ results[m][i].lod = l /\ results[m][i].revision >= n
      BY <2>2 DEF InResults
    <3>2. PICK i \in DOMAIN results[m] :
            results[m][i].p = q /\ results[m][i].lod = l /\ results[m][i].revision >= n
      BY <3>1
    <3>3. CASE m # k
      BY <1>8, <3>2, <3>3 DEF OnTheWay, InResults
    <3>4. CASE m = k
      <4>1. results[k][i] = r \/ results[k][i] \in Range(results'[k])
        BY <1>5, <1>6, <1>8, <3>2, <3>4 DEF Range
      <4>2. CASE results[k][i] \in Range(results'[k])
        <5>1. PICK j \in DOMAIN results'[k] : results'[k][j] = results[k][i]
          BY <4>2 DEF Range
        <5> QED BY <3>2, <3>4, <5>1 DEF OnTheWay, InResults
      <4> QED BY <3>2, <3>4, <4>1, <4>2
    <3> QED BY <3>3, <3>4
  <2> QED BY <1>19, <2>1, <2>2 DEF OnTheWay
<1>20. ASSUME NEW q \in Meshes PROVE RequestKept(q)'
  <2>1. CASE ~ IsUpToDate(r)
    <3>1. UNCHANGED <<revision, lodMesh>>
      BY <1>3, <1>6, <2>1
    <3>2. ASSUME r.revision >= revision[r.p] PROVE HasNewer(r.p)
      <4>1. PICK m \in Around(r.p) : LargestOf(r.p) = revision[m]
        BY <1>10
      <4>2. revision[m] > revision[r.p]
        BY <1>7, <1>10, <1>12, <2>1, <3>2, <4>1 DEF IsUpToDate
      <4> QED BY <4>1, <4>2 DEF HasNewer
    <3>3. \A l \in Lods, n \in Nat : n = revision[q] /\ OnTheWay(q, l, n)
                                   => OnTheWay(q, l, n)' \/ HasNewer(q)
      BY <1>19, <3>2
    <3> QED BY <1>1, <1>2, <1>14, <1>15, <3>1, <3>3, StillKept
  <2>2. CASE IsUpToDate(r) /\ q # r.p
    <3>1. revision'[q] = revision[q] /\ \A l \in Lods : lodMesh'[q][l] = lodMesh[q][l]
      BY <1>13, <2>2
    <3>2. \A l \in Lods, n \in Nat : n = revision[q] /\ OnTheWay(q, l, n)
                                   => OnTheWay(q, l, n)' \/ HasNewer(q)
      BY <1>19, <2>2
    <3> QED BY <1>1, <1>2, <1>14, <1>15, <3>1, <3>2, StillKept
  <2>3. CASE IsUpToDate(r) /\ q = r.p
    <3>1. revision'[q] = r.revision /\ revision[q] <= r.revision
          /\ \A l \in Lods : lodMesh'[q][l] = IF l = r.lod THEN r.revision ELSE lodMesh[q][l]
      BY <1>13, <2>3
    <3>2. CASE revision[q] < r.revision
      <4>1. requested'[q].revision # revision'[q]
        BY <1>2, <1>7, <1>11, <1>12, <3>1, <3>2
      <4> QED BY <4>1 DEF RequestKept
    <3>3. CASE revision[q] = r.revision /\ requested[q].lod = r.lod
      <4>1. ~(lodMesh'[q][requested'[q].lod] < revision'[q])
        BY <1>2, <1>7, <3>1, <3>3
      <4> QED BY <4>1 DEF RequestKept
    <3>4. CASE revision[q] = r.revision /\ requested[q].lod # r.lod
      <4>1. PICK l \in Lods : l = requested[q].lod
        BY <1>11
      <4>2. PICK n \in Nat : n = revision[q]
        BY <1>12
      <4>3. revision' = revision
        <5>1. \A m \in Meshes : revision'[m] = revision[m]
          BY <1>13, <2>3, <3>4
        <5> QED BY <1>11, <1>14, <5>1
      <4>4. OnTheWay(q, l, n) => OnTheWay(q, l, n)'
        BY <1>19, <3>4, <4>1
      <4>5. requested[q].revision = revision[q] /\ lodMesh[q][l] < n
              => OnTheWay(q, l, n)' \/ HasNewer(q)
        BY <1>1, <4>1, <4>2, <4>4 DEF RequestKept
      <4>6. HasNewer(q) => HasNewer(q)'
        BY <4>3 DEF HasNewer
      <4>7. OnTheWay(q, l, n)' => OnTheWay(q, requested[q].lod, revision[q])'
        BY <1>2, <4>1, <4>2, <4>3 DEF OnTheWay, InQueue, InWork, InResults
      <4>8. lodMesh'[q][l] = lodMesh[q][l]
        BY <3>1, <3>4, <4>1
      <4> QED BY <1>2, <4>1, <4>2, <4>3, <4>5, <4>6, <4>7, <4>8 DEF RequestKept
    <3> QED BY <1>7, <1>12, <3>1, <3>2, <3>3, <3>4
  <2> QED BY <2>1, <2>2, <2>3
<1> QED BY <1>15, <1>16, <1>18, <1>20 DEF MeshInv

-----------------------------------------------------------------------------
LEMMA MeshInvCorrect == MeshesSpec => []MeshInv
<1>1. MeshesInit => MeshInv
  BY MeshesInitOK
<1>2. MeshInv /\ [MeshesNext]_meshVars => MeshInv'
  <2> SUFFICES ASSUME MeshInv, [MeshesNext]_meshVars
               PROVE  MeshInv'
    OBVIOUS
  <2>1. CASE UNCHANGED meshVars
    <3>1. UNCHANGED <<revision, newest, requested, lodMesh>> /\ UNCHANGED <<queue, urgents, work, results>>
      BY <2>1 DEF meshVars
    <3>2. MeshTypes' /\ UrgentsQueued'
      BY <2>1 DEF meshVars, MeshInv, MeshTypes, UrgentsQueued
    <3>3. /\ \A w \in Makers : work'[w].at = "make" => work'[w].revision <= newest
          /\ \A k \in Queues : \A i \in DOMAIN results'[k] : results'[k][i].revision <= newest
      BY <3>1 DEF MeshInv, RevisionsFit
    <3>4. \A q \in Meshes : \A l \in Lods, r \in Nat : OnTheWay(q, l, r) => OnTheWay(q, l, r)'
      BY <3>1 DEF OnTheWay, InQueue, InWork, InResults
    <3> QED BY <3>1, <3>2, <3>3, <3>4, QuietMeshStep
  <2>2. ASSUME NEW p \in Meshes, ReceiveMeshBlock(p) PROVE MeshInv'
    BY <2>2, ReceiveMeshBlockOK
  <2>3. ASSUME NEW p \in Meshes, EditMeshNode(p) PROVE MeshInv'
    BY <2>3, EditMeshNodeOK
  <2>4. ASSUME NEW p \in Meshes, RequestMesh(p) PROVE MeshInv'
    BY <2>4, RequestMeshOK
  <2>5. ASSUME NEW p \in Meshes, NEW lod \in Lods, TurnCamera(p, lod) PROVE MeshInv'
    BY <2>5, TurnCameraOK
  <2>6. ASSUME NEW w \in Makers, Pop(w) PROVE MeshInv'
    BY <2>6, PopOK
  <2>7. ASSUME NEW w \in Makers, FillDataFromMapBlocks(w) PROVE MeshInv'
    BY <2>7, FillDataOK
  <2>8. ASSUME NEW w \in Makers, PutResult(w) PROVE MeshInv'
    BY <2>8, PutResultOK
  <2>9. ASSUME ReplaceMesh PROVE MeshInv'
    BY <2>9, ReplaceMeshOK
  <2> QED BY <2>1, <2>2, <2>3, <2>4, <2>5, <2>6, <2>7, <2>8, <2>9 DEF MeshesNext
<1> QED BY <1>1, <1>2, PTL DEF MeshesSpec

(* No worker waits for an urgent block that is not in its queue.           *)
THEOREM UrgentsQueuedCorrect == MeshesSpec => []UrgentsQueued
<1>1. MeshInv => UrgentsQueued
  BY DEF MeshInv
<1> QED BY <1>1, MeshInvCorrect, PTL

(* A block that is not asked for again has the mesh of its revision, will  *)
(* get it, or has a newer block around it.                                 *)
THEOREM GivenUpForNewerCorrect == MeshesSpec => []GivenUpForNewer
<1>1. MeshInv => GivenUpForNewer
  <2> SUFFICES ASSUME MeshInv, NEW p \in Meshes, IsOld(p), ~ MayMark(p),
                      ~ IsUnderWay(p, wanted[p])
               PROVE  HasNewer(p)
    BY DEF GivenUpForNewer, HasNewer
  <2>1. MeshTypes /\ RevisionsFit /\ RequestKept(p)
    BY DEF MeshInv
  <2>2. requested[p] = [revision |-> revision[p], lod |-> wanted[p]]
    BY <2>1 DEF MayMark, RevisionsFit
  <2>3. requested[p].revision = revision[p] /\ requested[p].lod = wanted[p]
    BY <2>2
  <2>4. OnTheWay(p, wanted[p], revision[p]) \/ HasNewer(p)
    BY <2>1, <2>3 DEF RequestKept, IsOld
  <2>5. ~ OnTheWay(p, wanted[p], revision[p])
    BY DEF OnTheWay, InQueue, InWork, InResults, IsUnderWay
  <2> QED BY <2>4, <2>5
<1> QED BY <1>1, MeshInvCorrect, PTL

-----------------------------------------------------------------------------
(* The list of packets (MtpReliableBuffer).                                *)
Near(s, b) == Distance(s, b) < MAX_RELIABLE_WINDOW_SIZE

(* In the order of the circle, within the half of it that begins at base.  *)
OrderedFrom(list, b) ==
  /\ \A i \in DOMAIN list : Near(list[i], b)
  /\ \A i, j \in DOMAIN list : i < j => Distance(list[i], b) < Distance(list[j], b)

BufferInv == /\ m_list \in Seq(Seqnums) /\ base \in Seqnums
             /\ OrderedFrom(m_list, base)

LEMMA DistanceOnCircle ==
  ASSUME NEW a \in Seqnums, NEW b \in Seqnums
  PROVE  Distance(a, b) \in Nat /\ (Distance(a, b) = 0 <=> a = b)
BY WindowAssumption DEF Distance, Seqnums, SEQNUM_MAX, Modulus

LEMMA NextOnCircle ==
  ASSUME NEW b \in Seqnums
  PROVE  /\ Advance(b, 1) \in Seqnums
         /\ \A a \in Seqnums : a # b => Distance(a, Advance(b, 1)) = Distance(a, b) - 1
BY WindowAssumption DEF Distance, Advance, Wrap, Seqnums, SEQNUM_MAX, Modulus

LEMMA BetweenOnCircle ==
  ASSUME NEW a \in Seqnums, NEW b \in Seqnums, NEW c \in Seqnums,
         Distance(a, c) = Distance(b, c)
  PROVE  a = b
BY WindowAssumption DEF Distance, Seqnums, SEQNUM_MAX, Modulus

(* What insert() accepts, and where its loop stops.                        *)
LEMMA AcceptsNear ==
  ASSUME NEW s \in Seqnums, NEW b \in Seqnums
  PROVE  Accepts(s, b) <=> Distance(s, b) \in 1 .. MAX_RELIABLE_WINDOW_SIZE - 1
<1>1. SeqnumInWindow(s, b, MAX_RELIABLE_WINDOW_SIZE)
        <=> Distance(s, b) < MAX_RELIABLE_WINDOW_SIZE
  BY WindowAssumption DEF SeqnumInWindow, Distance, Wrap, Seqnums, SEQNUM_MAX, Modulus
<1> QED BY <1>1, DistanceOnCircle, WindowAssumption DEF Accepts

LEMMA BeforeIsNearer ==
  ASSUME NEW s \in Seqnums, NEW t \in Seqnums, NEW b \in Seqnums, Near(t, b), Near(s, b)
  PROVE  Before(t, s, b) <=> Distance(t, b) < Distance(s, b)
BY WindowAssumption DEF Before, Near, Distance, Seqnums, SEQNUM_MAX, Modulus

LEMMA PlaceFound ==
  ASSUME NEW list \in Seq(Seqnums), NEW s \in Seqnums, NEW b \in Seqnums
  PROVE  /\ Place(list, s, b) \in 1 .. Len(list) + 1
         /\ \A j \in 1 .. Place(list, s, b) - 1 : Before(list[j], s, b)
         /\ Place(list, s, b) <= Len(list) => ~ Before(list[Place(list, s, b)], s, b)
<1> DEFINE Stops == {i \in 1 .. Len(list) + 1 : i <= Len(list) => ~ Before(list[i], s, b)}
           Ok(i) == /\ \A j \in 1 .. i - 1 : Before(list[j], s, b)
                    /\ i <= Len(list) => ~ Before(list[i], s, b)
<1>1. Len(list) \in Nat
  OBVIOUS
<1>2. Len(list) + 1 \in Stops
  BY <1>1
<1>3. PICK i \in Stops : \A k \in Stops : i <= k
  <2>1. Stops \subseteq Nat /\ Stops # {}
    BY <1>1, <1>2
  <2> HIDE DEF Stops
  <2> QED BY <2>1, LeastNatural
<1>4. \A j \in 1 .. i - 1 : Before(list[j], s, b)
  BY <1>1, <1>3
<1>5. \E k \in 1 .. Len(list) + 1 : Ok(k)
  BY <1>3, <1>4
<1>6. Place(list, s, b) = CHOOSE k \in 1 .. Len(list) + 1 : Ok(k)
  BY DEF Place
<1> HIDE DEF Ok
<1>7. Place(list, s, b) \in 1 .. Len(list) + 1 /\ Ok(Place(list, s, b))
  BY <1>5, <1>6
<1> QED BY <1>7 DEF Ok

(* insert() keeps the order, and adds the packet it was given.             *)
LEMMA InsertedOrdered ==
  ASSUME NEW list \in Seq(Seqnums), NEW b \in Seqnums, NEW s \in Seqnums,
         OrderedFrom(list, b), Accepts(s, b)
  PROVE  /\ Inserted(list, s, b) \in Seq(Seqnums)
         /\ OrderedFrom(Inserted(list, s, b), b)
         /\ Range(Inserted(list, s, b)) = Range(list) \union {s}
<1> DEFINE i == Place(list, s, b)
           new == InsertAt(list, i, s)
<1>1. /\ i \in 1 .. Len(list) + 1
      /\ \A j \in 1 .. i - 1 : Before(list[j], s, b)
      /\ i <= Len(list) => ~ Before(list[i], s, b)
  BY PlaceFound
<1>2. Near(s, b)
  BY AcceptsNear, WindowAssumption DEF Near
<1>3. /\ Len(list) \in Nat /\ DOMAIN list = 1 .. Len(list)
      /\ \A j \in DOMAIN list : list[j] \in Seqnums /\ Near(list[j], b)
                                /\ Distance(list[j], b) \in Nat
  BY DistanceOnCircle DEF OrderedFrom
<1>4. Distance(s, b) \in Nat
  BY DistanceOnCircle
<1> HIDE DEF i
<1>5. \A j \in DOMAIN list : j < i => Distance(list[j], b) < Distance(s, b)
  BY <1>1, <1>2, <1>3, BeforeIsNearer
<1>6. CASE i <= Len(list) /\ list[i] = s
  <2>1. Inserted(list, s, b) = list
    BY <1>6 DEF Inserted, i
  <2>2. s \in Range(list)
    BY <1>1, <1>3, <1>6 DEF Range
  <2> QED BY <2>1, <2>2
<1>7. CASE ~ (i <= Len(list) /\ list[i] = s)
  <2>1. Inserted(list, s, b) = new
    BY <1>7 DEF Inserted, i
  <2>2. /\ new \in Seq(Seqnums) /\ Len(new) = Len(list) + 1
        /\ \A j \in 1 .. Len(list) + 1 :
             new[j] = IF j < i THEN list[j] ELSE IF j = i THEN s ELSE list[j - 1]
    BY <1>1, InsertAtElements
  <2>3. Range(new) = Range(list) \union {s}
    BY <1>1, InsertAtRange
  <2> HIDE DEF new
  <2>4. DOMAIN new = 1 .. Len(list) + 1
    BY <2>2
  <2>5. \A j \in DOMAIN list : j >= i => Distance(s, b) < Distance(list[j], b)
    <3>1. i \in DOMAIN list => Distance(s, b) < Distance(list[i], b)
      BY <1>1, <1>2, <1>3, <1>4, <1>7, BeforeIsNearer, BetweenOnCircle
    <3>2. ASSUME NEW j \in DOMAIN list, j >= i PROVE Distance(s, b) < Distance(list[j], b)
      <4>1. i \in DOMAIN list
        BY <1>1, <1>3, <3>2
      <4>2. CASE j = i
        BY <3>1, <4>1, <4>2
      <4>3. CASE j # i
        <5>1. Distance(list[i], b) < Distance(list[j], b)
          BY <1>1, <1>3, <3>2, <4>1, <4>3 DEF OrderedFrom
        <5> QED BY <1>3, <1>4, <3>1, <4>1, <5>1
      <4> QED BY <4>2, <4>3
    <3> QED BY <3>2
  <2>6. ASSUME NEW j \in DOMAIN new PROVE Near(new[j], b)
    <3>1. CASE j < i
      <4>1. j \in DOMAIN list /\ new[j] = list[j]
        BY <1>1, <1>3, <2>2, <2>4, <3>1
      <4> QED BY <1>3, <4>1
    <3>2. CASE j = i
      BY <1>1, <1>2, <2>2, <2>4, <3>2
    <3>3. CASE j > i
      <4>1. j - 1 \in DOMAIN list /\ new[j] = list[j - 1]
        BY <1>1, <1>3, <2>2, <2>4, <3>3
      <4> QED BY <1>3, <4>1
    <3> QED BY <1>1, <2>4, <3>1, <3>2, <3>3
  <2>7. ASSUME NEW j \in DOMAIN new, NEW k \in DOMAIN new, j < k
        PROVE  Distance(new[j], b) < Distance(new[k], b)
    <3>1. CASE k < i
      BY <1>1, <1>3, <2>2, <2>4, <2>7, <3>1 DEF OrderedFrom
    <3>2. CASE k = i
      <4>1. new[j] = list[j] /\ new[k] = s /\ j \in DOMAIN list
        BY <1>1, <1>3, <2>2, <2>4, <2>7, <3>2
      <4> QED BY <1>5, <2>7, <3>2, <4>1
    <3>3. CASE k > i /\ j < i
      <4>1. /\ new[j] = list[j] /\ new[k] = list[k - 1]
            /\ j \in DOMAIN list /\ k - 1 \in DOMAIN list /\ j < k - 1
        BY <1>1, <1>3, <2>2, <2>4, <2>7, <3>3
      <4> QED BY <4>1 DEF OrderedFrom
    <3>4. CASE k > i /\ j = i
      <4>1. new[j] = s /\ new[k] = list[k - 1] /\ k - 1 \in DOMAIN list /\ k - 1 >= i
        BY <1>1, <1>3, <2>2, <2>4, <2>7, <3>4
      <4> QED BY <2>5, <4>1
    <3>5. CASE k > i /\ j > i
      <4>1. /\ new[j] = list[j - 1] /\ new[k] = list[k - 1]
            /\ j - 1 \in DOMAIN list /\ k - 1 \in DOMAIN list /\ j - 1 < k - 1
        BY <1>1, <1>3, <2>2, <2>4, <2>7, <3>5
      <4> QED BY <4>1 DEF OrderedFrom
    <3> QED BY <1>1, <1>3, <2>4, <3>1, <3>2, <3>3, <3>4, <3>5
  <2> QED BY <2>1, <2>2, <2>3, <2>6, <2>7 DEF OrderedFrom
<1> QED BY <1>6, <1>7

(* The first of the list is the nearest.                                   *)
LEMMA FirstIsNearest ==
  ASSUME NEW list \in Seq(Seqnums), NEW b \in Seqnums, OrderedFrom(list, b)
  PROVE  (IF list = <<>> THEN NoSeqnum ELSE Head(list)) = Set!Nearest(ToSet(list), b)
<1>1. CASE list = <<>>
  <2>1. ToSet(list) = {}
    BY <1>1 DEF ToSet
  <2> QED BY <1>1, <2>1 DEF Set!Nearest
<1>2. CASE list # <<>>
  <2> DEFINE held == ToSet(list)
             x == Head(list)
  <2>1. /\ x = list[1] /\ 1 \in DOMAIN list /\ DOMAIN list = 1 .. Len(list)
        /\ Len(list) \in Nat /\ \A i \in DOMAIN list : list[i] \in Seqnums
    BY <1>2
  <2>2. x \in held /\ held # {} /\ held \subseteq Seqnums
    BY <2>1 DEF ToSet
  <2>3. \A i \in DOMAIN list : Distance(list[i], b) \in Nat
    BY <2>1, DistanceOnCircle
  <2>4. ASSUME NEW y \in held
        PROVE  /\ Distance(x, b) <= Distance(y, b)
               /\ Distance(x, b) = Distance(y, b) => x = y
    <3>1. PICK i \in DOMAIN list : y = list[i]
      BY DEF ToSet
    <3>2. i # 1 => Distance(x, b) < Distance(y, b)
      BY <2>1, <3>1 DEF OrderedFrom
    <3> QED BY <2>1, <2>3, <3>1, <3>2
  <2>5. \A z \in held : (\A y \in held : Distance(z, b) <= Distance(y, b)) => z = x
    <3> SUFFICES ASSUME NEW z \in held, \A y \in held : Distance(z, b) <= Distance(y, b)
                 PROVE  z = x
      OBVIOUS
    <3>1. Distance(z, b) <= Distance(x, b) /\ Distance(x, b) <= Distance(z, b)
      BY <2>2, <2>4
    <3>2. Distance(z, b) \in Nat /\ Distance(x, b) \in Nat
      BY <2>1, <2>2, DistanceOnCircle
    <3>3. Distance(x, b) = Distance(z, b)
      BY <3>1, <3>2
    <3> QED BY <2>4, <3>3
  <2>6. Set!Nearest(held, b)
          = CHOOSE z \in held : \A y \in held : Distance(z, b) <= Distance(y, b)
    BY <2>2 DEF Set!Nearest, Set!Distance, Distance, Set!Modulus, Modulus
  <2> HIDE DEF held, x
  <2>7. Set!Nearest(held, b) = x
    BY <2>2, <2>4, <2>5, <2>6
  <2> QED BY <1>2, <2>7 DEF held, x
<1> QED BY <1>1, <1>2

LEMMA BufferInvInit == BufferInit => BufferInv
BY DEF BufferInit, BufferInv, OrderedFrom

(* What is not the first packet's turn is nobody's.                        *)
LEMMA FirstIsBase ==
  ASSUME BufferInv, base \in ToSet(m_list)
  PROVE  m_list # <<>> /\ Head(m_list) = base
<1>1. PICK i \in DOMAIN m_list : m_list[i] = base
  BY DEF ToSet
<1>2. /\ DOMAIN m_list = 1 .. Len(m_list) /\ Len(m_list) \in Nat /\ Head(m_list) = m_list[1]
      /\ m_list # <<>> /\ base \in Seqnums /\ m_list[1] \in Seqnums
  BY <1>1 DEF BufferInv
<1>3. Distance(base, base) = 0 /\ Distance(m_list[1], base) \in Nat
  BY <1>2, DistanceOnCircle
<1>4. i # 1 => Distance(m_list[1], base) < Distance(base, base)
  BY <1>1, <1>2 DEF BufferInv, OrderedFrom
<1> QED BY <1>1, <1>2, <1>3, <1>4

(* base moves past a number the list does not have.                        *)
LEMMA AdvanceOrdered ==
  ASSUME NEW list \in Seq(Seqnums), NEW b \in Seqnums, OrderedFrom(list, b),
         b \notin ToSet(list)
  PROVE  Advance(b, 1) \in Seqnums /\ OrderedFrom(list, Advance(b, 1))
<1>1. \A i \in DOMAIN list : list[i] \in Seqnums /\ list[i] # b
  BY DEF ToSet
<1>2. /\ Advance(b, 1) \in Seqnums
      /\ \A i \in DOMAIN list : /\ Distance(list[i], b) \in Nat
                                /\ Distance(list[i], Advance(b, 1)) = Distance(list[i], b) - 1
  BY <1>1, NextOnCircle, DistanceOnCircle
<1>3. \A i \in DOMAIN list : Near(list[i], Advance(b, 1))
  BY <1>2, WindowAssumption DEF OrderedFrom, Near
<1>4. \A i, j \in DOMAIN list :
        i < j => Distance(list[i], Advance(b, 1)) < Distance(list[j], Advance(b, 1))
  BY <1>2 DEF OrderedFrom
<1> QED BY <1>2, <1>3, <1>4 DEF OrderedFrom

LEMMA TailOrdered ==
  ASSUME NEW list \in Seq(Seqnums), list # <<>>, NEW b \in Seqnums, OrderedFrom(list, b)
  PROVE  /\ Tail(list) \in Seq(Seqnums) /\ OrderedFrom(Tail(list), b)
         /\ ToSet(Tail(list)) = ToSet(list) \ {Head(list)}
<1>1. /\ Tail(list) \in Seq(Seqnums) /\ Head(list) = list[1] /\ 1 \in DOMAIN list
      /\ DOMAIN list = 1 .. Len(list) /\ Len(list) \in Nat
      /\ DOMAIN Tail(list) = 1 .. Len(list) - 1
      /\ \A j \in 1 .. Len(list) - 1 : Tail(list)[j] = list[j + 1]
  BY HeadTailProperties
<1>2. \A j \in DOMAIN Tail(list) : j + 1 \in DOMAIN list /\ Tail(list)[j] = list[j + 1]
  BY <1>1
<1>3. OrderedFrom(Tail(list), b)
  <2>1. \A j \in DOMAIN Tail(list) : Near(Tail(list)[j], b)
    BY <1>2 DEF OrderedFrom
  <2>2. \A i, j \in DOMAIN Tail(list) : i < j =>
          Distance(Tail(list)[i], b) < Distance(Tail(list)[j], b)
    <3> SUFFICES ASSUME NEW i \in DOMAIN Tail(list), NEW j \in DOMAIN Tail(list), i < j
                 PROVE  Distance(Tail(list)[i], b) < Distance(Tail(list)[j], b)
      OBVIOUS
    <3>1. i + 1 < j + 1 /\ i + 1 \in DOMAIN list /\ j + 1 \in DOMAIN list
      BY <1>1, <1>2
    <3> QED BY <1>2, <3>1 DEF OrderedFrom
  <2> QED BY <2>1, <2>2 DEF OrderedFrom
<1>4. IsInjective(list)
  <2> SUFFICES ASSUME NEW i \in DOMAIN list, NEW j \in DOMAIN list, list[i] = list[j], i # j
               PROVE  FALSE
    BY DEF IsInjective
  <2>1. Distance(list[i], b) \in Nat /\ Distance(list[j], b) \in Nat
    BY <1>1, DistanceOnCircle
  <2>2. CASE i < j
    BY <2>1, <2>2 DEF OrderedFrom
  <2>3. CASE j < i
    BY <2>1, <2>3 DEF OrderedFrom
  <2> QED BY <1>1, <2>2, <2>3
<1>5. ToSet(Tail(list)) = ToSet(list) \ {Head(list)}
  BY <1>4, TailOnce DEF ToSet, Range
<1> QED BY <1>1, <1>3, <1>5

LEMMA RemoveOrdered ==
  ASSUME NEW list \in Seq(Seqnums), NEW b \in Seqnums, OrderedFrom(list, b),
         NEW k \in DOMAIN list
  PROVE  /\ RemoveAt(list, k) \in Seq(Seqnums) /\ OrderedFrom(RemoveAt(list, k), b)
         /\ ToSet(RemoveAt(list, k)) = ToSet(list) \ {list[k]}
<1> DEFINE new == RemoveAt(list, k)
<1>1. /\ new \in Seq(Seqnums) /\ Len(new) = Len(list) - 1
      /\ \A j \in 1 .. Len(list) - 1 : new[j] = IF j < k THEN list[j] ELSE list[j + 1]
  BY RemoveAtElements
<1> HIDE DEF new
<1>2. /\ DOMAIN list = 1 .. Len(list) /\ Len(list) \in Nat /\ k \in 1 .. Len(list)
      /\ DOMAIN new = 1 .. Len(list) - 1
  BY <1>1
<1>3. ASSUME NEW j \in DOMAIN new
      PROVE  /\ new[j] = list[IF j < k THEN j ELSE j + 1]
             /\ (IF j < k THEN j ELSE j + 1) \in DOMAIN list
  BY <1>1, <1>2
<1>4. \A j \in DOMAIN new : Near(new[j], b)
  BY <1>3 DEF OrderedFrom
<1>5. ASSUME NEW i \in DOMAIN new, NEW j \in DOMAIN new, i < j
      PROVE  Distance(new[i], b) < Distance(new[j], b)
  <2>1. (IF i < k THEN i ELSE i + 1) < (IF j < k THEN j ELSE j + 1)
    BY <1>2, <1>5
  <2> QED BY <1>3, <2>1 DEF OrderedFrom
<1>6. IsInjective(list)
  <2> SUFFICES ASSUME NEW i \in DOMAIN list, NEW j \in DOMAIN list, list[i] = list[j], i # j
               PROVE  FALSE
    BY DEF IsInjective
  <2>1. Distance(list[i], b) \in Nat /\ Distance(list[j], b) \in Nat
    BY <1>2, DistanceOnCircle
  <2>2. CASE i < j
    BY <2>1, <2>2 DEF OrderedFrom
  <2>3. CASE j < i
    BY <2>1, <2>3 DEF OrderedFrom
  <2> QED BY <1>2, <2>2, <2>3
<1>7. ToSet(new) = ToSet(list) \ {list[k]}
  BY <1>6, RemoveAtOnce DEF ToSet, Range, new
<1> QED BY <1>1, <1>4, <1>5, <1>7 DEF OrderedFrom, new

(* Every step leaves the order, and is one of the set.                     *)
LEMMA BufferStep ==
  ASSUME BufferInv, BufferNext
  PROVE  /\ BufferInv'
         /\ \/ UNCHANGED bufferVars
            \/ \E s \in Seqnums :
                 /\ Distance(s, base) \in 1 .. MAX_RELIABLE_WINDOW_SIZE - 1
                 /\ ToSet(m_list)' = ToSet(m_list) \cup {s} /\ base' = base
            \/ \E s \in Seqnums : ToSet(m_list)' = ToSet(m_list) \ {s} /\ base' = base
            \/ ToSet(m_list)' = ToSet(m_list) \ {base} /\ base' = Advance(base, 1)
<1> USE DEF BufferInv
<1>1. ASSUME NEW s \in Seqnums, Insert(s), ~ Accepts(s, base)
      PROVE  UNCHANGED bufferVars
  BY <1>1 DEF Insert, bufferVars
<1>2. ASSUME NEW s \in Seqnums, Insert(s), Accepts(s, base)
      PROVE  /\ BufferInv'
             /\ Distance(s, base) \in 1 .. MAX_RELIABLE_WINDOW_SIZE - 1
             /\ ToSet(m_list)' = ToSet(m_list) \cup {s} /\ base' = base
  <2>1. m_list' = Inserted(m_list, s, base) /\ base' = base
    BY <1>2 DEF Insert
  <2>2. /\ m_list' \in Seq(Seqnums) /\ OrderedFrom(m_list', base)
        /\ Range(m_list') = Range(m_list) \cup {s}
    BY <1>2, <2>1, InsertedOrdered
  <2>3. ToSet(m_list') = ToSet(m_list) \cup {s}
    BY <2>2 DEF ToSet, Range
  <2> QED BY <1>2, <2>1, <2>2, <2>3, AcceptsNear
<1>3. ASSUME getFirstSeqnum = base, m_list' = Tail(m_list), base' = Advance(base, 1)
      PROVE  /\ BufferInv'
             /\ ToSet(m_list)' = ToSet(m_list) \ {base}
  <2>1. m_list # <<>> /\ Head(m_list) = base
    BY <1>3, NoSeqnumAssumption DEF getFirstSeqnum
  <2>2. /\ Tail(m_list) \in Seq(Seqnums) /\ OrderedFrom(Tail(m_list), base)
        /\ ToSet(Tail(m_list)) = ToSet(m_list) \ {base}
    BY <2>1, TailOrdered
  <2>3. Advance(base, 1) \in Seqnums /\ OrderedFrom(Tail(m_list), Advance(base, 1))
    BY <2>2, AdvanceOrdered
  <2> QED BY <1>3, <2>2, <2>3
<1>4. ASSUME base \notin ToSet(m_list), m_list' = m_list, base' = Advance(base, 1)
      PROVE  /\ BufferInv'
             /\ ToSet(m_list)' = ToSet(m_list) \ {base}
  <2>1. Advance(base, 1) \in Seqnums /\ OrderedFrom(m_list, Advance(base, 1))
    BY <1>4, AdvanceOrdered
  <2> QED BY <1>4, <2>1
<1>5. ASSUME ReceiveNext
      PROVE  /\ BufferInv' /\ base' = Advance(base, 1)
             /\ ToSet(m_list)' = ToSet(m_list) \ {base}
  <2>1. CASE getFirstSeqnum = base
    BY <1>3, <1>5, <2>1 DEF ReceiveNext
  <2>2. CASE getFirstSeqnum # base
    <3>1. base \notin ToSet(m_list)
      BY <2>2, FirstIsBase DEF getFirstSeqnum
    <3> QED BY <1>4, <1>5, <2>2, <3>1 DEF ReceiveNext
  <2> QED BY <2>1, <2>2
<1>6. ASSUME NEW i \in DOMAIN m_list, PopSeqnum(i)
      PROVE  /\ BufferInv' /\ m_list[i] \in Seqnums
             /\ ToSet(m_list)' = ToSet(m_list) \ {m_list[i]} /\ base' = base
  <2>1. m_list' = RemoveAt(m_list, i) /\ base' = base
    BY <1>6 DEF PopSeqnum
  <2> QED BY <2>1, RemoveOrdered
<1>7. CASE \E s \in Seqnums : Insert(s)
  <2>1. PICK s \in Seqnums : Insert(s)
    BY <1>7
  <2>2. CASE Accepts(s, base)
    BY <1>2, <2>1, <2>2
  <2>3. CASE ~ Accepts(s, base)
    <3>1. UNCHANGED bufferVars
      BY <1>1, <2>1, <2>3
    <3> QED BY <3>1 DEF bufferVars
  <2> QED BY <2>2, <2>3
<1>8. CASE PopFirst
  BY <1>3, <1>8 DEF PopFirst
<1>9. CASE TakeSeqnum
  BY <1>4, <1>9 DEF TakeSeqnum
<1>10. CASE \E i \in DOMAIN m_list : PopSeqnum(i)
  BY <1>6, <1>10
<1> QED BY <1>5, <1>7, <1>8, <1>9, <1>10 DEF BufferNext

LEMMA BufferInvCorrect == BufferSpec => []BufferInv
<1>1. BufferInv /\ [BufferNext]_bufferVars => BufferInv'
  <2>1. ASSUME BufferInv, UNCHANGED bufferVars PROVE BufferInv'
    BY <2>1 DEF BufferInv, bufferVars
  <2> QED BY <2>1, BufferStep
<1> QED BY <1>1, BufferInvInit, PTL DEF BufferSpec

(* The list stands for a set, of which the first is the nearest to base:   *)
(* insert() finds the one place that keeps it so, also where the numbers   *)
(* begin again, for circles of any size.                                   *)
THEOREM SetCorrect == BufferSpec => SetSpec
<1>1. BufferInit => Set!SetInit
  BY DEF BufferInit, Set!SetInit, ToSet, getFirstSeqnum, Set!Seqnums, Seqnums,
         Set!SEQNUM_MAX, SEQNUM_MAX
<1>2. BufferInv /\ BufferInv' /\ [BufferNext]_bufferVars => [Set!SetNext]_(Set!setVars)
  <2> SUFFICES ASSUME BufferInv, BufferInv', [BufferNext]_bufferVars
               PROVE  [Set!SetNext]_(Set!setVars)
    OBVIOUS
  <2>1. getFirstSeqnum' = Set!Nearest(ToSet(m_list)', base')
    BY FirstIsNearest DEF BufferInv, getFirstSeqnum
  <2>2. CASE UNCHANGED bufferVars
    BY <2>2 DEF bufferVars, Set!setVars, getFirstSeqnum
  <2>3. CASE BufferNext
    BY <2>1, <2>2, <2>3, BufferStep
    DEF Set!SetNext, Set!Add, Set!Remove, Set!Step, Set!Becomes, Set!Distance, Distance,
        Set!Advance, Advance, Set!Wrap, Wrap, Set!Modulus, Modulus, Set!Seqnums, Seqnums,
        Set!SEQNUM_MAX, SEQNUM_MAX
  <2> QED BY <2>2, <2>3
<1> QED BY <1>1, <1>2, BufferInvCorrect, PTL DEF BufferSpec, SetSpec, Set!SetSpec
=============================================================================
