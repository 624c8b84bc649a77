------------------------------ MODULE MtpSplit ------------------------------
(***************************************************************************)
(* Packets that are cut into chunks, on one channel (src/network/mtp/      *)
(* impl.cpp: makeSplitPacket(), IncomingSplitBuffer).  Reliable and         *)
(* unreliable packets take their split numbers from one counter and are     *)
(* collected in one buffer, under that number alone.                        *)
(*                                                                          *)
(* The chunks of reliable packets arrive as MtpChannel delivers them, in    *)
(* order and once; those of unreliable ones are lost, repeated, reordered.  *)
(* The assumption on the network and on the timeout (NumbersOld): a packet  *)
(* is complete, lost or timed out before its number is used again, 0x10000  *)
(* numbers later.                                                           *)
(***************************************************************************)
EXTENDS Naturals, Sequences, FiniteSets

CONSTANTS
  SplitNumbers,  \* 0x10000
  ChunkCounts,   \* how many chunks a packet is cut into
  MaxSplits,     \* bound on the numbers taken
  NoEntry

Packets == 0 .. MaxSplits - 1
Numbers == 0 .. SplitNumbers - 1
Chunk   == [packet : Packets, num : Nat, count : ChunkCounts, reliable : BOOLEAN]
Entry   == [count : ChunkCounts, reliable : BOOLEAN, chunks : SUBSET Chunk]

ASSUME SplitAssumption ==
  /\ SplitNumbers \in Nat \ {0} /\ MaxSplits \in Nat
  /\ ChunkCounts \subseteq Nat \ {0, 1} /\ NoEntry \notin Entry

VARIABLES
  splits,         \* numbers taken; the code keeps it modulo SplitNumbers
  pipe,           \* chunks in the reliable channel
  datagrams,      \* chunks of unreliable packets in flight
  m_buf,          \* the incomplete packets, by number
  handed,         \* ghost: the packets that the last data handed over is of
  owed            \* ghost: reliable packets not handed over, in order

splitVars == <<splits, pipe, datagrams, m_buf, handed, owed>>

(* Mutant: the number is not advanced. *)
SplitNumberFixed(packet) == 0

(* The number of the packet that took it as the packet-th. *)
SplitNumber(packet) == packet % SplitNumbers

SplitInit ==
  /\ splits = 0 /\ pipe = <<>> /\ datagrams = {}
  /\ m_buf = [n \in Numbers |-> NoEntry] /\ handed = {}
  /\ owed = <<>>

-----------------------------------------------------------------------------
Incomplete == {n \in Numbers : m_buf[n] # NoEntry}

Alive == {pipe[i].packet : i \in DOMAIN pipe}
         \union {c.packet : c \in datagrams}
         \union UNION {{c.packet : c \in m_buf[n].chunks} : n \in Incomplete}

NumbersOld == \A packet \in Alive : splits < packet + SplitNumbers

(* makeAutoSplitPacket(): a number, and the chunks that carry it.          *)
SplitPacket(reliable, count) ==
  LET chunk(i) == [packet |-> splits, num |-> i, count |-> count,
                   reliable |-> reliable] IN
  /\ splits < MaxSplits /\ NumbersOld
  /\ splits' = splits + 1
  /\ IF reliable
     THEN /\ pipe' = pipe \o [i \in 1 .. count |-> chunk(i - 1)]
          /\ owed' = Append(owed, splits)
          /\ UNCHANGED datagrams
     ELSE /\ datagrams' = datagrams \union {chunk(i) : i \in 0 .. count - 1}
          /\ UNCHANGED <<pipe, owed>>
  /\ UNCHANGED <<m_buf, handed>>

(* processReliableSendCommand() that finds no sequence numbers: it has set
   the next split number already, and the command is split again later.    *)
SplitInVain ==
  /\ splits < MaxSplits /\ NumbersOld
  /\ splits' = splits + 1
  /\ UNCHANGED <<pipe, datagrams, m_buf, handed, owed>>

-----------------------------------------------------------------------------
(* IncomingSplitBuffer::insert(): whose count does not match is ignored, as
   is a chunk that is there already; the last one completes the packet.     *)
Collect(c) ==
  LET n     == SplitNumber(c.packet)
      entry == IF m_buf[n] = NoEntry
               THEN [count |-> c.count, reliable |-> c.reliable, chunks |-> {}]
               ELSE m_buf[n]
      known == \E d \in entry.chunks : d.num = c.num
      all   == entry.chunks \union {c}
  IN IF c.count # entry.count \/ known \/ Cardinality(all) < entry.count
     THEN /\ m_buf' = [m_buf EXCEPT ![n] =
               IF c.count # entry.count \/ known THEN entry
               ELSE [entry EXCEPT !.chunks = all]]
          /\ UNCHANGED <<handed, owed>>
     ELSE /\ m_buf' = [m_buf EXCEPT ![n] = NoEntry]
          /\ handed' = {d.packet : d \in all}
          /\ owed' = IF c.reliable /\ owed # <<>> /\ handed' = {Head(owed)}
                     THEN Tail(owed) ELSE owed

ReceiveReliableChunk ==
  /\ pipe # <<>> /\ pipe' = Tail(pipe)
  /\ Collect(Head(pipe))
  /\ UNCHANGED <<splits, datagrams>>

ReceiveChunk(c) ==
  /\ c \in datagrams
  /\ datagrams' \in {datagrams, datagrams \ {c}}
  /\ Collect(c)
  /\ UNCHANGED <<splits, pipe>>

LoseChunk(c) ==
  /\ c \in datagrams /\ datagrams' = datagrams \ {c}
  /\ UNCHANGED <<splits, pipe, m_buf, handed, owed>>

(* Mutant: reliable packets time out as well.                              *)
MayTimeOutAny(n) == m_buf[n] # NoEntry

MayTimeOut(n) == m_buf[n] # NoEntry /\ ~m_buf[n].reliable

removeUnreliableTimedOuts(n) ==
  /\ MayTimeOut(n)
  /\ m_buf' = [m_buf EXCEPT ![n] = NoEntry]
  /\ UNCHANGED <<splits, pipe, datagrams, handed, owed>>

SplitNext ==
  \/ \E count \in ChunkCounts, reliable \in BOOLEAN : SplitPacket(reliable, count)
  \/ SplitInVain \/ ReceiveReliableChunk
  \/ \E c \in datagrams : ReceiveChunk(c) \/ LoseChunk(c)
  \/ \E n \in Numbers : removeUnreliableTimedOuts(n)

SplitSpec == SplitInit /\ [][SplitNext]_splitVars

-----------------------------------------------------------------------------
(* What reaches the user is one packet as it was sent, not chunks of two
   that carry the same number, however the unreliable chunks arrive
   (insert() compares nothing but the number and the count).               *)
HandedWhole == Cardinality(handed) <= 1

(* The packet whose chunks are being taken from the reliable channel. *)
Collecting == {c.packet : c \in {d \in UNION {m_buf[n].chunks : n \in Incomplete} : d.reliable}}

(* A reliable packet is handed over when its last chunk arrives, each once
   and in the order sent; meanwhile no other one is being collected, and no
   timeout takes it (removeUnreliableTimedOuts()).                          *)
ReliableSplitsKept ==
  /\ {owed[i] : i \in DOMAIN owed} = Collecting \union {pipe[i].packet : i \in DOMAIN pipe}
  /\ Collecting \subseteq {owed[i] : i \in DOMAIN owed \intersect {1}}
  /\ Collecting # {} => \E i \in DOMAIN pipe : pipe[i].packet \in Collecting
=============================================================================
