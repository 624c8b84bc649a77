------------------------------ MODULE MtpPeers ------------------------------
(***************************************************************************)
(* The peers of a server's connection (src/network/mtp/impl.cpp): created   *)
(* by the receive thread, used by every thread through a PeerHelper, which  *)
(* counts uses, deleted by the send thread (timeout, disconnect) or the     *)
(* receive thread (DISCO), freed by whoever drops the last use; and the     *)
(* events that tell the user of the connection about them.                  *)
(*                                                                          *)
(* A peer is named by its id.  createPeer() draws one of 65534 ids at random;*)
(* assumed here: never one that was used before.                            *)
(***************************************************************************)
EXTENDS Naturals, Sequences, FiniteSets

CONSTANTS
  Addresses,
  MaxPeers,     \* bound on the peers created
  MaxEvents,    \* bound on the events not yet taken
  NoPeer

ASSUME PeersAssumption ==
  MaxPeers \in Nat /\ MaxEvents \in Nat /\ NoPeer \notin 1 .. MaxPeers

PeerIds    == 1 .. MaxPeers
ConThreads == {"receive", "send", "user"}

VARIABLES
  m_peers,              \* ids in the map
  created,              \* ids drawn
  address, m_half_open, \* of each peer
  m_usage, m_pending_deletion, freed,   \* of each; freed counts the deletes
  m_event_queue,
  place,                \* where each thread is
  helpers,              \* the PeerHelpers each thread has, a stack
  deleting,             \* the raw pointer of a thread in deletePeer()
  timeouted_peers,      \* ids the send thread is about to delete
  unbuffering, result,  \* in getFromBuffers(); the peer of the data in hand
  told, late            \* ghost: what the user knows of each peer, and how
                        \* much data came after its removal

attributeVars == <<created, address, m_half_open>>
countVars  == <<m_usage, m_pending_deletion, freed>>
threadVars == <<place, helpers, deleting, timeouted_peers, unbuffering, result>>
ghostVars  == <<told, late>>
peersVars  == <<m_peers, attributeVars, countVars, m_event_queue, threadVars,
                ghostVars>>

PeersInit ==
  /\ m_peers = {} /\ created = 0
  /\ address = [p \in PeerIds |-> NoPeer]
  /\ m_half_open = [p \in PeerIds |-> TRUE]
  /\ m_usage = [p \in PeerIds |-> 0]
  /\ m_pending_deletion = [p \in PeerIds |-> FALSE]
  /\ freed = [p \in PeerIds |-> 0]
  /\ m_event_queue = <<>>
  /\ place = [t \in ConThreads |-> "idle"]
  /\ helpers = [t \in ConThreads |-> <<>>]
  /\ deleting = [t \in ConThreads |-> NoPeer] /\ timeouted_peers = {}
  /\ unbuffering = FALSE /\ result = NoPeer
  /\ told = [p \in PeerIds |-> "nothing"] /\ late = [p \in PeerIds |-> 0]

-----------------------------------------------------------------------------
(* PeerHelper.                                                             *)

Go(t, there) == place' = [place EXCEPT ![t] = there]
Held(t) == helpers[t][Len(helpers[t])]

(* getPeerNoEx() and IncUseCount(), under the locks of map and peer.       *)
getPeerNoEx(t, p) ==
  /\ p \in m_peers /\ ~m_pending_deletion[p]
  /\ m_usage' = [m_usage EXCEPT ![p] = @ + 1]
  /\ helpers' = [helpers EXCEPT ![t] = Append(@, p)]

(* Mutant: whoever drops the last use frees the peer.                      *)
LastUseAny(p) == m_usage[p] = 1

(* DecUseCount() frees it when it is also pending.                         *)
LastUse(p) == m_usage[p] = 1 /\ m_pending_deletion[p]

FreePeer(p) == freed' = [freed EXCEPT ![p] = @ + 1]

(* ~PeerHelper()                                                           *)
DecUseCount(t) ==
  /\ helpers[t] # <<>>
  /\ m_usage' = [m_usage EXCEPT ![Held(t)] = @ - 1]
  /\ helpers' = [helpers EXCEPT ![t] = SubSeq(@, 1, Len(@) - 1)]
  /\ IF LastUse(Held(t)) THEN FreePeer(Held(t)) ELSE UNCHANGED freed

putEvent(type, p) ==
  /\ Len(m_event_queue) < MaxEvents
  /\ m_event_queue' = Append(m_event_queue, [type |-> type, peer |-> p])

-----------------------------------------------------------------------------
(* The receive thread.                                                     *)

(* lookupPeer(sender) finds one of these. *)
PeersOf(sender) == {p \in m_peers : ~m_pending_deletion[p] /\ address[p] = sender}

IsNew(sender) == PeersOf(sender) = {}

(* receive() of a datagram of somebody unknown; createPeer() does all of it
   under the lock of the map.  The loop then finds the new peer, see Receive.*)
createPeer(sender) ==
  /\ place["receive"] = "idle" /\ IsNew(sender) /\ created < MaxPeers
  /\ created' = created + 1
  /\ m_peers' = m_peers \union {created'}
  /\ address' = [address EXCEPT ![created'] = sender]
  /\ putEvent("added", created')
  /\ UNCHANGED <<m_half_open, countVars, threadVars, ghostVars>>

(* receive() takes the peer of a datagram, by the id in it or by its sender;
   the sender's address is compared, and who has known the id before may not
   forget it.                                                              *)
Receive(p, sender, knew_peer_id) ==
  /\ place["receive"] = "idle" /\ getPeerNoEx("receive", p)
  /\ knew_peer_id \/ p \in PeersOf(sender)
  /\ unbuffering' = FALSE
  /\ IF address[p] = sender /\ (knew_peer_id \/ m_half_open[p])
     THEN /\ m_half_open' = [m_half_open EXCEPT ![p] = @ /\ ~knew_peer_id]
          /\ Go("receive", "process")
     ELSE Go("receive", "finish") /\ UNCHANGED m_half_open
  /\ UNCHANGED <<m_peers, created, address, m_pending_deletion, freed, m_event_queue, deleting,
                 timeouted_peers, result, ghostVars>>

(* getFromBuffers() looks at every peer for packets whose turn has come.   *)
getFromBuffers(p) ==
  /\ place["receive"] = "idle" /\ getPeerNoEx("receive", p)
  /\ unbuffering' = TRUE /\ Go("receive", "process")
  /\ UNCHANGED <<m_peers, attributeVars, m_pending_deletion, freed,
                 m_event_queue, deleting, timeouted_peers, result, ghostVars>>

(* processPacket() looks the peer up again, and gives up if it is gone. *)
processPacket ==
  /\ place["receive"] = "process"
  /\ \/ getPeerNoEx("receive", Held("receive")) /\ Go("receive", "handle")
     \/ /\ Held("receive") \notin m_peers /\ Go("receive", "finish")
        /\ UNCHANGED <<m_usage, helpers>>
  /\ UNCHANGED <<m_peers, attributeVars, m_pending_deletion, freed,
                 m_event_queue, deleting, timeouted_peers, unbuffering, result,
                 ghostVars>>

(* Data for the user; an ack, a ping, a chunk; DISCO; or a reliable packet,
   whose inside is processed in turn. *)
HandlePacket ==
  /\ place["receive"] = "handle"
  /\ \/ Go("receive", "data") /\ result' = Held("receive")
     \/ Go("receive", "finish") /\ UNCHANGED result
     \/ Go("receive", "erase") /\ UNCHANGED result
     \/ /\ Len(helpers["receive"]) = 2 /\ Go("receive", "process")
        /\ UNCHANGED result
  /\ UNCHANGED <<m_peers, attributeVars, countVars, m_event_queue, helpers,
                 deleting, timeouted_peers, unbuffering, ghostVars>>

(* The helpers alive when receive() puts the event: its own, or none after
   getFromBuffers() has returned.                                           *)
AtPut == IF unbuffering THEN 0 ELSE 1

PutData ==
  /\ place["receive"] = "data" /\ Len(helpers["receive"]) = AtPut
  /\ putEvent("data", result) /\ result' = NoPeer
  /\ Go("receive", "finish")
  /\ UNCHANGED <<m_peers, attributeVars, countVars, helpers, deleting,
                 timeouted_peers, unbuffering, ghostVars>>

-----------------------------------------------------------------------------
(* The send thread.                                                        *)

Visit(p) ==
  /\ place["send"] = "idle" /\ p \notin timeouted_peers
  /\ getPeerNoEx("send", p) /\ Go("send", "visit")
  /\ UNCHANGED <<m_peers, attributeVars, m_pending_deletion, freed,
                 m_event_queue, deleting, timeouted_peers, unbuffering, result,
                 ghostVars>>

(* runTimeouts() finds it timed out, or sendPackets() that it shall be
   disconnected, at any time; or it is only used. *)
Visited ==
  /\ place["send"] = "visit" /\ Go("send", "finish")
  /\ timeouted_peers' \in {timeouted_peers, timeouted_peers \union {Held("send")}}
  /\ UNCHANGED <<m_peers, attributeVars, countVars, m_event_queue, helpers,
                 deleting, unbuffering, result, ghostVars>>

BeginDelete ==
  /\ place["send"] = "idle" /\ timeouted_peers # {}
  /\ Go("send", "erase")
  /\ UNCHANGED <<m_peers, attributeVars, countVars, m_event_queue, helpers,
                 deleting, timeouted_peers, unbuffering, result, ghostVars>>

-----------------------------------------------------------------------------
(* deletePeer(), by either thread.                                         *)

ToDelete(t) == IF t = "send" THEN timeouted_peers ELSE {Held(t)}

(* Mutant: not finding the peer in the map is no reason to stop.           *)
InMapAlways(p) == TRUE

InMap(p) == p \in m_peers

DeleteErase(t, p) ==
  /\ place[t] = "erase" /\ p \in ToDelete(t)
  /\ m_peers' = m_peers \ {p}
  /\ IF InMap(p)
     THEN deleting' = [deleting EXCEPT ![t] = p] /\ Go(t, "event")
     ELSE Go(t, "finish") /\ UNCHANGED deleting
  /\ timeouted_peers' = IF t = "send" THEN timeouted_peers \ {p} ELSE timeouted_peers
  /\ UNCHANGED <<attributeVars, countVars, m_event_queue, helpers, unbuffering,
                 result, ghostVars>>

DeleteEvent(t) ==
  /\ place[t] = "event" /\ Go(t, "drop")
  /\ putEvent("removed", deleting[t])
  /\ UNCHANGED <<m_peers, attributeVars, countVars, helpers, deleting,
                 timeouted_peers, unbuffering, result, ghostVars>>

DropFrees(p) == IF m_usage[p] = 0 THEN FreePeer(p) ELSE UNCHANGED freed

(* Drop()                                                                  *)
DeleteDrop(t) ==
  /\ place[t] = "drop" /\ Go(t, "finish")
  /\ m_pending_deletion' = [m_pending_deletion EXCEPT ![deleting[t]] = TRUE]
  /\ DropFrees(deleting[t])
  /\ deleting' = [deleting EXCEPT ![t] = NoPeer]
  /\ UNCHANGED <<m_peers, attributeVars, m_usage, m_event_queue, helpers,
                 timeouted_peers, unbuffering, result, ghostVars>>

(* The helpers go out of scope. *)
Leave(t) ==
  /\ \/ place[t] = "finish"
     \/ place[t] = "data" /\ Len(helpers[t]) > AtPut
  /\ DecUseCount(t)
  /\ UNCHANGED <<m_peers, attributeVars, m_pending_deletion, m_event_queue,
                 place, deleting, timeouted_peers, unbuffering, result,
                 ghostVars>>

Left(t) ==
  /\ place[t] = "finish" /\ helpers[t] = <<>> /\ Go(t, "idle")
  /\ UNCHANGED <<m_peers, attributeVars, countVars, m_event_queue, helpers,
                 deleting, timeouted_peers, unbuffering, result, ghostVars>>

-----------------------------------------------------------------------------
(* The user: GetPeerAddress(), getPeerStat(); Receive().                    *)

UsePeer(p) ==
  /\ place["user"] = "idle"
  /\ getPeerNoEx("user", p) /\ Go("user", "finish")
  /\ UNCHANGED <<m_peers, attributeVars, m_pending_deletion, freed,
                 m_event_queue, deleting, timeouted_peers, unbuffering, result,
                 ghostVars>>

Heard(knows, type) ==
  IF <<knows, type>> \in {<<"nothing", "added">>, <<"added", "removed">>}
  THEN type
  ELSE IF type = "data" /\ knows # "nothing" THEN knows ELSE "wrong"

(* peerAdded(), deletingPeer(), ProcessData(). *)
TakeEvent ==
  LET e == Head(m_event_queue) IN
  /\ place["user"] = "idle"
  /\ m_event_queue # <<>> /\ m_event_queue' = Tail(m_event_queue)
  /\ told' = [told EXCEPT ![e.peer] = Heard(@, e.type)]
  /\ late' = [late EXCEPT ![e.peer] =
       IF e.type = "data" /\ told[e.peer] = "removed" THEN @ + 1 ELSE @]
  /\ UNCHANGED <<m_peers, attributeVars, countVars, threadVars>>

PeersNext ==
  \/ \E a \in Addresses : createPeer(a)
  \/ \E p \in PeerIds :
       \/ \E a \in Addresses, knew \in BOOLEAN : Receive(p, a, knew)
       \/ getFromBuffers(p) \/ Visit(p) \/ UsePeer(p)
       \/ \E t \in ConThreads : DeleteErase(t, p)
  \/ processPacket \/ HandlePacket \/ PutData \/ Visited \/ BeginDelete
  \/ \E t \in ConThreads : DeleteEvent(t) \/ DeleteDrop(t) \/ Leave(t) \/ Left(t)
  \/ TakeEvent

PeersSpec == PeersInit /\ [][PeersNext]_peersVars

-----------------------------------------------------------------------------
(* Properties.                                                             *)

Uses(p) == {x \in ConThreads \X (1 .. 3) : x[2] \in DOMAIN helpers[x[1]]
                                           /\ helpers[x[1]][x[2]] = p}

(* No thread holds, is deleting or can find a peer that has been freed, no
   peer is freed twice, and one that was dropped is freed as soon as nobody
   uses it (IncUseCount(), DecUseCount() and Drop() check the count and the
   flag under the peer's lock but free it outside; the map has a lock of its
   own).                                                                    *)
FreedInTime == \A p \in 1 .. created :
  /\ m_usage[p] = Cardinality(Uses(p))
  /\ freed[p] = IF m_pending_deletion[p] /\ Uses(p) = {} THEN 1 ELSE 0
  /\ p \in m_peers \union {deleting[t] : t \in ConThreads} => ~m_pending_deletion[p]

(* The user hears of a peer when it is added, before anything else about it,
   and of its removal once, although two threads may delete it at the same
   time; and after that it gets at most one more packet of it, the one that
   receive() was at (deletePeer() puts the event before the last use ends).*)
EventsInOrder == \A p \in PeerIds : told[p] # "wrong" /\ late[p] <= 1
=============================================================================
