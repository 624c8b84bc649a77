---------------------------- MODULE BlockSending ----------------------------
(***************************************************************************)
(* One map block on its way to the clients.  The sending of blocks is a    *)
(* thread of its own; edits are made by others, at times that are stamped  *)
(* on the block in whole seconds, and told to the clients later, by single *)
(* node packets.  Those use channel 0 and blocks channel 2, so that one    *)
(* overtakes the other.  A client predicts what it digs, and forgets       *)
(* blocks.                                                                 *)
(*                                                                         *)
(* A node of the block is all that changes; its value is the number of     *)
(* edits made.  Every client is within range of the block and sees it, and *)
(* the block stays loaded.  Time is counted in half seconds.               *)
(***************************************************************************)
EXTENDS Integers, Sequences, FiniteSets

CONSTANTS
  Viewers,       \* active clients
  StockViewers,  \* those without net_proto_version_fm
  MaxEdits,      \* bound on edits
  MaxTime,       \* bound on the uptime, in half seconds
  MaxRequests,   \* bound on what one client sends
  Unknown, Predicted, NoCopy, Nil

ASSUME SendingAssumption ==
  /\ StockViewers \subseteq Viewers
  /\ MaxEdits \in Nat /\ MaxTime \in Nat /\ MaxRequests \in Nat
  /\ {Unknown, Predicted, NoCopy} \cap Nat = {} /\ Unknown # Predicted
  /\ Nil \notin Viewers

VARIABLES
  node,      \* the node as the server has it
  changed,   \* m_changed_timestamp of the block, in seconds
  uptime,    \* m_uptime_counter
  timeLife,  \* ServerMap::time_life, in seconds
  unsent,    \* m_unsent_map_edit_queue
  blocksSent,\* m_blocks_sent of each client: the time, or 0 if it is not there
  selected,  \* clients in the queue of SendBlocks() for this block
  copies,    \* SerializedBlockCache, in use or not, and its copy
  posted,    \* the client whose block was sent and not noted yet
  channel0, channel2, \* packets to each client
  asked,     \* packets from each client
  requests,  \* how many each client has sent
  picture    \* the node as each client has it

editVars    == <<node, changed, unsent>>
timeVars    == <<uptime, timeLife>>
sendVars    == <<selected, copies, posted>>
clientVars  == <<asked, requests, picture>>
sendingVars == <<editVars, timeVars, blocksSent, sendVars, channel0, channel2, clientVars>>

NoCache == [used |-> FALSE, copy |-> NoCopy]

SendingInit ==
  /\ node = 0 /\ changed = 0 /\ unsent = <<>>
  /\ uptime = 2 /\ timeLife = 1
  /\ blocksSent = [v \in Viewers |-> 0]
  /\ selected = {} /\ copies = NoCache /\ posted = Nil
  /\ channel0 = [v \in Viewers |-> <<>>] /\ channel2 = [v \in Viewers |-> <<>>]
  /\ asked = [v \in Viewers |-> <<>>] /\ requests = [v \in Viewers |-> 0]
  /\ picture = [v \in Viewers |-> Unknown]

-----------------------------------------------------------------------------
(* The server's time and edits of the map. *)

TimePasses == /\ uptime < MaxTime /\ uptime' = uptime + 1
              /\ UNCHANGED <<editVars, timeLife, blocksSent, sendVars, channel0, channel2, clientVars>>

MapStep == /\ timeLife' = uptime \div 2
           /\ UNCHANGED <<editVars, uptime, blocksSent, sendVars, channel0, channel2, clientVars>>

(* A node is set, the block stamped, both under the lock of the block, and an
   event put into the queue: of one node, or of blocks (MEET_OTHER). *)
SetNode ==
  /\ node < MaxEdits
  /\ node' = node + 1 /\ changed' = timeLife
  /\ \E single \in BOOLEAN : unsent' = Append(unsent, [single |-> single, to |-> node + 1])

Edit == SetNode /\ UNCHANGED <<timeVars, blocksSent, sendVars, channel0, channel2, clientVars>>

IsBlockSent(v) == blocksSent[v] # 0

SetBlockNotSent(v) == UNCHANGED blocksSent

(* Clients that have been sent the block and are near get a single node; for
   the others the block is set not sent. *)
SendMapEdit ==
  /\ unsent # <<>>
  /\ unsent' = Tail(unsent)
  /\ \E near \in SUBSET {v \in Viewers : IsBlockSent(v)} :
       /\ Head(unsent).single \/ near = {}
       /\ channel0' = [v \in Viewers |-> IF v \in near THEN Append(channel0[v], Head(unsent).to)
                                                      ELSE channel0[v]]
       /\ \A v \in Viewers \ near : SetBlockNotSent(v)
  /\ UNCHANGED <<node, changed, timeVars, blocksSent, sendVars, channel2, clientVars>>

-----------------------------------------------------------------------------
(* SendBlocks(). *)

(* GetNextBlocks(): a client of another kind is never sent a block again. *)
StockWants(v) == ~ IsBlockSent(v)

(* GetNextBlocksFm(): not within a second, and only what has changed since. *)
FmWants(v) ==
  IsBlockSent(v) => blocksSent[v] + 2 <= uptime /\ blocksSent[v] < 2 * changed

Wants(v) == IF v \in StockViewers THEN StockWants(v) ELSE FmWants(v)

Collect ==
  /\ selected = {} /\ posted = Nil
  /\ selected' = {v \in Viewers : Wants(v)} /\ selected' # {}
  /\ copies' = [used |-> Cardinality(selected') > 1, copy |-> NoCopy]
  /\ UNCHANGED <<editVars, timeVars, blocksSent, posted, channel0, channel2, clientVars>>

CopyToSend == IF copies.copy # NoCopy THEN copies.copy ELSE node

SendBlockNoLock(v) ==
  /\ v \in selected /\ posted = Nil
  /\ selected' = selected \ {v}
  /\ channel2' = [channel2 EXCEPT ![v] = Append(@, CopyToSend)]
  /\ copies' = IF copies.used THEN [copies EXCEPT !.copy = CopyToSend] ELSE copies
  /\ posted' = v
  /\ UNCHANGED <<editVars, timeVars, blocksSent, channel0, clientVars>>

(* Another thread writes to the block: try_lock_shared_rec() fails. *)
BlockLocked(v) ==
  /\ v \in selected /\ posted = Nil
  /\ selected' = selected \ {v}
  /\ UNCHANGED <<editVars, timeVars, blocksSent, copies, posted, channel0, channel2, clientVars>>

SentBlock ==
  /\ posted # Nil
  /\ blocksSent' = [blocksSent EXCEPT ![posted] = uptime] /\ posted' = Nil
  /\ UNCHANGED <<editVars, timeVars, selected, copies, channel0, channel2, clientVars>>

-----------------------------------------------------------------------------
(* The client. *)

ReceiveBlock(v) ==
  /\ channel2[v] # <<>>
  /\ picture' = [picture EXCEPT ![v] = Head(channel2[v])]
  /\ channel2' = [channel2 EXCEPT ![v] = Tail(@)]
  /\ UNCHANGED <<editVars, timeVars, blocksSent, sendVars, channel0, asked, requests>>

(* A node of a block the client does not have is dropped. *)
ReceiveNode(v) ==
  /\ channel0[v] # <<>>
  /\ picture' = IF picture[v] = Unknown THEN picture
                ELSE [picture EXCEPT ![v] = Head(channel0[v])]
  /\ channel0' = [channel0 EXCEPT ![v] = Tail(@)]
  /\ UNCHANGED <<editVars, timeVars, blocksSent, sendVars, channel2, asked, requests>>

Ask(v, what, shown) ==
  /\ picture[v] # Unknown /\ requests[v] < MaxRequests
  /\ requests' = [requests EXCEPT ![v] = @ + 1]
  /\ asked' = [asked EXCEPT ![v] = Append(@, what)]
  /\ picture' = [picture EXCEPT ![v] = shown]
  /\ UNCHANGED <<editVars, timeVars, blocksSent, sendVars, channel0, channel2>>

Dig(v) == Ask(v, "dig", Predicted)

(* Only after client_unload_unused_data_timeout, at least 30 s, without use:
   SendBlocks() has noted the block long before. *)
ForgetBlock(v) == posted # v /\ Ask(v, "deleted", Unknown)

(* The server has nothing but SetBlockNotSent() for a node that was not dug. *)
HandleInteract(v) ==
  /\ asked[v] # <<>> /\ Head(asked[v]) = "dig"
  /\ asked' = [asked EXCEPT ![v] = Tail(@)]
  /\ \/ SetNode
     \/ UNCHANGED editVars /\ SetBlockNotSent(v)
  /\ UNCHANGED <<timeVars, blocksSent, sendVars, channel0, channel2, requests, picture>>

(* For a mutant: emptied as SetBlockNotSent() is. *)
SetBlockKept(v) == UNCHANGED blocksSent

SetBlockDeleted(v) == blocksSent' = [blocksSent EXCEPT ![v] = 0]

HandleDeletedBlocks(v) ==
  /\ asked[v] # <<>> /\ Head(asked[v]) = "deleted"
  /\ asked' = [asked EXCEPT ![v] = Tail(@)]
  /\ SetBlockDeleted(v)
  /\ UNCHANGED <<editVars, timeVars, sendVars, channel0, channel2, requests, picture>>

SendingNext ==
  \/ TimePasses \/ MapStep \/ Edit \/ SendMapEdit
  \/ Collect \/ SentBlock
  \/ \E v \in Viewers :
       \/ SendBlockNoLock(v) \/ BlockLocked(v)
       \/ ReceiveBlock(v) \/ ReceiveNode(v) \/ Dig(v) \/ ForgetBlock(v)
       \/ HandleInteract(v) \/ HandleDeletedBlocks(v)

SendingSpec == SendingInit /\ [][SendingNext]_sendingVars

-----------------------------------------------------------------------------
(* Nothing is on its way between the server and a client. *)
AtRest(v) ==
  /\ unsent = <<>> /\ v \notin selected /\ posted # v
  /\ channel0[v] = <<>> /\ channel2[v] = <<>> /\ asked[v] = <<>>

(* No hole stays in a client's world: a block that SendBlocks() has noted as
   sent is with the client or on its way, or the client has told that it has
   forgotten it. *)
NoHole ==
  \A v \in Viewers : AtRest(v) /\ IsBlockSent(v) => picture[v] # Unknown

(* "Re-send block to revert change on client-side", and instead of an edit
   far away "MapBlocks are set not sent": what a client shows wrong is sent to
   it.  A client at rest, whose block GetNextBlocks() will not choose again,
   shows the node as it is. *)
UpToDate ==
  \A v \in Viewers :
    /\ AtRest(v) /\ picture[v] # Unknown
    /\ v \notin StockViewers => blocksSent[v] >= 2 * changed
    => picture[v] = node
=============================================================================
