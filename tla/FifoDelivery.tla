---------------------------- MODULE FifoDelivery ----------------------------
(***************************************************************************)
(* What a reliable channel promises: internal.h, PACKET_TYPE_RELIABLE,     *)
(* "they shall be delivered in the same order as sent".  Packets are the   *)
(* numbers 0, 1, 2, ... in the order their sequence numbers were taken.    *)
(***************************************************************************)
EXTENDS Naturals, Sequences

VARIABLES accepted,   \* how many packets the sender has taken
          delivered   \* the packets handed to the receiver's user, in order

fifoVars == <<accepted, delivered>>

FifoInit == accepted = 0 /\ delivered = <<>>

Accept  == /\ accepted' \in Nat /\ accepted' > accepted
           /\ UNCHANGED delivered

Deliver == /\ Len(delivered) < accepted
           /\ delivered' = Append(delivered, Len(delivered))
           /\ UNCHANGED accepted

FifoSpec == FifoInit /\ [][Accept \/ Deliver]_fifoVars
=============================================================================
