---------------------------- MODULE MCClientParts ----------------------------
(***************************************************************************)
(* The parts of the MTP connection that MtpChannel takes for granted, and  *)
(* the queue of meshes behind it in a client, side by side: they share no  *)
(* state here, so that only one of them, the mover, takes steps in a       *)
(* behaviour, and the others stay where they begin.                        *)
(***************************************************************************)
EXTENDS MtpReliableBuffer, MtpWindow, MtpSplit, MtpPeers, MtpHandshake, MeshQueue

CONSTANTS p1, p2   \* two blocks

VARIABLE mover

(* They touch at an edge: a change of one raises its own revision only. *)
EdgeTouching == {<<p1, p2>>, <<p2, p1>>}
NoFaces      == {}

partsVars == <<mover, bufferVars, windowVars, splitVars, peersVars, handshakeVars, meshVars>>

MCInit ==
  /\ mover \in {"buffer", "window", "split", "peers", "handshake", "meshes"}
  /\ BufferInit /\ (mover # "buffer" => base = 0)
  /\ WindowInit /\ SplitInit /\ PeersInit /\ HandshakeInit /\ MeshesInit

MCNext ==
  /\ UNCHANGED mover
  /\ \/ /\ mover = "buffer" /\ BufferNext
        /\ UNCHANGED <<windowVars, splitVars, peersVars, handshakeVars, meshVars>>
     \/ /\ mover = "window" /\ WindowNext
        /\ UNCHANGED <<bufferVars, splitVars, peersVars, handshakeVars, meshVars>>
     \/ /\ mover = "split" /\ SplitNext
        /\ UNCHANGED <<bufferVars, windowVars, peersVars, handshakeVars, meshVars>>
     \/ /\ mover = "peers" /\ PeersNext
        /\ UNCHANGED <<bufferVars, windowVars, splitVars, handshakeVars, meshVars>>
     \/ /\ mover = "handshake" /\ HandshakeNext
        /\ UNCHANGED <<bufferVars, windowVars, splitVars, peersVars, meshVars>>
     \/ /\ mover = "meshes" /\ MeshesNext
        /\ UNCHANGED <<bufferVars, windowVars, splitVars, peersVars, handshakeVars>>

MCSpec == MCInit /\ [][MCNext]_partsVars
=============================================================================
