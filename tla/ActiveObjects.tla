---------------------------- MODULE ActiveObjects ----------------------------
(***************************************************************************)
(* Entities between active objects and the static objects of map blocks.   *)
(* The EnvThread updates the active blocks, saves and deactivates objects  *)
(* outside them, activates what is stored in new ones, and clears objects  *)
(* that are gone; scripts spawn, move and remove entities meanwhile, a     *)
(* client comes to know objects and forgets them, and blocks are unloaded  *)
(* and loaded.  At the end the server stops.                               *)
(*                                                                         *)
(* Blocks are saved when they are unloaded and when the server stops; what *)
(* a save in between leaves, a block that was loaded and activated has as  *)
(* well: the object active, its data in the database, nothing modified.    *)
(*                                                                         *)
(* The callback of clearIf() on one object is one step.  All entities are  *)
(* saved (static_save), all blocks are generated, and no two are three     *)
(* blocks apart (ACTIVE_OBJECT_RESAVE_DISTANCE_SQ).  An id is used again   *)
(* as soon as it is free.                                                  *)
(***************************************************************************)
EXTENDS Integers, FiniteSets, SequencesExt

CONSTANTS
  MaxEntities,    \* entities that scripts spawn, numbered in that order
  MapBlocks,      \* the positions of map blocks
  Ids,            \* ids of active objects
  MaxPerBlock,    \* get_max_objects_per_block()
  Nobody, Nowhere

Entities == 1..MaxEntities

(* StaticObjectList of a block, and an active object.                      *)
StaticObjectList == [stored : Seq(Entities), active : [Ids -> Entities \union {Nobody}],
                     modified : BOOLEAN]
ActiveObject == [entity : Entities, pos : MapBlocks, static : MapBlocks \union {Nowhere},
                 known : {0, 1}, removal : BOOLEAN, deactivation : BOOLEAN]

ASSUME ObjectsAssumption ==
  /\ MaxEntities \in Nat /\ MaxPerBlock \in Nat /\ Nowhere \notin MapBlocks
  /\ Ids \subseteq Nat /\ IsFiniteSet(Ids)
  /\ Nobody \notin Entities \union StaticObjectList \union ActiveObject

VARIABLES
  content,        \* MapBlock::m_static_objects of loaded blocks, or Nobody
  disk,           \* the static objects in the map database
  objects,        \* m_active_objects
  activeBlocks,   \* m_active_blocks
  blocksAdded,    \* m_blocks_added
  envPc,          \* the pass the EnvThread is in
  toVisit,        \* objects clearIf() has yet to call back for
  toRemove,       \* ActiveObjectMgr::objects_to_remove
  fate            \* what has become of each entity, for the properties

objectVars == <<content, disk, objects, activeBlocks, blocksAdded,
                envPc, toVisit, toRemove, fate>>

envVars == <<activeBlocks, blocksAdded, envPc, toVisit, toRemove>>

Present   == {id \in Ids : objects[id] # Nobody}
IsGone(o) == o.removal \/ o.deactivation
Live(id)  == objects[id] # Nobody /\ ~ IsGone(objects[id])

Running == envPc \notin {"force", "stopped"}

NoneActive == [id \in Ids |-> Nobody]

ObjectsInit ==
  /\ content = [b \in MapBlocks |-> Nobody] /\ disk = [b \in MapBlocks |-> <<>>]
  /\ objects = [id \in Ids |-> Nobody]
  /\ activeBlocks = {} /\ blocksAdded = {}
  /\ envPc = "idle" /\ toVisit = {} /\ toRemove = {}
  /\ fate = [e \in Entities |-> "new"]

(***************************************************************************)
(* Static objects of blocks.                                               *)
(***************************************************************************)

(* emergeBlock(): a block that is not loaded is read from the database,    *)
(* where all that was active has become stored.                            *)
Emerged(c, b) ==
  IF c[b] # Nobody THEN c[b]
  ELSE [stored |-> disk[b], active |-> NoneActive, modified |-> FALSE]

(* Ids in ascending order.                                                 *)
Ordered(ids) ==
  [i \in 1..Cardinality(ids) |->
     CHOOSE id \in ids : Cardinality({j \in ids : j <= id}) = i]

(* serialize(): the stored ones, then the active ones.                     *)
Serialized(block) ==
  block.stored \o
  LET ids == Ordered({id \in Ids : block.active[id] # Nobody})
  IN [i \in DOMAIN ids |-> block.active[ids[i]]]

(* deleteStaticFromBlock(), for an object with static data in block b.     *)
DeleteStatic(c, b, id, mark) ==
  IF b = Nowhere THEN c
  ELSE [c EXCEPT ![b] = [Emerged(c, b) EXCEPT !.active[id] = Nobody,
                                              !.modified = @ \/ mark]]

IsFull(c, b) == Len(Emerged(c, b).stored) >= MaxPerBlock

(* saveStaticToBlock(), where the block is not full: to the active list    *)
(* under an id, or to the stored ones.                                     *)
SaveStatic(c, b, id, e, stored, mark) ==
  [c EXCEPT ![b] =
    LET block == Emerged(c, b)
    IN [block EXCEPT
          !.stored = IF stored THEN Append(@, e) ELSE @,
          !.active[id] = IF stored \/ @ # Nobody THEN @ ELSE e,
          !.modified = @ \/ mark]]

(***************************************************************************)
(* Scripts and the client.                                                 *)
(***************************************************************************)

FreeIds == Ids \ Present

NewObject(e, b, s) ==
  [entity |-> e, pos |-> b, static |-> s, known |-> 0,
   removal |-> FALSE, deactivation |-> FALSE]

(* addActiveObject(): with a copy in the block it stands in.               *)
Spawn(e, b) ==
  /\ Running /\ FreeIds # {}
  /\ e = 1 + Cardinality({d \in Entities : fate[d] # "new"})
  /\ LET id == CHOOSE i \in FreeIds : \A j \in FreeIds : i <= j
     IN /\ objects' = [objects EXCEPT ![id] = NewObject(e, b, b)]
        /\ content' = [content EXCEPT ![b] =
             [Emerged(content, b) EXCEPT !.active[id] = e, !.modified = TRUE]]
  /\ fate' = [fate EXCEPT ![e] = "alive"]
  /\ UNCHANGED <<disk, envVars>>

MoveEntity(id, b) ==
  /\ Running /\ Live(id)
  /\ objects' = [objects EXCEPT ![id].pos = b]
  /\ UNCHANGED <<content, disk, envVars, fate>>

(* obj:remove(), or death.                                                 *)
MarkForRemoval(id) ==
  /\ Running /\ Live(id)
  /\ objects' = [objects EXCEPT ![id].removal = TRUE]
  /\ fate' = [fate EXCEPT ![objects[id].entity] = "removed"]
  /\ UNCHANGED <<content, disk, envVars>>

(* SendActiveObjectRemoveAdd(): an object is added only while it is not    *)
(* gone, and taken back when it is gone or out of range.                   *)
AddKnown(id) ==
  /\ Running /\ Live(id) /\ objects[id].known = 0
  /\ objects' = [objects EXCEPT ![id].known = 1]
  /\ UNCHANGED <<content, disk, envVars, fate>>

RemoveKnown(id) ==
  /\ Running /\ objects[id] # Nobody /\ objects[id].known = 1
  /\ objects' = [objects EXCEPT ![id].known = 0]
  /\ UNCHANGED <<content, disk, envVars, fate>>

(***************************************************************************)
(* The passes of the EnvThread.                                            *)
(***************************************************************************)

(* The active blocks follow the players; deactivateFarObjects(false) next. *)
UpdateActiveBlocks(S) ==
  /\ envPc = "idle"
  /\ activeBlocks' = S /\ blocksAdded' = S \ activeBlocks
  /\ envPc' = "deactivate" /\ toVisit' = Present
  /\ UNCHANGED <<content, disk, objects, toRemove, fate>>

RemoveRemovedObjects ==
  /\ envPc = "idle"
  /\ envPc' = "clear" /\ toVisit' = Present
  /\ UNCHANGED <<content, disk, objects, activeBlocks, blocksAdded, toRemove, fate>>

(* deactivateBlocksAndObjects().                                           *)
Stop ==
  /\ envPc = "idle"
  /\ envPc' = "force" /\ activeBlocks' = {} /\ toVisit' = Present
  /\ UNCHANGED <<content, disk, objects, blocksAdded, toRemove, fate>>

(* In the order of the ids.                                                *)
CalledBack(id) ==
  /\ id \in toVisit /\ \A i \in toVisit : id <= i
  /\ toVisit' = toVisit \ {id}
  /\ UNCHANGED <<disk, activeBlocks, blocksAdded, envPc>>

(* Not the business of deactivateFarObjects(false).                        *)
Skips(o) == envPc = "deactivate" /\ IsGone(o)

MustResave(o) ==
  /\ envPc = "deactivate" /\ o.static # Nowhere
  /\ o.pos \in activeBlocks /\ o.static \notin activeBlocks

(* Mutant: nobody asks whether the static data could be saved.             *)
ResaveUnchecked(id) ==
  LET o       == objects[id]
      deleted == DeleteStatic(content, o.static, id, TRUE)
  IN /\ content' = IF IsFull(deleted, o.pos) THEN deleted
                   ELSE SaveStatic(deleted, o.pos, id, o.entity, FALSE, TRUE)
     /\ objects' = [objects EXCEPT ![id].static = o.pos]

(* The static data of an object that has walked from a deactivated block   *)
(* into an active one moves with it, unless that one is full.              *)
Resave(id) ==
  LET o       == objects[id]
      deleted == DeleteStatic(content, o.static, id, TRUE)
  IN IF IsFull(deleted, o.pos)
     THEN /\ content' = deleted
          /\ objects' = [objects EXCEPT ![id].static = Nowhere]
     ELSE /\ content' = SaveStatic(deleted, o.pos, id, o.entity, FALSE, TRUE)
          /\ objects' = [objects EXCEPT ![id].static = o.pos]

(* Mutant: only new data makes the blocks modified, not a new place.       *)
ChangedData(o, changed) == changed

(* Whether the blocks become modified: the object has moved to another     *)
(* block, or its data has changed.                                         *)
ShallBeWritten(o, changed) == o.static # o.pos \/ changed

(* The rest of deactivateFarObjects(): delete the old static data, save it *)
(* in the block the object stands in, under its id as long as a client     *)
(* knows it; without room the object is deleted nevertheless.  Only at     *)
(* Stop can it be gone already.                                            *)
Deactivate(id, changed) ==
  LET o       == objects[id]
      mark    == ShallBeWritten(o, changed)
      deleted == DeleteStatic(content, o.static, id, mark)
      pending == o.known > 0 /\ envPc # "force"
      refused == ~ IsGone(o) /\ IsFull(deleted, o.pos)
      saved   == ~ IsGone(o) /\ ~ refused
  IN /\ content' = IF saved
                   THEN SaveStatic(deleted, o.pos, id, o.entity, ~ pending, mark)
                   ELSE deleted
     /\ objects' = [objects EXCEPT
          ![id].static = IF saved THEN o.pos ELSE Nowhere,
          ![id].deactivation = TRUE]
     /\ toRemove' = IF pending /\ ~ refused THEN toRemove ELSE toRemove \union {id}
     /\ fate' = IF refused THEN [fate EXCEPT ![o.entity] = "refused"] ELSE fate

(* deactivateFarObjects() on one object.  One that another thread holds    *)
(* the lock of is left for the next pass; at Stop those threads have ended. *)
DeactivateFar(id) ==
  /\ envPc \in {"deactivate", "force"} /\ CalledBack(id)
  /\ LET o     == objects[id]
         stays == Skips(o) \/ (envPc = "deactivate" /\ o.pos \in activeBlocks)
     IN \/ /\ stays /\ (Skips(o) \/ ~ MustResave(o))
           /\ UNCHANGED <<content, objects, toRemove, fate>>
        \/ /\ envPc = "deactivate"
           /\ UNCHANGED <<content, objects, toRemove, fate>>
        \/ /\ ~ Skips(o) /\ MustResave(o)
           /\ Resave(id) /\ UNCHANGED <<toRemove, fate>>
        \/ /\ ~ stays
           /\ \E changed \in BOOLEAN : Deactivate(id, changed)

(* removeRemovedObjects() on one object: what was removed loses its static *)
(* data at once and itself when no client knows it; what was deactivated   *)
(* then leaves its static data stored.                                     *)
Clear(id) ==
  /\ envPc = "clear" /\ CalledBack(id)
  /\ LET o == objects[id]
         b == o.static
     IN CASE ~ IsGone(o) -> UNCHANGED <<content, objects, toRemove>>
        [] o.removal ->
             /\ content' = DeleteStatic(content, b, id, TRUE)
             /\ objects' = [objects EXCEPT ![id].static = Nowhere]
             /\ toRemove' = IF o.known > 0 THEN toRemove ELSE toRemove \union {id}
        [] OTHER ->
             IF o.known > 0 THEN UNCHANGED <<content, objects, toRemove>>
             ELSE /\ content' =
                       IF b = Nowhere THEN content
                       ELSE LET block == Emerged(content, b)
                                e     == block.active[id]
                            IN [content EXCEPT ![b] =
                                  IF e = Nobody THEN block
                                  ELSE [block EXCEPT !.stored = Append(@, e),
                                                     !.active[id] = Nobody,
                                                     !.modified = TRUE]]
                  /\ toRemove' = toRemove \union {id}
                  /\ UNCHANGED objects
  /\ UNCHANGED fate

(* The end of clearIf(): the objects go, unless somebody else holds the    *)
(* lock of m_active_objects; then they go with the next call.              *)
EndPass ==
  /\ envPc \in {"deactivate", "clear"} /\ toVisit = {}
  /\ envPc' = IF envPc = "deactivate" /\ blocksAdded # {} THEN "activate" ELSE "idle"
  /\ \/ /\ objects' = [id \in Ids |-> IF id \in toRemove THEN Nobody ELSE objects[id]]
        /\ toRemove' = {}
     \/ /\ toRemove # {} /\ UNCHANGED <<objects, toRemove>>
  /\ UNCHANGED <<content, disk, activeBlocks, blocksAdded, toVisit, fate>>

(* At the end of Stop the lock is free, and the map is saved.              *)
Stopped ==
  /\ envPc = "force" /\ toVisit = {}
  /\ envPc' = "stopped"
  /\ objects' = [id \in Ids |-> IF id \in toRemove THEN Nobody ELSE objects[id]]
  /\ toRemove' = {}
  /\ disk' = [b \in MapBlocks |->
       IF content[b] # Nobody /\ content[b].modified
       THEN Serialized(content[b]) ELSE disk[b]]
  /\ content' = [b \in MapBlocks |-> Nobody]
  /\ UNCHANGED <<activeBlocks, blocksAdded, toVisit, fate>>

StoredAfterActivation(block) == <<>>

(* activateObjects(), with a free id for each; a block that stores too     *)
(* many only loses the last ones.                                          *)
ActivateObjects(b) ==
  LET block == content[b]
      n     == Len(block.stored)
      ids   == Ordered(FreeIds)
      Index(id) == CHOOSE i \in DOMAIN ids : ids[i] = id
      new   == {ids[i] : i \in 1..n}
  IN IF n > MaxPerBlock
     THEN /\ content' = [content EXCEPT
               ![b].stored = SubSeq(@, 1, MaxPerBlock), ![b].modified = TRUE]
          /\ fate' = [e \in Entities |->
               IF \E i \in MaxPerBlock + 1 .. n : block.stored[i] = e
               THEN "refused" ELSE fate[e]]
          /\ UNCHANGED objects
     ELSE /\ n <= Len(ids)
          /\ objects' = [id \in Ids |->
               IF id \in new THEN NewObject(block.stored[Index(id)], b, b)
               ELSE objects[id]]
          /\ content' = [content EXCEPT
               ![b].active = [id \in Ids |->
                 IF id \in new THEN block.stored[Index(id)] ELSE @[id]],
               ![b].stored = StoredAfterActivation(block)]
          /\ UNCHANGED fate

(* The loop over m_blocks_added: a block that is not loaded is emerged,    *)
(* and is not active until then.                                           *)
ActivateBlock(b) ==
  /\ envPc = "activate" /\ b \in blocksAdded
  /\ blocksAdded' = blocksAdded \ {b}
  /\ envPc' = IF blocksAdded' = {} THEN "idle" ELSE "activate"
  /\ IF content[b] = Nobody
     THEN activeBlocks' = activeBlocks \ {b} /\ UNCHANGED <<content, objects, fate>>
     ELSE ActivateObjects(b) /\ UNCHANGED activeBlocks
  /\ UNCHANGED <<disk, toVisit, toRemove>>

(***************************************************************************)
(* The map.                                                                *)
(***************************************************************************)

LoadStatic(b) ==
  /\ Running /\ content[b] = Nobody
  /\ content' = [content EXCEPT ![b] = Emerged(content, b)]
  /\ UNCHANGED <<disk, objects, envVars, fate>>

(* timerUpdate(): blocks go when they were not used for unload_timeout,    *)
(* longer than it takes to deactivate, resave or clear an object that has  *)
(* static data in an inactive one.                                         *)
UnloadStatic(b) ==
  /\ Running /\ content[b] # Nobody /\ b \notin activeBlocks
  /\ \A id \in Present : objects[id].static = b =>
       objects[id].deactivation /\ ~ objects[id].removal
  /\ disk' = [disk EXCEPT ![b] =
       IF content[b].modified THEN Serialized(content[b]) ELSE @]
  /\ content' = [content EXCEPT ![b] = Nobody]
  /\ UNCHANGED <<objects, envVars, fate>>

ObjectsNext ==
  \/ \E id \in Ids :
       \/ MarkForRemoval(id) \/ AddKnown(id) \/ RemoveKnown(id)
       \/ DeactivateFar(id) \/ Clear(id) \/ \E b \in MapBlocks : MoveEntity(id, b)
  \/ \E b \in MapBlocks :
       \/ \E e \in Entities : Spawn(e, b)
       \/ ActivateBlock(b) \/ LoadStatic(b) \/ UnloadStatic(b)
  \/ \E S \in SUBSET MapBlocks : UpdateActiveBlocks(S)
  \/ RemoveRemovedObjects \/ EndPass \/ Stop \/ Stopped

ObjectsSpec == ObjectsInit /\ [][ObjectsNext]_objectVars

(***************************************************************************)
(* Properties.                                                             *)
(***************************************************************************)

StoredIn(b) == IF content[b] = Nobody THEN disk[b] ELSE content[b].stored

(* Static data a live object stands for.                                   *)
Owned(b, id) == Live(id) /\ objects[id].static = b

(* Where an entity is: an active object, static data that no live object   *)
(* stands for, or a block that is not loaded.                              *)
Whereabouts(e) ==
  {<<"live", Nowhere, id>> : id \in {i \in Ids : Live(i) /\ objects[i].entity = e}}
    \union {<<"active", x[1], x[2]>> : x \in
              {y \in MapBlocks \X Ids : /\ content[y[1]] # Nobody /\ ~ Owned(y[1], y[2])
                                       /\ content[y[1]].active[y[2]] = e}}
    \union UNION {{<<"stored", b, i>> : i \in {k \in DOMAIN StoredIn(b) : StoredIn(b)[k] = e}}
                  : b \in MapBlocks}

(* However objects move, blocks are activated, unloaded and loaded, and    *)
(* clients look on, an entity is nowhere twice: nothing of it is left      *)
(* behind when its object is resaved, activated or cleared, in memory or   *)
(* in the database.  While the server runs, one that was not removed and   *)
(* met no full block (deactivateFarObjects, activateObjects) is somewhere. *)
EntityOnce == \A e \in Entities :
  /\ \A p, q \in Whereabouts(e) : p = q
  /\ Running /\ fate[e] = "alive" => Whereabouts(e) # {}

(* The warning of deactivateFarObjects and removeRemovedObjects,           *)
(* "m_static_exists=true but static data doesn't actually exist", is never *)
(* about an object that is not gone.                                       *)
StaticBacked == \A id \in Ids :
  Live(id) /\ objects[id].static # Nowhere =>
    /\ content[objects[id].static] # Nobody
    /\ content[objects[id].static].active[id] = objects[id].entity

(* "deactvation = save static data in block, remove active object"         *)
(* (m_pending_deactivation): when the server has stopped, the database has *)
(* every entity that was not removed and met no full block.                *)
EntitiesSaved == \A e \in Entities :
  envPc = "stopped" /\ fate[e] = "alive" =>
    \E b \in MapBlocks : e \in ToSet(disk[b])
=============================================================================
