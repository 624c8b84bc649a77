---------------------------- MODULE MCEmergeMap ----------------------------
(* A world for EmergeMap of a few blocks in a row: outer is a chunk of its
   own, the others are one, and the area of either has a border of one block.
   Who runs, and on what, is chosen at the start.                           *)
EXTENDS EmergeMap, TLC

CONSTANTS left, right, outer, chunk, far, t1, t2, user

MCChunkOf == [p \in Blocks |-> IF p = outer THEN far ELSE chunk]
MCArea == [c \in Chunks |-> IF c = chunk THEN Blocks
                            ELSE {IF right \in Blocks THEN right ELSE left, outer}]

(* Two emerge threads on a block; one and a user; or one on a block out of
   the limits.                                                              *)
PairScenes ==
  {[agents |-> {t1, t2}, blocks |-> {left}],
   [agents |-> {t1, user}, blocks |-> {left}],
   [agents |-> {t1}, blocks |-> {outer}]}

(* Two emerge threads on blocks of two chunks, side by side.                *)
BorderScenes == {[agents |-> {t1, t2}, blocks |-> {right, outer}]}

CONSTANT Scenes    \* PairScenes or BorderScenes

VARIABLE scene

MCInit == Init /\ scene \in Scenes
          /\ \A p \in Blocks : database[p] # None => p \in scene.blocks
MCNext == NextOf(scene.agents, scene.blocks) /\ UNCHANGED scene
MCSpec == MCInit /\ [][MCNext]_<<vars, scene>>
=============================================================================
