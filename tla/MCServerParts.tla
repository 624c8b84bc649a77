--------------------------- MODULE MCServerParts ---------------------------
(***************************************************************************)
(* Parts of the server, side by side: the map under emerge threads, client *)
(* sessions, Lua async jobs, the entities of map blocks, and the sending   *)
(* of a block to clients.  They share no state here: one of them, the      *)
(* mover, takes the steps of a behaviour, and the others stay where they   *)
(* begin.                                                                  *)
(***************************************************************************)
EXTENDS MCEmergeMap, ClientSessions, AsyncJobs, ActiveObjects, BlockSending

CONSTANT x    \* a block

VARIABLES
  mover,
  ground      \* where entities may be: one at a time in any block, or in x

serverVars == <<mover, ground, vars, scene, sessionVars, asyncVars, objectVars, sendingVars>>

FirstScene == [agents |-> {t1, t2}, blocks |-> {left}]

OnGround ==
  IF ground = Nowhere THEN Cardinality(Present') <= 1
  ELSE \A b \in MapBlocks \ {ground} :
         /\ content'[b] = Nobody /\ b \notin activeBlocks'
         /\ \A id \in Present' : objects'[id].pos # b

ServerInit ==
  /\ mover \in {"map", "sessions", "async", "objects", "sending"}
  /\ MCInit
  /\ mover # "map" => scene = FirstScene /\ database = [p \in Blocks |-> None]
  /\ SessionsInit /\ (mover # "sessions" => accounts = [n \in Names |-> 0])
  /\ AsyncInit /\ (mover # "async" => workerPc[1] = "loop")
  /\ ObjectsInit /\ ground \in {x, Nowhere} /\ (mover # "objects" => ground = x)
  /\ SendingInit

ServerNext ==
  /\ UNCHANGED <<mover, ground>>
  /\ \/ /\ mover = "map" /\ MCNext
        /\ UNCHANGED <<sessionVars, asyncVars, objectVars, sendingVars>>
     \/ /\ mover = "sessions" /\ SessionsNext
        /\ UNCHANGED <<vars, scene, asyncVars, objectVars, sendingVars>>
     \/ /\ mover = "async" /\ AsyncNext
        /\ UNCHANGED <<vars, scene, sessionVars, objectVars, sendingVars>>
     \/ /\ mover = "objects" /\ ObjectsNext /\ OnGround
        /\ UNCHANGED <<vars, scene, sessionVars, asyncVars, sendingVars>>
     \/ /\ mover = "sending" /\ SendingNext
        /\ UNCHANGED <<vars, scene, sessionVars, asyncVars, objectVars>>

ServerSpec == ServerInit /\ [][ServerNext]_serverVars
=============================================================================
