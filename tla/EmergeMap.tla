----------------------------- MODULE EmergeMap -----------------------------
(***************************************************************************)
(* The blocks of the map in memory (src/fm_map.cpp, src/servermap.cpp) and *)
(* the threads that load, generate, use, unload, save and delete them.     *)
(* Server::EnvAutoLock, which emerge.cpp takes around its steps, is an     *)
(* empty class (server.h): between two steps any other thread may run.     *)
(*                                                                         *)
(* A block is a shared_ptr.  Once erased from m_blocks an object never     *)
(* comes back: a thread that still points to it holds a "stale" block,     *)
(* otherwise it holds the "live" one.                                      *)
(***************************************************************************)
EXTENDS Naturals, FiniteSets

CONSTANTS
  Blocks,       \* block positions
  Chunks,       \* the chunks they form, named by bpmin in the code
  ChunkOf,      \* EmergeManager::getContainingChunk
  Area,         \* the blocks of a chunk and its border (EMERGE_EXTRA_BORDER)
  OverLimit,    \* chunks not fully inside the mapgen limits
  Threads,      \* emerge threads
  Users,        \* other threads that load and change blocks
  MayFail,      \* TRUE: makeChunk() or on_generated() may fail
  MayUnload,    \* TRUE: a block may reach its unload timeout
  None          \* no block, no data

ASSUME MapAssumption ==
  /\ ChunkOf \in [Blocks -> Chunks] /\ Area \in [Chunks -> SUBSET Blocks]
  /\ \A p \in Blocks : p \in Area[ChunkOf[p]]
  /\ OverLimit \subseteq Chunks /\ Threads \intersect Users = {}
  /\ MayFail \in BOOLEAN /\ MayUnload \in BOOLEAN

Agents == Threads \union Users

VARIABLES
  m_blocks,              \* the blocks in memory
  database,              \* what is saved of each block (generated ones only)
  m_chunks_in_progress,  \* two sets that are meant to say the same
  m_mapgen_process,
  at, frame,             \* where each agent is, and its local variables
  erased,                \* where a thread's block_cache may hold a stale block
  todo, vmanip,          \* an emerge thread's loop over the area, and its data
  blocks_delete,         \* timerUpdate()'s local
  edited                 \* ghost: blocks a user has changed

mapVars    == <<m_blocks, database>>
chunkVars  == <<m_chunks_in_progress, m_mapgen_process>>
agentVars  == <<at, frame, todo, vmanip>>
unloadVars == <<blocks_delete, erased>>
vars == <<mapVars, chunkVars, agentVars, unloadVars, edited>>

(* A block as mapgen leaves it, as a user has changed it, or without nodes. *)
Data    == {"blank", "gen", "edit"}
Handles == {"none", "live", "stale"}
Block   == [data : Data, generated : BOOLEAN, modified : BOOLEAN]
Places  == {"idle", "first", "read", "second", "start", "process", "create",
            "load", "insert", "reset", "blank", "blit", "copy", "unlist",
            "unprocess", "holding"}
Frame   == [pos : Blocks \union {None}, block : Blocks \union {None},
            caller : {"none", "load", "init", "blit", "user"},
            held : Handles, data : Data \union {None}]

ASSUME NoneAssumption == None \notin Data \union Block

NoFrame == [pos |-> None, block |-> None, caller |-> "none",
            held |-> "none", data |-> None]
NoManip == [p \in Blocks |-> None]
Blank   == [data |-> "blank", generated |-> FALSE, modified |-> FALSE]

IsLoaded(p) == m_blocks[p] # None
Generated(p) == IsLoaded(p) /\ m_blocks[p].generated
Handle(p) == IF IsLoaded(p) THEN "live" ELSE "none"

Init ==
  /\ m_blocks = [p \in Blocks |-> None]
  /\ database \in [Blocks -> {None, "gen"}]
  /\ \A p \in Blocks : ChunkOf[p] \in OverLimit => database[p] = None
  /\ m_chunks_in_progress = {} /\ m_mapgen_process = {}
  /\ at = [a \in Agents |-> "idle"] /\ frame = [a \in Agents |-> NoFrame]
  /\ todo = [t \in Threads |-> {}]
  /\ vmanip = [t \in Threads |-> NoManip]
  /\ blocks_delete = {} /\ erased = {}
  /\ edited = {}

Goto(a, place) == at' = [at EXCEPT ![a] = place]

(* The request or the use is over. *)
Leave(a) ==
  /\ at' = [at EXCEPT ![a] = "idle"]
  /\ frame' = [frame EXCEPT ![a] = NoFrame]

-----------------------------------------------------------------------------
(* Loading: emergeBlockPtr(), loadBlock(), for whoever calls them.          *)

(* getBlock() through the thread's cache, which nobody else can flush. *)
Cached(p) == {Handle(p)} \union {h \in {"stale"} : p \in erased}

(* A user goes on with the block if it is generated. *)
Hold(u, p, held) ==
  IF held = "live" /\ ~Generated(p) THEN Leave(u)
  ELSE /\ Goto(u, "holding")
       /\ frame' = [frame EXCEPT ![u] = [NoFrame EXCEPT
            !.block = p, !.caller = "user", !.held = held]]

(* The caller goes on with the block p it asked for. *)
Got(a, caller, p, held) ==
  \/ caller = "load" /\ Leave(a) /\ UNCHANGED todo
  \/ /\ caller = "init" /\ Goto(a, "create")
     /\ todo' = [todo EXCEPT ![a] = @ \ {p}]
     /\ frame' = [frame EXCEPT ![a] = [NoFrame EXCEPT !.pos = frame[a].pos]]
  \/ /\ caller = "blit" /\ Goto(a, "copy") /\ UNCHANGED todo
     /\ frame' = [frame EXCEPT ![a] = [NoFrame EXCEPT
          !.pos = frame[a].pos, !.block = p, !.caller = caller, !.held = held]]
  \/ caller = "user" /\ Hold(a, p, held) /\ UNCHANGED todo

GotBlock(a, held) == Got(a, frame[a].caller, frame[a].block, held)

(* There is none: initBlockMake() and blitBackAll() create one. *)
Missed(a) ==
  \/ /\ frame[a].caller = "user" /\ Leave(a)
  \/ /\ frame[a].caller \in {"init", "blit"} /\ Goto(a, "blank")
     /\ UNCHANGED frame

(* emergeBlockPtr(): from memory, or else from the database. *)
EmergeBlock(a, p, caller) ==
  IF IsLoaded(p) THEN Got(a, caller, p, "live")
  ELSE /\ Goto(a, "read") /\ UNCHANGED todo
       /\ frame' = [frame EXCEPT ![a].block = p, ![a].caller = caller]

(* Under the database's mutex. *)
ReadDatabase(a) ==
  /\ at[a] = "read"
  /\ frame' = [frame EXCEPT ![a].data = database[frame[a].block]]
  /\ Goto(a, IF frame[a].caller = "load" THEN "second" ELSE "load")
  /\ UNCHANGED <<mapVars, chunkVars, todo, vmanip, unloadVars,
                 edited>>

(* loadBlock(): the data goes into the block that is there already. *)
Deserialize(a, held) ==
  /\ m_blocks' = IF held # "live" THEN m_blocks
                 ELSE [m_blocks EXCEPT ![frame[a].block] =
                         [@ EXCEPT !.data = frame[a].data, !.generated = TRUE]]
  /\ frame' = [frame EXCEPT ![a].held = held]
  /\ Goto(a, "reset")

(* The database had something. *)
HasData(a) == at[a] = "load" /\ frame[a].data # None

LoadBlock(a) ==
  /\ at[a] = "load"
  /\ \E held \in Cached(frame[a].block) :
       \/ /\ ~HasData(a) /\ held = "none" /\ Missed(a)
          /\ UNCHANGED <<m_blocks, todo>>
       \/ /\ ~HasData(a) /\ held # "none" /\ GotBlock(a, held)
          /\ UNCHANGED m_blocks
       \/ /\ HasData(a) /\ held # "none" /\ Deserialize(a, held)
          /\ UNCHANGED todo
       \/ /\ HasData(a) /\ held = "none" /\ Goto(a, "insert")
          /\ UNCHANGED <<m_blocks, frame, todo>>
  /\ UNCHANGED <<database, chunkVars, vmanip, unloadVars, edited>>

(* insertBlock() refuses a second block: the new one stays outside. *)
InsertBlock(a) ==
  LET p == frame[a].block IN
  /\ at[a] = "insert"
  /\ IF IsLoaded(p)
     THEN /\ frame' = [frame EXCEPT ![a].held = "stale"]
          /\ UNCHANGED m_blocks
     ELSE /\ m_blocks' = [m_blocks EXCEPT ![p] =
               [data |-> frame[a].data, generated |-> TRUE, modified |-> FALSE]]
          /\ frame' = [frame EXCEPT ![a].held = "live"]
  /\ Goto(a, "reset")
  /\ UNCHANGED <<database, chunkVars, todo, vmanip, unloadVars,
                 edited>>

(* "We just loaded it, so it's up-to-date." *)
ResetModified(a) ==
  /\ at[a] = "reset"
  /\ m_blocks' = IF frame[a].held # "live" THEN m_blocks
                 ELSE [m_blocks EXCEPT ![frame[a].block] =
                         [@ EXCEPT !.modified = FALSE]]
  /\ GotBlock(a, frame[a].held)
  /\ UNCHANGED <<database, chunkVars, vmanip, unloadVars, edited>>

(* createBlankBlock(): looks again, under the lock of m_blocks. *)
CreateBlankBlock(a) ==
  LET p == frame[a].block IN
  /\ at[a] = "blank"
  /\ m_blocks' = IF IsLoaded(p) THEN m_blocks
                 ELSE [m_blocks EXCEPT ![p] = Blank]
  /\ GotBlock(a, "live")
  /\ UNCHANGED <<database, chunkVars, vmanip, unloadVars, edited>>

-----------------------------------------------------------------------------
(* An emerge thread: EmergeThread::run() from a request to its answer.      *)

Request(t, p) ==
  /\ at[t] = "idle" /\ Goto(t, "first")
  /\ frame' = [frame EXCEPT ![t] =
                 [NoFrame EXCEPT !.pos = p, !.block = p, !.caller = "load"]]
  /\ UNCHANGED <<mapVars, chunkVars, todo, vmanip, unloadVars,
                 edited>>

(* getBlock(), which waits for its lock here, then the database.            *)
getBlockOrStartGen(t) ==
  LET p == frame[t].pos IN
  /\ at[t] \in {"first", "second"}
  /\ \/ /\ Generated(p) /\ Leave(t)
     \/ /\ IsLoaded(p) /\ ~Generated(p) /\ Goto(t, "start")
        /\ UNCHANGED frame
     \/ /\ ~IsLoaded(p) /\ at[t] = "first" /\ Goto(t, "read") /\ UNCHANGED frame
     \/ /\ ~IsLoaded(p) /\ at[t] = "second" /\ UNCHANGED frame
        /\ Goto(t, IF frame[t].data = None THEN "start" ELSE "load")
  /\ UNCHANGED <<mapVars, chunkVars, todo, vmanip, unloadVars,
                 edited>>

ChunkOfRequest(t) == ChunkOf[frame[t].pos]

(* Mutant: the result of the insertion into m_chunks_in_progress is not
   looked at.                                                              *)
EnterAnyway(t) ==
  /\ m_chunks_in_progress' = m_chunks_in_progress \union {ChunkOfRequest(t)}
  /\ Goto(t, "process") /\ UNCHANGED frame

(* initBlockMake(), its first test. *)
EnterProgress(t) ==
  \/ /\ ChunkOfRequest(t) \in m_chunks_in_progress
     /\ Leave(t) /\ UNCHANGED m_chunks_in_progress
  \/ /\ ChunkOfRequest(t) \notin m_chunks_in_progress
     /\ m_chunks_in_progress' = m_chunks_in_progress \union {ChunkOfRequest(t)}
     /\ Goto(t, "process") /\ UNCHANGED frame

StartGen(t) ==
  /\ at[t] = "start"
  /\ \/ Leave(t) /\ UNCHANGED m_chunks_in_progress   \* not allow_gen
     \/ EnterProgress(t)
  /\ UNCHANGED <<mapVars, m_mapgen_process, todo, vmanip,
                 unloadVars, edited>>

(* The second test, which an entry older than a minute passes, and the
   limits; both leave the chunk in m_chunks_in_progress.                    *)
EnterProcess(t) ==
  LET c == ChunkOfRequest(t) IN
  /\ at[t] = "process"
  /\ \/ /\ c \in m_mapgen_process /\ Leave(t)
        /\ UNCHANGED <<m_mapgen_process, todo>>
     \/ /\ m_mapgen_process' = m_mapgen_process \union {c}
        /\ \/ c \in OverLimit /\ Leave(t) /\ UNCHANGED todo
           \/ /\ c \notin OverLimit /\ Goto(t, "create") /\ UNCHANGED frame
              /\ todo' = [todo EXCEPT ![t] = Area[c]]
  /\ UNCHANGED <<mapVars, m_chunks_in_progress, vmanip,
                 unloadVars, edited>>

(* initialEmerge() copies the area, makeChunk() fills what is empty in the
   chunk.  A Lua error cancels, an exception just ends the request; neither
   takes the chunk out of m_chunks_in_progress.                            *)
MakeChunk(t) ==
  LET copied(p) == p \in Area[ChunkOfRequest(t)] /\ IsLoaded(p)
      made == [p \in Blocks |->
        IF ~copied(p) THEN None
        ELSE IF m_blocks[p].data = "blank" /\ ChunkOf[p] = ChunkOfRequest(t)
        THEN "gen" ELSE m_blocks[p].data]
  IN
  \/ /\ vmanip' = [vmanip EXCEPT ![t] = made]
     /\ todo' = [todo EXCEPT ![t] = {p \in Blocks : copied(p)}]
     /\ Goto(t, "blit") /\ UNCHANGED frame
  \/ MayFail /\ Leave(t) /\ UNCHANGED <<todo, vmanip>>

(* initBlockMake() makes the blocks of the area exist, one after another. *)
CreateArea(t) ==
  /\ at[t] = "create"
  /\ \/ \E p \in todo[t] : EmergeBlock(t, p, "init") /\ UNCHANGED vmanip
     \/ todo[t] = {} /\ MakeChunk(t)
  /\ UNCHANGED <<mapVars, chunkVars, unloadVars, edited>>

(* finishBlockMake(): blitBackAll(), block after block. *)
BlitBack(t) ==
  /\ at[t] = "blit"
  /\ \E p \in todo[t] : EmergeBlock(t, p, "blit")
  /\ UNCHANGED <<mapVars, chunkVars, vmanip, unloadVars, edited>>

(* copyFrom(), unless another has generated it (overwrite_generated). *)
CopyFrom(t) ==
  LET p == frame[t].block IN
  m_blocks' = IF frame[t].held # "live" \/ Generated(p) THEN m_blocks
              ELSE [m_blocks EXCEPT ![p] =
                      [@ EXCEPT !.data = vmanip[t][p], !.modified = TRUE]]

CopyBlock(t) ==
  /\ at[t] = "copy"
  /\ CopyFrom(t)
  /\ todo' = [todo EXCEPT ![t] = @ \ {frame[t].block}]
  /\ frame' = [frame EXCEPT ![t] = [NoFrame EXCEPT !.pos = frame[t].pos]]
  /\ Goto(t, "blit")
  /\ UNCHANGED <<database, chunkVars, vmanip, unloadVars, edited>>

(* raiseModified() of the blocks written, setGenerated() of the chunk's, as
   the map has them now.                                                    *)
FlagGenerated(t) ==
  m_blocks' = [p \in Blocks |->
    IF ~IsLoaded(p) \/ Generated(p) \/ ChunkOf[p] # ChunkOfRequest(t)
    THEN m_blocks[p]
    ELSE [m_blocks[p] EXCEPT !.generated = TRUE,
                             !.modified = @ \/ vmanip[t][p] # None]]

FinishBlockMake(t) ==
  /\ at[t] = "blit" /\ todo[t] = {}
  /\ FlagGenerated(t)
  /\ vmanip' = [vmanip EXCEPT ![t] = NoManip]
  /\ Goto(t, "unlist")
  /\ UNCHANGED <<database, chunkVars, frame, todo, unloadVars, edited>>

EraseInProgress(t) ==
  /\ at[t] = "unlist"
  /\ m_chunks_in_progress' = m_chunks_in_progress \ {ChunkOfRequest(t)}
  /\ Goto(t, "unprocess")
  /\ UNCHANGED <<mapVars, m_mapgen_process, frame, todo, vmanip,
                 unloadVars, edited>>

EraseProcess(t) ==
  /\ at[t] = "unprocess"
  /\ m_mapgen_process' = m_mapgen_process \ {ChunkOfRequest(t)}
  /\ Leave(t)
  /\ UNCHANGED <<mapVars, m_chunks_in_progress, todo, vmanip,
                 unloadVars, edited>>

-----------------------------------------------------------------------------
(* Other threads.                                                          *)

(* A block from memory, through the cache, or else loaded. *)
UseBlock(u, p) ==
  /\ at[u] = "idle"
  /\ \/ /\ \E held \in Cached(p) \ {"none"} : Hold(u, p, held)
        /\ UNCHANGED todo
     \/ EmergeBlock(u, p, "user")
  /\ UNCHANGED <<mapVars, chunkVars, vmanip, unloadVars, edited>>

(* The block it holds is changed, or only read. *)
EditBlock(u) ==
  LET p == frame[u].block IN
  /\ at[u] = "holding"
  /\ \/ /\ frame[u].held = "live" /\ edited' = edited \union {p}
        /\ m_blocks' = [m_blocks EXCEPT ![p] =
             [data |-> "edit", generated |-> TRUE, modified |-> TRUE]]
     \/ /\ frame[u].held = "stale" /\ edited' = edited \union {p}
        /\ UNCHANGED m_blocks
     \/ UNCHANGED <<m_blocks, edited>>
  /\ Leave(u)
  /\ UNCHANGED <<database, chunkVars, todo, vmanip, unloadVars>>

-----------------------------------------------------------------------------
(* The map thread.                                                         *)

SavedFrom(saving) == database' = [p \in Blocks |->
  IF p \in saving THEN m_blocks[p].data ELSE database[p]]
Clean(saving) == m_blocks' = [p \in Blocks |->
  IF p \in saving THEN [m_blocks[p] EXCEPT !.modified = FALSE]
  ELSE m_blocks[p]]
Modified(p) == Generated(p) /\ m_blocks[p].modified

(* timerUpdate() collects blocks that are not generated and blocks that were
   not used for a while, which it saves.                                    *)
TimerUpdate ==
  /\ blocks_delete = {}
  /\ \E S \in SUBSET {p \in Blocks : IsLoaded(p) /\ (Generated(p) => MayUnload)} \ {{}} :
       LET saving == {p \in S : Modified(p)} IN
       /\ blocks_delete' = S
       /\ SavedFrom(saving) /\ Clean(saving)
  /\ UNCHANGED <<chunkVars, agentVars, erased, edited>>

EraseBlock(p) ==
  /\ p \in blocks_delete
  /\ blocks_delete' = blocks_delete \ {p}
  /\ erased' = erased \union {p}
  /\ m_blocks' = [m_blocks EXCEPT ![p] = None]
  /\ frame' = [a \in Agents |->
       IF frame[a].block = p /\ frame[a].held = "live"
       THEN [frame[a] EXCEPT !.held = "stale"] ELSE frame[a]]
  /\ UNCHANGED <<database, chunkVars, at, todo, vmanip, edited>>

(* ServerMap::save. *)
Save(p) ==
  /\ blocks_delete = {} /\ Modified(p)
  /\ SavedFrom({p}) /\ Clean({p})
  /\ UNCHANGED <<chunkVars, agentVars, unloadVars, edited>>

-----------------------------------------------------------------------------
Load(a) == \/ ReadDatabase(a) \/ LoadBlock(a) \/ InsertBlock(a)
           \/ ResetModified(a) \/ CreateBlankBlock(a)

EmergeThread(t, blocks) ==
  \/ \E p \in blocks : Request(t, p)
  \/ getBlockOrStartGen(t) \/ StartGen(t) \/ EnterProcess(t) \/ CreateArea(t)
  \/ BlitBack(t) \/ CopyBlock(t) \/ FinishBlockMake(t)
  \/ EraseInProgress(t) \/ EraseProcess(t)

MapThread == \/ TimerUpdate
             \/ \E p \in Blocks : EraseBlock(p) \/ Save(p)

(* What the agents do on some of the blocks, and the map thread on all.     *)
NextOf(agents, blocks) ==
  \/ \E a \in agents : Load(a)
  \/ \E t \in agents \intersect Threads : EmergeThread(t, blocks)
  \/ \E u \in agents \intersect Users : EditBlock(u)
       \/ \E p \in blocks : UseBlock(u, p)
  \/ MapThread

Next == NextOf(Agents, Blocks)

Spec == Init /\ [][Next]_vars

-----------------------------------------------------------------------------
(* Properties.                                                             *)

TypeOK ==
  /\ m_blocks \in [Blocks -> Block \union {None}]
  /\ database \in [Blocks -> Data \union {None}]
  /\ m_chunks_in_progress \subseteq Chunks /\ m_mapgen_process \subseteq Chunks
  /\ at \in [Agents -> Places] /\ frame \in [Agents -> Frame]
  /\ todo \in [Threads -> SUBSET Blocks]
  /\ vmanip \in [Threads -> [Blocks -> Data \union {None}]]
  /\ blocks_delete \subseteq Blocks /\ erased \subseteq Blocks
  /\ edited \subseteq Blocks

(* The thread is between initBlockMake()'s first test and the end of
   finishBlockMake().                                                      *)
Generating(t) ==
  \/ at[t] \in {"process", "create", "blank", "blit", "copy", "unlist"}
  \/ at[t] \in {"read", "load", "insert", "reset"}
     /\ frame[t].caller \in {"init", "blit"}

(* No chunk is generated by two threads at a time, whatever is requested,
   unloaded or fails meanwhile: two generations of one chunk would each
   write half of what the other has made.                                   *)
OneGenerator == \A t, u \in Threads :
  Generating(t) /\ Generating(u) /\ t # u
    => ChunkOfRequest(t) # ChunkOfRequest(u)

(* What m_generated says in mapblock.h, "Whether mapgen has generated the
   content of this block (persisted)": no block without content is marked
   generated, nor saved.  The areas of neighbouring chunks share blocks.    *)
GeneratedHasData == \A p \in Blocks :
  /\ Generated(p) => m_blocks[p].data # "blank"
  /\ database[p] # "blank"

(* What getBlockOrStartGen() says when a block it has read is in memory by
   now, "someone else was faster. don't touch it to prevent data loss": the
   changes of a user stay in memory or in the database.                     *)
EditKept == \A p \in edited :
  IF IsLoaded(p) THEN m_blocks[p].data = "edit" ELSE database[p] = "edit"
=============================================================================
