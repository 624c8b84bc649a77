-------------------------- MODULE EmergeMapProofs --------------------------
(***************************************************************************)
(* Proofs about EmergeMap, for any blocks and chunks, any number of emerge *)
(* threads and users, with failing generations and unloading; and, at the  *)
(* end, what holds with one emerge thread only.                            *)
(***************************************************************************)
EXTENDS EmergeMap, TLAPS

-----------------------------------------------------------------------------
(* The inductive invariant.  Where an agent is says what its frame holds;  *)
(* in particular a live handle points to a block that is in the map.       *)
FrameOK(a) ==
  /\ at[a] \in {"first", "second", "read", "load", "insert", "reset", "blank",
                "copy", "holding"} => frame[a].block \in Blocks
  /\ at[a] = "insert" => frame[a].data # None
  /\ frame[a].held = "live" =>
       at[a] \in {"reset", "copy", "holding"} /\ IsLoaded(frame[a].block)

Frames == \A a \in Agents : FrameOK(a)

(* Outside of emergeBlockPtr(), a thread works on its request.             *)
OwnPlaces == {"first", "second", "start", "process", "create", "blit",
              "unlist", "unprocess"}

(* While it copies back, what is left to copy is in its vmanip.            *)
ThreadOK(t) ==
  /\ at[t] \notin {"idle", "holding"} => frame[t].pos \in Blocks
  /\ at[t] \in OwnPlaces => frame[t].caller \in {"none", "load"}
  /\ at[t] = "copy" => frame[t].caller = "blit"
  /\ at[t] = "blit" \/ frame[t].caller = "blit" =>
       \A p \in todo[t] : vmanip[t][p] # None
  /\ frame[t].caller = "blit" => vmanip[t][frame[t].block] # None

ThreadsOK == \A t \in Threads : ThreadOK(t)

(* Who generates a chunk has entered it into m_chunks_in_progress; the     *)
(* entry is what keeps the second generator out.                           *)
Claimed == \A t \in Threads :
  Generating(t) => ChunkOfRequest(t) \in m_chunks_in_progress

StateInv == TypeOK /\ Frames /\ ThreadsOK
MapInv   == StateInv /\ Claimed /\ OneGenerator

(* A step in which no thread begins to generate, or changes its request.   *)
NoNewGenerator ==
  /\ UNCHANGED m_chunks_in_progress
  /\ \A t \in Threads : Generating(t)' =>
       Generating(t) /\ frame'[t].pos = frame[t].pos

(* What the map never does outside of EraseBlock().                        *)
NothingErased == \A p \in Blocks : IsLoaded(p) => IsLoaded(p)'

-----------------------------------------------------------------------------
LEMMA LoadedIsBlock ==
  ASSUME TypeOK, NEW p \in Blocks, IsLoaded(p)
  PROVE  m_blocks[p] \in Block
BY DEF TypeOK, IsLoaded

LEMMA HandlesTyped ==
  ASSUME NEW p
  PROVE  Cached(p) \subseteq Handles /\ ("live" \in Cached(p) => IsLoaded(p))
BY DEF Cached, Handle, Handles

(* The claims survive every such step.                                     *)
LEMMA ClaimsKept ==
  ASSUME Claimed, OneGenerator, NoNewGenerator
  PROVE  Claimed' /\ OneGenerator'
BY DEF Claimed, OneGenerator, NoNewGenerator, ChunkOfRequest

(* What the frames and threads keep, in a step of one agent.               *)
AgentsKept ==
  /\ at' \in [Agents -> Places] /\ frame' \in [Agents -> Frame]
  /\ Frames' /\ ThreadsOK'
  /\ \A t \in Threads : Generating(t)' =>
       Generating(t) /\ frame'[t].pos = frame[t].pos

(* The end of a use or a request.                                          *)
LEMMA NoFrameTyped == NoFrame \in Frame
BY DEF NoFrame, Frame, Handles

LEMMA LeaveStep ==
  ASSUME StateInv, NEW a \in Agents, Leave(a), UNCHANGED <<todo, vmanip>>,
         NothingErased
  PROVE  AgentsKept
<1> USE DEF StateInv, TypeOK, Leave
<1>1. at' \in [Agents -> Places] /\ frame' \in [Agents -> Frame]
  BY NoFrameTyped DEF Places
<1>2. Frames'
  BY DEF Frames, FrameOK, NothingErased, NoFrame
<1>3. ThreadsOK'
  BY DEF ThreadsOK, ThreadOK, NoFrame, OwnPlaces, Agents
<1>4. ASSUME NEW t \in Threads, Generating(t)'
      PROVE  Generating(t) /\ frame'[t].pos = frame[t].pos
  BY <1>4 DEF Generating, NoFrame, Agents
<1> QED BY <1>1, <1>2, <1>3, <1>4 DEF AgentsKept

LEMMA HoldStep ==
  ASSUME StateInv, NEW a \in Agents, NEW p \in Blocks, NEW held \in Handles,
         Hold(a, p, held), UNCHANGED <<todo, vmanip>>, NothingErased,
         held = "live" => IsLoaded(p)'
  PROVE  AgentsKept
<1> USE DEF StateInv, TypeOK
<1>1. CASE Leave(a)
  BY <1>1, LeaveStep
<1>2. CASE /\ Goto(a, "holding")
           /\ frame' = [frame EXCEPT ![a] = [NoFrame EXCEPT
                !.block = p, !.caller = "user", !.held = held]]
  <2> DEFINE f == [NoFrame EXCEPT !.block = p, !.caller = "user", !.held = held]
  <2>1. f \in Frame
    BY DEF NoFrame, Frame
  <2>2. at' \in [Agents -> Places] /\ frame' \in [Agents -> Frame]
    BY <1>2, <2>1 DEF Goto, Places
  <2>3. Frames'
    BY <1>2 DEF Frames, FrameOK, NothingErased, NoFrame, Goto
  <2>4. ThreadsOK'
    BY <1>2 DEF ThreadsOK, ThreadOK, NoFrame, OwnPlaces, Goto, Agents
  <2>5. ASSUME NEW t \in Threads, Generating(t)'
        PROVE  Generating(t) /\ frame'[t].pos = frame[t].pos
    BY <1>2, <2>5 DEF Generating, NoFrame, Goto, Agents
  <2> QED BY <2>2, <2>3, <2>4, <2>5 DEF AgentsKept
<1> QED BY <1>1, <1>2 DEF Hold

(* emergeBlockPtr() returns a block, to whoever called it.                 *)
LEMMA GotStep ==
  ASSUME StateInv, NEW a \in Agents, NEW caller, NEW p \in Blocks,
         NEW held \in Handles, Got(a, caller, p, held), UNCHANGED vmanip,
         NothingErased, held = "live" => IsLoaded(p)',
         a \in Threads /\ caller \in {"init", "blit"} =>
           Generating(a) /\ frame[a].pos \in Blocks,
         a \in Threads /\ caller = "blit" =>
           vmanip[a][p] # None /\ \A q \in todo[a] : vmanip[a][q] # None
  PROVE  AgentsKept /\ todo' \in [Threads -> SUBSET Blocks]
<1> USE DEF StateInv, TypeOK
<1>1. CASE caller = "load" /\ Leave(a) /\ UNCHANGED todo
  BY <1>1, LeaveStep
<1>2. CASE caller = "user" /\ Hold(a, p, held) /\ UNCHANGED todo
  BY <1>2, HoldStep
<1>3. CASE /\ caller = "init" /\ Goto(a, "create")
           /\ todo' = [todo EXCEPT ![a] = @ \ {p}]
           /\ frame' = [frame EXCEPT ![a] = [NoFrame EXCEPT !.pos = frame[a].pos]]
  <2> DEFINE f == [NoFrame EXCEPT !.pos = frame[a].pos]
  <2>1. f \in Frame
    BY DEF NoFrame, Frame, Handles
  <2>2. at' \in [Agents -> Places] /\ frame' \in [Agents -> Frame]
    BY <1>3, <2>1 DEF Goto, Places
  <2>3. Frames'
    BY <1>3 DEF Frames, FrameOK, NothingErased, NoFrame, Goto
  <2>4. ThreadsOK'
    BY <1>3 DEF ThreadsOK, ThreadOK, NoFrame, OwnPlaces, Goto, Agents
  <2>5. ASSUME NEW t \in Threads, Generating(t)'
        PROVE  Generating(t) /\ frame'[t].pos = frame[t].pos
    BY <1>3, <2>5 DEF Generating, NoFrame, Goto, Agents
  <2> QED BY <1>3, <2>2, <2>3, <2>4, <2>5 DEF AgentsKept
<1>4. CASE /\ caller = "blit" /\ Goto(a, "copy") /\ UNCHANGED todo
           /\ frame' = [frame EXCEPT ![a] = [NoFrame EXCEPT
                !.pos = frame[a].pos, !.block = p, !.caller = caller, !.held = held]]
  <2> DEFINE f == [NoFrame EXCEPT !.pos = frame[a].pos, !.block = p,
                                  !.caller = caller, !.held = held]
  <2>1. f \in Frame
    BY <1>4 DEF NoFrame, Frame
  <2>2. at' \in [Agents -> Places] /\ frame' \in [Agents -> Frame]
    BY <1>4, <2>1 DEF Goto, Places
  <2>3. Frames'
    BY <1>4 DEF Frames, FrameOK, NothingErased, NoFrame, Goto
  <2>4. ThreadsOK'
    BY <1>4 DEF ThreadsOK, ThreadOK, NoFrame, OwnPlaces, Goto, Agents
  <2>5. ASSUME NEW t \in Threads, Generating(t)'
        PROVE  Generating(t) /\ frame'[t].pos = frame[t].pos
    BY <1>4, <2>5 DEF Generating, NoFrame, Goto, Agents
  <2> QED BY <1>4, <2>2, <2>3, <2>4, <2>5 DEF AgentsKept
<1> QED BY <1>1, <1>2, <1>3, <1>4 DEF Got

(* It has to read the block first.                                         *)
LEMMA EmergeBlockStep ==
  ASSUME StateInv, NEW a \in Agents, NEW p \in Blocks,
         NEW caller \in {"init", "blit", "user"}, EmergeBlock(a, p, caller),
         at[a] \in {"idle", "create", "blit"},
         UNCHANGED <<m_blocks, vmanip>>,
         a \in Threads /\ caller = "user" => FALSE,
         a \in Threads => Generating(a) /\ frame[a].pos \in Blocks,
         a \in Threads /\ caller = "blit" =>
           vmanip[a][p] # None /\ \A q \in todo[a] : vmanip[a][q] # None
  PROVE  AgentsKept /\ todo' \in [Threads -> SUBSET Blocks]
<1> USE DEF StateInv, TypeOK
<1>1. NothingErased
  BY DEF NothingErased, IsLoaded
<1>2. CASE IsLoaded(p) /\ Got(a, caller, p, "live")
  <2>1. "live" \in Handles /\ IsLoaded(p)'
    BY <1>2 DEF Handles, IsLoaded
  <2> QED BY <1>1, <1>2, <2>1, GotStep
<1>3. CASE /\ Goto(a, "read") /\ UNCHANGED todo
           /\ frame' = [frame EXCEPT ![a].block = p, ![a].caller = caller]
  <2> DEFINE f == [frame[a] EXCEPT !.block = p, !.caller = caller]
  <2>1. f \in Frame /\ f.held # "live" /\ frame' = [frame EXCEPT ![a] = f]
    <3>1. frame[a] \in Frame /\ frame[a].held # "live"
      BY DEF Frames, FrameOK
    <3>2. f \in Frame
      BY <3>1 DEF Frame
    <3>3. f.held # "live"
      BY <3>1 DEF Frame
    <3>4. frame' = [frame EXCEPT ![a] = f]
      BY <1>3, <3>1
    <3> QED BY <3>2, <3>3, <3>4
  <2>2. at' \in [Agents -> Places] /\ frame' \in [Agents -> Frame]
    BY <1>3, <2>1 DEF Goto, Places
  <2>3. Frames'
    BY <1>1, <1>3, <2>1 DEF Frames, FrameOK, NothingErased, Goto, Frame
  <2>4. ThreadsOK'
    BY <1>3 DEF ThreadsOK, ThreadOK, OwnPlaces, Goto, Agents, Frame
  <2>5. ASSUME NEW t \in Threads, Generating(t)'
        PROVE  Generating(t) /\ frame'[t].pos = frame[t].pos
    BY <1>3, <2>5 DEF Generating, Goto, Agents, Frame
  <2> QED BY <1>3, <2>2, <2>3, <2>4, <2>5 DEF AgentsKept
<1> QED BY <1>2, <1>3 DEF EmergeBlock

-----------------------------------------------------------------------------
(* Loading.                                                                *)
LEMMA KeptIsInvariant ==
  ASSUME StateInv, AgentsKept,
         m_blocks' \in [Blocks -> Block \union {None}],
         todo' \in [Threads -> SUBSET Blocks],
         vmanip' \in [Threads -> [Blocks -> Data \union {None}]],
         UNCHANGED <<database, m_chunks_in_progress, unloadVars>>,
         m_mapgen_process' \subseteq Chunks, edited' \subseteq Blocks
  PROVE  StateInv' /\ NoNewGenerator
BY DEF StateInv, TypeOK, AgentsKept, NoNewGenerator, unloadVars

LEMMA ReadDatabaseStep ==
  ASSUME StateInv, NEW a \in Agents, ReadDatabase(a)
  PROVE  StateInv' /\ NoNewGenerator
<1> USE DEF StateInv, TypeOK, ReadDatabase, mapVars
<1> DEFINE f == [frame[a] EXCEPT !.data = database[frame[a].block]]
<1>1. frame[a] \in Frame /\ frame[a].block \in Blocks /\ frame[a].held # "live"
  BY DEF Frames, FrameOK
<1>2. f \in Frame /\ frame' = [frame EXCEPT ![a] = f]
  <2>1. f \in Frame
    BY <1>1 DEF Frame
  <2>2. frame' = [frame EXCEPT ![a] = f]
    BY <1>1
  <2> QED BY <2>1, <2>2
<1>3. at' \in [Agents -> Places] /\ frame' \in [Agents -> Frame]
  BY <1>2 DEF Goto, Places
<1>4. Frames'
  BY <1>1, <1>2 DEF Frames, FrameOK, Goto, IsLoaded, Frame
<1>5. ThreadsOK'
  BY <1>1, <1>2 DEF ThreadsOK, ThreadOK, OwnPlaces, Goto, Agents, Frame
<1>6. ASSUME NEW t \in Threads, Generating(t)'
      PROVE  Generating(t) /\ frame'[t].pos = frame[t].pos
  BY <1>1, <1>2, <1>6 DEF Generating, Goto, Agents, Frame
<1>7. AgentsKept
  BY <1>3, <1>4, <1>5, <1>6 DEF AgentsKept
<1> QED BY <1>7, KeptIsInvariant DEF chunkVars

(* What GotStep asks of an agent that loads.                               *)
LEMMA Loading ==
  ASSUME StateInv, NEW a \in Agents, at[a] \in {"load", "reset", "blank"}
  PROVE  /\ frame[a] \in Frame /\ frame[a].block \in Blocks
         /\ a \in Threads /\ frame[a].caller \in {"init", "blit"} =>
              Generating(a) /\ frame[a].pos \in Blocks
         /\ a \in Threads /\ frame[a].caller = "blit" =>
              /\ vmanip[a][frame[a].block] # None
              /\ \A q \in todo[a] : vmanip[a][q] # None
BY DEF StateInv, TypeOK, Frames, FrameOK, ThreadsOK, ThreadOK, Generating, OwnPlaces

LEMMA GotBlockStep ==
  ASSUME StateInv, NEW a \in Agents, at[a] \in {"load", "reset", "blank"},
         NEW held \in Handles, GotBlock(a, held), NothingErased,
         m_blocks' \in [Blocks -> Block \union {None}],
         held = "live" => m_blocks'[frame[a].block] # None,
         UNCHANGED <<database, chunkVars, vmanip, unloadVars, edited>>
  PROVE  StateInv' /\ NoNewGenerator
<1>1. PICK p, caller : p \in Blocks /\ p = frame[a].block /\ caller = frame[a].caller
  BY Loading
<1>2. Got(a, caller, p, held)
  BY <1>1 DEF GotBlock
<1>3. held = "live" => IsLoaded(p)'
  BY <1>1 DEF IsLoaded
<1>4. AgentsKept /\ todo' \in [Threads -> SUBSET Blocks]
  BY <1>1, <1>2, <1>3, Loading, GotStep
<1> QED BY <1>4, KeptIsInvariant DEF StateInv, TypeOK, chunkVars

LEMMA LoadBlockStep ==
  ASSUME StateInv, NEW a \in Agents, LoadBlock(a)
  PROVE  StateInv' /\ NoNewGenerator
<1> USE DEF StateInv, TypeOK, LoadBlock
<1>1. PICK held \in Cached(frame[a].block) :
        \/ /\ ~HasData(a) /\ held = "none" /\ Missed(a)
           /\ UNCHANGED <<m_blocks, todo>>
        \/ /\ ~HasData(a) /\ held # "none" /\ GotBlock(a, held)
           /\ UNCHANGED m_blocks
        \/ /\ HasData(a) /\ held # "none" /\ Deserialize(a, held)
           /\ UNCHANGED todo
        \/ /\ HasData(a) /\ held = "none" /\ Goto(a, "insert")
           /\ UNCHANGED <<m_blocks, frame, todo>>
  OBVIOUS
<1>2. held \in Handles /\ (held = "live" => IsLoaded(frame[a].block))
  BY HandlesTyped
<1>3. /\ frame[a] \in Frame /\ frame[a].block \in Blocks
      /\ frame[a].held # "live"
  BY DEF Frames, FrameOK
<1>4. CASE ~HasData(a) /\ held = "none" /\ Missed(a) /\ UNCHANGED <<m_blocks, todo>>
  <2>1. NothingErased
    BY <1>4 DEF NothingErased, IsLoaded
  <2>2. CASE Leave(a)
    <3>1. AgentsKept
      BY <1>4, <2>1, <2>2, LeaveStep
    <3> QED BY <1>4, <3>1, KeptIsInvariant DEF chunkVars
  <2>3. CASE /\ frame[a].caller \in {"init", "blit"}
             /\ Goto(a, "blank") /\ UNCHANGED frame
    <3>1. at' \in [Agents -> Places] /\ frame' \in [Agents -> Frame]
      BY <2>3 DEF Goto, Places
    <3>2. Frames'
      BY <1>3, <1>4, <2>3 DEF Frames, FrameOK, Goto, IsLoaded
    <3>3. ThreadsOK'
      BY <1>3, <1>4, <2>3 DEF ThreadsOK, ThreadOK, OwnPlaces, Goto, Agents
    <3>4. ASSUME NEW t \in Threads, Generating(t)'
          PROVE  Generating(t) /\ frame'[t].pos = frame[t].pos
      BY <2>3, <3>4 DEF Generating, Goto, Agents
    <3>5. AgentsKept
      BY <3>1, <3>2, <3>3, <3>4 DEF AgentsKept
    <3> QED BY <1>4, <3>5, KeptIsInvariant DEF chunkVars
  <2> QED BY <1>4, <2>2, <2>3 DEF Missed
<1>5. CASE ~HasData(a) /\ held # "none" /\ GotBlock(a, held) /\ UNCHANGED m_blocks
  <2>1. NothingErased /\ (held = "live" => m_blocks'[frame[a].block] # None)
    BY <1>2, <1>5 DEF NothingErased, IsLoaded
  <2> QED BY <1>2, <1>5, <2>1, GotBlockStep
<1>6. CASE HasData(a) /\ held # "none" /\ Deserialize(a, held) /\ UNCHANGED todo
  <2> DEFINE f == [frame[a] EXCEPT !.held = held]
             b == [m_blocks[frame[a].block] EXCEPT
                     !.data = frame[a].data, !.generated = TRUE]
  <2>1. frame' = [frame EXCEPT ![a] = f] /\ f \in Frame
    <3>1. frame' = [frame EXCEPT ![a] = f]
      BY <1>3, <1>6 DEF Deserialize
    <3>2. f \in Frame
      BY <1>2, <1>3 DEF Frame
    <3> QED BY <3>1, <3>2
  <2>2. /\ m_blocks' \in [Blocks -> Block \union {None}] /\ NothingErased
        /\ held = "live" => m_blocks'[frame[a].block] # None
    <3>1. CASE held # "live"
      BY <1>6, <3>1 DEF Deserialize, NothingErased, IsLoaded
    <3>2. CASE held = "live"
      <4>1. m_blocks[frame[a].block] \in Block
        BY <1>2, <1>3, <3>2, LoadedIsBlock
      <4>2. frame[a].data \in Data
        BY <1>3, <1>6 DEF HasData, Frame
      <4>3. b \in Block /\ b # None
        BY <4>1, <4>2, NoneAssumption DEF Block
      <4>4. m_blocks' = [m_blocks EXCEPT ![frame[a].block] = b]
        BY <1>3, <1>6, <3>2 DEF Deserialize
      <4> QED BY <1>3, <4>3, <4>4 DEF NothingErased, IsLoaded
    <3> QED BY <3>1, <3>2
  <2>3. at' \in [Agents -> Places] /\ frame' \in [Agents -> Frame]
    BY <1>6, <2>1 DEF Deserialize, Goto, Places
  <2>4. /\ at'[a] = "reset" /\ at[a] = "load" /\ frame'[a].held = held
        /\ frame'[a].block = frame[a].block /\ frame'[a].pos = frame[a].pos
        /\ frame'[a].caller = frame[a].caller
        /\ \A c \in Agents : c # a => at'[c] = at[c] /\ frame'[c] = frame[c]
        /\ UNCHANGED <<todo, vmanip>>
    BY <1>3, <1>6, <2>1 DEF Deserialize, HasData, Goto, Frame
  <2>5. Frames'
    <3>1. FrameOK(a)'
      BY <1>3, <1>6, <2>2, <2>4 DEF Frames, FrameOK, IsLoaded
    <3>2. ASSUME NEW c \in Agents, c # a PROVE FrameOK(c)'
      BY <1>3, <2>2, <2>4, <3>2 DEF Frames, FrameOK, NothingErased
    <3> QED BY <3>1, <3>2 DEF Frames
  <2>6. ThreadsOK'
    BY <1>3, <2>4 DEF ThreadsOK, ThreadOK, OwnPlaces, Agents
  <2>7. ASSUME NEW t \in Threads, Generating(t)'
        PROVE  Generating(t) /\ frame'[t].pos = frame[t].pos
    BY <1>3, <2>7, <2>4 DEF Generating, Agents
  <2>8. AgentsKept
    BY <2>3, <2>5, <2>6, <2>7 DEF AgentsKept
  <2> QED BY <1>6, <2>2, <2>8, KeptIsInvariant DEF chunkVars
<1>7. CASE HasData(a) /\ held = "none" /\ Goto(a, "insert") /\ UNCHANGED <<m_blocks, frame, todo>>
  <2>1. at' \in [Agents -> Places] /\ frame' \in [Agents -> Frame]
    BY <1>7 DEF Goto, Places
  <2>2. Frames'
    BY <1>3, <1>7 DEF Frames, FrameOK, Goto, IsLoaded, HasData
  <2>3. ThreadsOK'
    BY <1>3, <1>7 DEF ThreadsOK, ThreadOK, OwnPlaces, Goto, Agents, HasData
  <2>4. ASSUME NEW t \in Threads, Generating(t)'
        PROVE  Generating(t) /\ frame'[t].pos = frame[t].pos
    BY <1>7, <2>4 DEF Generating, Goto, Agents, HasData
  <2>5. AgentsKept
    BY <2>1, <2>2, <2>3, <2>4 DEF AgentsKept
  <2> QED BY <1>7, <2>5, KeptIsInvariant DEF chunkVars
<1> QED BY <1>1, <1>4, <1>5, <1>6, <1>7

LEMMA InsertBlockStep ==
  ASSUME StateInv, NEW a \in Agents, InsertBlock(a)
  PROVE  StateInv' /\ NoNewGenerator
<1> USE DEF StateInv, TypeOK, InsertBlock
<1>1. PICK p, f : p = frame[a].block /\ f = frame[a]
  OBVIOUS
<1>2. f \in Frame /\ p \in Blocks /\ f.data # None /\ f.held # "live"
  BY <1>1 DEF Frames, FrameOK
<1>3. PICK held \in {"live", "stale"} :
        /\ frame' = [frame EXCEPT ![a].held = held]
        /\ m_blocks' \in [Blocks -> Block \union {None}] /\ NothingErased
        /\ m_blocks'[p] # None
  <2>1. CASE IsLoaded(p)
    BY <1>1, <2>1 DEF NothingErased, IsLoaded
  <2>2. CASE ~IsLoaded(p)
    <3> DEFINE b == [data |-> f.data, generated |-> TRUE, modified |-> FALSE]
    <3>1. b \in Block /\ b # None
      <4>1. f.data \in Data
        BY <1>2 DEF Frame
      <4>2. b \in Block
        BY <4>1 DEF Block
      <4> QED BY <4>2, NoneAssumption
    <3>2. m_blocks' = [m_blocks EXCEPT ![p] = b] /\ frame' = [frame EXCEPT ![a].held = "live"]
      BY <1>1, <2>2
    <3> QED BY <1>2, <3>1, <3>2 DEF NothingErased, IsLoaded
  <2> QED BY <2>1, <2>2
<1>4. PICK g : g = [f EXCEPT !.held = held]
  OBVIOUS
<1>5. g \in Frame /\ frame' = [frame EXCEPT ![a] = g]
  <2>1. g \in Frame
    BY <1>2, <1>4 DEF Frame, Handles
  <2>2. frame' = [frame EXCEPT ![a] = g]
    BY <1>1, <1>3, <1>4
  <2> QED BY <2>1, <2>2
<1>6. at' \in [Agents -> Places] /\ frame' \in [Agents -> Frame]
  BY <1>5 DEF Goto, Places
<1>7. Frames'
  BY <1>1, <1>2, <1>3, <1>4, <1>5 DEF Frames, FrameOK, Goto, NothingErased, IsLoaded, Frame
<1>8. ThreadsOK'
  BY <1>1, <1>2, <1>4, <1>5 DEF ThreadsOK, ThreadOK, OwnPlaces, Goto, Agents, Frame
<1>9. ASSUME NEW t \in Threads, Generating(t)'
      PROVE  Generating(t) /\ frame'[t].pos = frame[t].pos
  BY <1>1, <1>2, <1>4, <1>5, <1>9 DEF Generating, Goto, Agents, Frame
<1>10. AgentsKept
  BY <1>6, <1>7, <1>8, <1>9 DEF AgentsKept
<1> QED BY <1>3, <1>10, KeptIsInvariant DEF chunkVars

LEMMA ResetModifiedStep ==
  ASSUME StateInv, NEW a \in Agents, ResetModified(a)
  PROVE  StateInv' /\ NoNewGenerator
<1> USE DEF StateInv, TypeOK, ResetModified
<1>1. PICK p, held : p = frame[a].block /\ held = frame[a].held
  OBVIOUS
<1>2. p \in Blocks /\ held \in Handles /\ (held = "live" => IsLoaded(p))
  BY <1>1 DEF Frames, FrameOK, Frame
<1>3. /\ m_blocks' \in [Blocks -> Block \union {None}] /\ NothingErased
      /\ held = "live" => m_blocks'[p] # None
  <2>1. CASE held # "live"
    BY <1>1, <2>1 DEF NothingErased, IsLoaded
  <2>2. CASE held = "live"
    <3>1. PICK b : b = [m_blocks[p] EXCEPT !.modified = FALSE]
      OBVIOUS
    <3>2. b \in Block /\ b # None
      BY <1>2, <2>2, <3>1, LoadedIsBlock, NoneAssumption DEF Block
    <3>3. m_blocks' = [m_blocks EXCEPT ![p] = b]
      BY <1>1, <1>2, <2>2, <3>1
    <3> QED BY <1>2, <3>2, <3>3 DEF NothingErased, IsLoaded
  <2> QED BY <2>1, <2>2
<1> QED BY <1>1, <1>2, <1>3, GotBlockStep

LEMMA CreateBlankBlockStep ==
  ASSUME StateInv, NEW a \in Agents, CreateBlankBlock(a)
  PROVE  StateInv' /\ NoNewGenerator
<1> USE DEF StateInv, TypeOK, CreateBlankBlock
<1>1. PICK p : p = frame[a].block
  OBVIOUS
<1>2. p \in Blocks
  BY <1>1 DEF Frames, FrameOK
<1>3. Blank \in Block /\ Blank # None
  <2>1. Blank \in Block
    BY DEF Blank, Block, Data
  <2> QED BY <2>1, NoneAssumption
<1>4. m_blocks' \in [Blocks -> Block \union {None}] /\ NothingErased /\ m_blocks'[p] # None
  BY <1>1, <1>2, <1>3 DEF NothingErased, IsLoaded
<1>5. "live" \in Handles
  BY DEF Handles
<1> QED BY <1>1, <1>4, <1>5, GotBlockStep

LEMMA LoadStep ==
  ASSUME StateInv, NEW a \in Agents, Load(a)
  PROVE  StateInv' /\ NoNewGenerator
BY ReadDatabaseStep, LoadBlockStep, InsertBlockStep, ResetModifiedStep,
   CreateBlankBlockStep DEF Load

-----------------------------------------------------------------------------
(* The emerge threads.                                                     *)

(* A step that only moves a thread from one of its own places to another,  *)
(* and begins no generation.                                               *)
LEMMA MoveStep ==
  ASSUME StateInv, NEW t \in Threads, NEW place \in Places, Goto(t, place),
         UNCHANGED <<m_blocks, frame, vmanip, database, unloadVars, edited>>,
         todo' \in [Threads -> SUBSET Blocks],
         \A u \in Threads : u # t => todo'[u] = todo[u],
         m_chunks_in_progress' \subseteq Chunks, m_mapgen_process' \subseteq Chunks,
         frame[t].held # "live", place # "insert", frame[t].pos \in Blocks,
         place \in {"read", "load"} => frame[t].block \in Blocks,
         place \notin {"first", "second", "reset", "blank", "copy", "blit",
                       "holding"},
         frame[t].caller \in {"none", "load"}
  PROVE  StateInv'
<1> USE DEF StateInv, TypeOK
<1>1. at' \in [Agents -> Places] /\ t \in Agents
  BY DEF Goto, Agents
<1>2. Frames'
  BY <1>1 DEF Frames, FrameOK, Goto, IsLoaded
<1>3. ThreadsOK'
  BY <1>1 DEF ThreadsOK, ThreadOK, Goto, OwnPlaces, Agents
<1> QED BY <1>1, <1>2, <1>3 DEF unloadVars

(* It gives up, or has finished.                                           *)
LEMMA LeaveInvariant ==
  ASSUME StateInv, NEW a \in Agents, Leave(a),
         UNCHANGED <<mapVars, m_chunks_in_progress, todo, vmanip, unloadVars>>,
         m_mapgen_process' \subseteq Chunks, edited' \subseteq Blocks
  PROVE  StateInv' /\ NoNewGenerator
<1>1. NothingErased
  BY DEF NothingErased, IsLoaded, mapVars
<1>2. AgentsKept
  BY <1>1, LeaveStep
<1> QED BY <1>2, KeptIsInvariant DEF StateInv, TypeOK, mapVars

LEMMA ThreadsAreAgents == Threads \subseteq Agents /\ Users \subseteq Agents
BY DEF Agents

LEMMA RequestStep ==
  ASSUME StateInv, NEW t \in Threads, NEW p \in Blocks, Request(t, p)
  PROVE  StateInv' /\ NoNewGenerator
<1> USE DEF StateInv, TypeOK, Request, mapVars, chunkVars
<1> DEFINE f == [NoFrame EXCEPT !.pos = p, !.block = p, !.caller = "load"]
<1>1. f \in Frame
  BY NoFrameTyped DEF Frame, NoFrame
<1>2. at' \in [Agents -> Places] /\ frame' \in [Agents -> Frame]
  BY <1>1, ThreadsAreAgents DEF Goto, Places
<1>3. Frames'
  BY DEF Frames, FrameOK, Goto, IsLoaded, NoFrame
<1>4. ThreadsOK'
  BY DEF ThreadsOK, ThreadOK, OwnPlaces, Goto, Agents, NoFrame
<1>5. ASSUME NEW u \in Threads, Generating(u)'
      PROVE  Generating(u) /\ frame'[u].pos = frame[u].pos
  BY <1>5 DEF Generating, Goto, Agents, NoFrame
<1>6. AgentsKept
  BY <1>2, <1>3, <1>4, <1>5 DEF AgentsKept
<1> QED BY <1>6, KeptIsInvariant

LEMMA getBlockOrStartGenStep ==
  ASSUME StateInv, NEW t \in Threads, getBlockOrStartGen(t)
  PROVE  StateInv' /\ NoNewGenerator
<1> USE DEF StateInv, TypeOK, getBlockOrStartGen, mapVars, chunkVars
<1>1. /\ t \in Agents /\ frame[t].pos \in Blocks /\ frame[t].block \in Blocks
      /\ frame[t].held # "live" /\ frame[t].caller \in {"none", "load"}
  BY ThreadsAreAgents DEF Frames, FrameOK, ThreadsOK, ThreadOK, OwnPlaces
<1>2. CASE Leave(t)
  BY <1>1, <1>2, LeaveInvariant
<1>3. ASSUME NEW place \in {"start", "read", "load"}, Goto(t, place), UNCHANGED frame
      PROVE  StateInv' /\ NoNewGenerator
  <2>1. StateInv'
    BY <1>1, <1>3, MoveStep DEF Places
  <2>2. NoNewGenerator
    BY <1>1, <1>3 DEF NoNewGenerator, Generating, Goto, Agents
  <2> QED BY <2>1, <2>2
<1> QED BY <1>2, <1>3

(* The chunk is entered into m_chunks_in_progress: nobody else generates   *)
(* it, or it would be there.                                               *)
LEMMA StartGenStep ==
  ASSUME StateInv, Claimed, OneGenerator, NEW t \in Threads, StartGen(t)
  PROVE  StateInv' /\ Claimed' /\ OneGenerator'
<1> USE DEF StartGen
<1>1. /\ t \in Agents /\ frame[t].pos \in Blocks /\ frame[t].held # "live"
      /\ frame[t].caller \in {"none", "load"} /\ ChunkOfRequest(t) \in Chunks
      /\ m_chunks_in_progress \subseteq Chunks /\ m_mapgen_process \subseteq Chunks
  BY ThreadsAreAgents, MapAssumption
     DEF StateInv, TypeOK, Frames, FrameOK, ThreadsOK, ThreadOK, OwnPlaces, ChunkOfRequest
<1>2. CASE Leave(t) /\ UNCHANGED m_chunks_in_progress
  <2>1. StateInv' /\ NoNewGenerator
    BY <1>1, <1>2, LeaveInvariant DEF StateInv, TypeOK
  <2> QED BY <2>1, ClaimsKept
<1>3. CASE /\ ChunkOfRequest(t) \notin m_chunks_in_progress
           /\ m_chunks_in_progress' = m_chunks_in_progress \union {ChunkOfRequest(t)}
           /\ Goto(t, "process") /\ UNCHANGED frame
  <2>1. StateInv'
    BY <1>1, <1>3, MoveStep DEF StateInv, TypeOK, Places, mapVars
  <2>2. \A u \in Threads : u # t => (Generating(u)' <=> Generating(u))
    BY <1>3 DEF Generating, Goto, StateInv, TypeOK, Agents
  <2>3. \A u \in Threads : ChunkOfRequest(u)' = ChunkOfRequest(u)
    BY <1>3 DEF ChunkOfRequest
  <2>4. Claimed'
    BY <1>3, <2>2, <2>3 DEF Claimed
  <2>5. OneGenerator'
    BY <1>3, <2>2, <2>3 DEF OneGenerator, Claimed
  <2> QED BY <2>1, <2>4, <2>5
<1> QED BY <1>2, <1>3 DEF EnterProgress

LEMMA EnterProcessStep ==
  ASSUME StateInv, NEW t \in Threads, EnterProcess(t)
  PROVE  StateInv' /\ NoNewGenerator
<1> USE DEF EnterProcess
<1>1. /\ t \in Agents /\ frame[t].pos \in Blocks /\ frame[t].held # "live"
      /\ frame[t].caller \in {"none", "load"} /\ ChunkOfRequest(t) \in Chunks
      /\ Area[ChunkOfRequest(t)] \subseteq Blocks
      /\ m_chunks_in_progress \subseteq Chunks /\ m_mapgen_process \subseteq Chunks
  BY ThreadsAreAgents, MapAssumption
     DEF StateInv, TypeOK, Frames, FrameOK, ThreadsOK, ThreadOK, OwnPlaces, ChunkOfRequest
<1>2. m_mapgen_process' \subseteq Chunks
  BY <1>1
<1>3. CASE Leave(t) /\ UNCHANGED todo
  BY <1>1, <1>2, <1>3, LeaveInvariant DEF StateInv, TypeOK
<1>4. CASE /\ Goto(t, "create") /\ UNCHANGED frame
           /\ todo' = [todo EXCEPT ![t] = Area[ChunkOfRequest(t)]]
  <2>1. /\ todo' \in [Threads -> SUBSET Blocks]
        /\ \A u \in Threads : u # t => todo'[u] = todo[u]
    BY <1>1, <1>4 DEF StateInv, TypeOK
  <2>2. StateInv'
    BY <1>1, <1>2, <1>4, <2>1, MoveStep DEF StateInv, TypeOK, Places, mapVars
  <2>3. NoNewGenerator
    BY <1>1, <1>4 DEF NoNewGenerator, Generating, Goto, Agents, StateInv, TypeOK
  <2> QED BY <2>2, <2>3
<1> QED BY <1>3, <1>4

(* What is to be copied back is what initialEmerge() has copied.           *)
LEMMA MakeChunkStep ==
  ASSUME StateInv, NEW t \in Threads, at[t] = "create", MakeChunk(t),
         UNCHANGED <<mapVars, chunkVars, unloadVars, edited>>
  PROVE  StateInv' /\ NoNewGenerator
<1> USE DEF StateInv, TypeOK, mapVars, chunkVars
<1>1. t \in Agents
  BY ThreadsAreAgents
<1>2. CASE MayFail /\ Leave(t) /\ UNCHANGED <<todo, vmanip>>
  BY <1>1, <1>2, LeaveInvariant
<1>3. CASE ~(MayFail /\ Leave(t) /\ UNCHANGED <<todo, vmanip>>)
  <2> DEFINE copied(p) == p \in Area[ChunkOfRequest(t)] /\ IsLoaded(p)
             made == [p \in Blocks |->
               IF ~copied(p) THEN None
               ELSE IF m_blocks[p].data = "blank" /\ ChunkOf[p] = ChunkOfRequest(t)
               THEN "gen" ELSE m_blocks[p].data]
             left == {p \in Blocks : copied(p)}
  <2>1. /\ vmanip' = [vmanip EXCEPT ![t] = made] /\ todo' = [todo EXCEPT ![t] = left]
        /\ Goto(t, "blit") /\ UNCHANGED frame
    BY <1>3 DEF MakeChunk
  <2>2. \A p \in left : made[p] \in Data
    BY LoadedIsBlock DEF Block, Data
  <2>3. made \in [Blocks -> Data \union {None}] /\ \A p \in left : made[p] # None
    BY <2>2, NoneAssumption
  <2> HIDE DEF made, left
  <2>4. vmanip' \in [Threads -> [Blocks -> Data \union {None}]]
    BY <2>1, <2>3
  <2>5. todo' \in [Threads -> SUBSET Blocks]
    BY <2>1 DEF left
  <2>6. at' \in [Agents -> Places] /\ frame' \in [Agents -> Frame]
    BY <2>1 DEF Goto, Places
  <2>7. Frames'
    BY <1>1, <2>1 DEF Frames, FrameOK, Goto, IsLoaded
  <2>8. ThreadsOK'
    <3>1. ASSUME NEW u \in Threads PROVE ThreadOK(u)'
      <4>1. CASE u = t
        BY <1>1, <2>1, <2>3, <4>1 DEF ThreadsOK, ThreadOK, OwnPlaces, Goto
      <4>2. CASE u # t
        BY <1>1, <2>1, <4>2 DEF ThreadsOK, ThreadOK, Goto, Agents
      <4> QED BY <4>1, <4>2
    <3> QED BY <3>1 DEF ThreadsOK
  <2>9. ASSUME NEW u \in Threads, Generating(u)'
        PROVE  Generating(u) /\ frame'[u].pos = frame[u].pos
    BY <1>1, <2>1, <2>9 DEF Generating, Goto, Agents
  <2>10. AgentsKept
    BY <2>6, <2>7, <2>8, <2>9 DEF AgentsKept
  <2> QED BY <2>4, <2>5, <2>10, KeptIsInvariant
<1> QED BY <1>2, <1>3

LEMMA CreateAreaStep ==
  ASSUME StateInv, NEW t \in Threads, CreateArea(t)
  PROVE  StateInv' /\ NoNewGenerator
<1>1. CASE todo[t] = {} /\ MakeChunk(t)
  BY <1>1, MakeChunkStep DEF CreateArea
<1>2. ASSUME NEW p \in todo[t], EmergeBlock(t, p, "init"), UNCHANGED vmanip
      PROVE  StateInv' /\ NoNewGenerator
  <2>1. p \in Blocks /\ t \in Agents /\ t \notin Users
    BY ThreadsAreAgents, MapAssumption DEF StateInv, TypeOK
  <2>2. Generating(t) /\ frame[t].pos \in Blocks
    BY DEF CreateArea, Generating, StateInv, ThreadsOK, ThreadOK
  <2>3. AgentsKept /\ todo' \in [Threads -> SUBSET Blocks]
    BY <1>2, <2>1, <2>2, EmergeBlockStep DEF CreateArea, mapVars
  <2> QED BY <1>2, <2>3, KeptIsInvariant
          DEF CreateArea, StateInv, TypeOK, mapVars, chunkVars
<1> QED BY <1>1, <1>2 DEF CreateArea

LEMMA BlitBackStep ==
  ASSUME StateInv, NEW t \in Threads, BlitBack(t)
  PROVE  StateInv' /\ NoNewGenerator
<1>1. PICK p \in todo[t] : EmergeBlock(t, p, "blit")
  BY DEF BlitBack
<1>2. p \in Blocks /\ t \in Agents
  BY ThreadsAreAgents DEF StateInv, TypeOK
<1>3. /\ Generating(t) /\ frame[t].pos \in Blocks /\ vmanip[t][p] # None
      /\ \A q \in todo[t] : vmanip[t][q] # None
  BY DEF BlitBack, Generating, StateInv, ThreadsOK, ThreadOK
<1>4. AgentsKept /\ todo' \in [Threads -> SUBSET Blocks]
  BY <1>1, <1>2, <1>3, EmergeBlockStep DEF BlitBack, mapVars
<1> QED BY <1>4, KeptIsInvariant DEF BlitBack, StateInv, TypeOK, mapVars, chunkVars

LEMMA CopyBlockStep ==
  ASSUME StateInv, NEW t \in Threads, CopyBlock(t)
  PROVE  StateInv' /\ NoNewGenerator
<1> USE DEF StateInv, TypeOK, CopyBlock, chunkVars
<1>1. PICK p, f : p = frame[t].block /\ f = [NoFrame EXCEPT !.pos = frame[t].pos]
  OBVIOUS
<1>2. /\ t \in Agents /\ p \in Blocks /\ frame[t] \in Frame
      /\ frame[t].held = "live" => IsLoaded(p)
      /\ vmanip[t][p] \in Data
      /\ \A q \in todo[t] : vmanip[t][q] # None
  BY <1>1, ThreadsAreAgents DEF Frames, FrameOK, ThreadsOK, ThreadOK
<1>3. m_blocks' \in [Blocks -> Block \union {None}] /\ NothingErased
  <2>1. CASE frame[t].held # "live" \/ Generated(p)
    BY <1>1, <2>1 DEF CopyFrom, NothingErased, IsLoaded
  <2>2. CASE ~(frame[t].held # "live" \/ Generated(p))
    <3>1. PICK b : b = [m_blocks[p] EXCEPT !.data = vmanip[t][p], !.modified = TRUE]
      OBVIOUS
    <3>2. b \in Block /\ b # None
      <4>1. b \in Block
        BY <1>2, <2>2, <3>1, LoadedIsBlock DEF Block
      <4> QED BY <4>1, NoneAssumption
    <3>3. m_blocks' = [m_blocks EXCEPT ![p] = b]
      BY <1>1, <1>2, <2>2, <3>1 DEF CopyFrom
    <3> QED BY <1>2, <3>2, <3>3 DEF NothingErased, IsLoaded
  <2> QED BY <2>1, <2>2
<1>4. f \in Frame
  BY <1>1, <1>2, NoFrameTyped DEF Frame, NoFrame
<1>5. at' \in [Agents -> Places] /\ frame' \in [Agents -> Frame]
  BY <1>1, <1>4 DEF Goto, Places
<1>6. Frames'
  BY <1>1, <1>2, <1>3 DEF Frames, FrameOK, Goto, NothingErased, IsLoaded, NoFrame
<1>7. ThreadsOK'
  BY <1>1, <1>2 DEF ThreadsOK, ThreadOK, OwnPlaces, Goto, Agents, NoFrame
<1>8. ASSUME NEW u \in Threads, Generating(u)'
      PROVE  Generating(u) /\ frame'[u].pos = frame[u].pos
  BY <1>1, <1>2, <1>8 DEF Generating, Goto, Agents, NoFrame
<1>9. AgentsKept
  BY <1>5, <1>6, <1>7, <1>8 DEF AgentsKept
<1>10. todo' \in [Threads -> SUBSET Blocks]
  OBVIOUS
<1> QED BY <1>3, <1>9, <1>10, KeptIsInvariant

LEMMA FinishBlockMakeStep ==
  ASSUME StateInv, NEW t \in Threads, FinishBlockMake(t)
  PROVE  StateInv' /\ NoNewGenerator
<1> USE DEF StateInv, TypeOK, FinishBlockMake, chunkVars
<1>1. /\ t \in Agents /\ frame[t].pos \in Blocks /\ frame[t].held # "live"
      /\ frame[t].caller \in {"none", "load"}
  BY ThreadsAreAgents DEF Frames, FrameOK, ThreadsOK, ThreadOK, OwnPlaces
<1>2. m_blocks' \in [Blocks -> Block \union {None}] /\ NothingErased
  <2>1. ASSUME NEW p \in Blocks
        PROVE  /\ m_blocks'[p] \in Block \union {None}
               /\ IsLoaded(p) => m_blocks'[p] # None
    <3>1. CASE ~IsLoaded(p) \/ Generated(p) \/ ChunkOf[p] # ChunkOfRequest(t)
      BY <3>1 DEF FlagGenerated, IsLoaded
    <3>2. CASE ~(~IsLoaded(p) \/ Generated(p) \/ ChunkOf[p] # ChunkOfRequest(t))
      <4>1. PICK m : m = (m_blocks[p].modified \/ vmanip[t][p] # None)
        OBVIOUS
      <4>2. m \in BOOLEAN /\ m_blocks[p] \in Block
        BY <3>2, <4>1, LoadedIsBlock DEF Block
      <4>3. m_blocks'[p] = [m_blocks[p] EXCEPT !.generated = TRUE, !.modified = m]
        BY <3>2, <4>1 DEF FlagGenerated
      <4>4. m_blocks'[p] \in Block
        BY <4>2, <4>3 DEF Block
      <4> QED BY <4>4, NoneAssumption
    <3> QED BY <3>1, <3>2
  <2>2. m_blocks' = [p \in Blocks |-> m_blocks'[p]]
    BY DEF FlagGenerated
  <2> QED BY <2>1, <2>2 DEF NothingErased, IsLoaded
<1>3. NoManip \in [Blocks -> Data \union {None}]
  BY DEF NoManip
<1>4. vmanip' \in [Threads -> [Blocks -> Data \union {None}]]
  BY <1>3
<1>5. at' \in [Agents -> Places] /\ frame' \in [Agents -> Frame]
  BY DEF Goto, Places
<1>6. Frames'
  BY <1>1, <1>2 DEF Frames, FrameOK, Goto, NothingErased, IsLoaded
<1>7. ThreadsOK'
  <2>1. ASSUME NEW u \in Threads PROVE ThreadOK(u)'
    <3>1. CASE u = t
      BY <1>1, <3>1 DEF ThreadsOK, ThreadOK, OwnPlaces, Goto
    <3>2. CASE u # t
      BY <1>1, <3>2 DEF ThreadsOK, ThreadOK, Goto, Agents
    <3> QED BY <3>1, <3>2
  <2> QED BY <2>1 DEF ThreadsOK
<1>8. ASSUME NEW u \in Threads, Generating(u)'
      PROVE  Generating(u) /\ frame'[u].pos = frame[u].pos
  BY <1>1, <1>8 DEF Generating, Goto, Agents
<1>9. AgentsKept
  BY <1>5, <1>6, <1>7, <1>8 DEF AgentsKept
<1> QED BY <1>2, <1>4, <1>9, KeptIsInvariant

(* The chunk is let go by the thread that entered it, which is done with it.*)
LEMMA EraseInProgressStep ==
  ASSUME StateInv, Claimed, OneGenerator, NEW t \in Threads, EraseInProgress(t)
  PROVE  StateInv' /\ Claimed' /\ OneGenerator'
<1> USE DEF EraseInProgress
<1>1. /\ t \in Agents /\ frame[t].pos \in Blocks /\ frame[t].held # "live"
      /\ frame[t].caller \in {"none", "load"}
      /\ m_chunks_in_progress \subseteq Chunks /\ m_mapgen_process \subseteq Chunks
  BY ThreadsAreAgents
     DEF StateInv, TypeOK, Frames, FrameOK, ThreadsOK, ThreadOK, OwnPlaces
<1>2. StateInv'
  BY <1>1, MoveStep DEF StateInv, TypeOK, Places, mapVars
<1>3. /\ Generating(t) /\ ~Generating(t)'
      /\ \A u \in Threads : u # t => (Generating(u)' <=> Generating(u))
      /\ \A u \in Threads : ChunkOfRequest(u)' = ChunkOfRequest(u)
  BY <1>1 DEF Generating, Goto, StateInv, TypeOK, Agents, ChunkOfRequest
<1>4. Claimed' /\ OneGenerator'
  BY <1>3 DEF Claimed, OneGenerator
<1> QED BY <1>2, <1>4

LEMMA EraseProcessStep ==
  ASSUME StateInv, NEW t \in Threads, EraseProcess(t)
  PROVE  StateInv' /\ NoNewGenerator
BY LeaveInvariant, ThreadsAreAgents DEF EraseProcess, StateInv, TypeOK

LEMMA EmergeThreadStep ==
  ASSUME MapInv, NEW t \in Threads, EmergeThread(t, Blocks)
  PROVE  MapInv'
<1>1. ASSUME StateInv' /\ NoNewGenerator
      PROVE  MapInv'
  BY <1>1, ClaimsKept DEF MapInv
<1>2. ASSUME NEW p \in Blocks, Request(t, p) PROVE MapInv'
  BY <1>1, <1>2, RequestStep DEF MapInv
<1>3. CASE getBlockOrStartGen(t)
  BY <1>1, <1>3, getBlockOrStartGenStep DEF MapInv
<1>4. CASE StartGen(t)
  BY <1>4, StartGenStep DEF MapInv
<1>5. CASE EnterProcess(t)
  BY <1>1, <1>5, EnterProcessStep DEF MapInv
<1>6. CASE CreateArea(t)
  BY <1>1, <1>6, CreateAreaStep DEF MapInv
<1>7. CASE BlitBack(t)
  BY <1>1, <1>7, BlitBackStep DEF MapInv
<1>8. CASE CopyBlock(t)
  BY <1>1, <1>8, CopyBlockStep DEF MapInv
<1>9. CASE FinishBlockMake(t)
  BY <1>1, <1>9, FinishBlockMakeStep DEF MapInv
<1>10. CASE EraseInProgress(t)
  BY <1>10, EraseInProgressStep DEF MapInv
<1>11. CASE EraseProcess(t)
  BY <1>1, <1>11, EraseProcessStep DEF MapInv
<1> QED BY <1>2, <1>3, <1>4, <1>5, <1>6, <1>7, <1>8, <1>9, <1>10, <1>11
        DEF EmergeThread

-----------------------------------------------------------------------------
(* The other threads.                                                      *)
LEMMA UseBlockStep ==
  ASSUME StateInv, NEW u \in Users, NEW p \in Blocks, UseBlock(u, p)
  PROVE  StateInv' /\ NoNewGenerator
<1> USE DEF UseBlock
<1>1. u \in Agents /\ u \notin Threads /\ NothingErased
  BY ThreadsAreAgents, MapAssumption DEF NothingErased, IsLoaded, mapVars
<1>2. AgentsKept /\ todo' \in [Threads -> SUBSET Blocks]
  <2>1. ASSUME NEW held \in Cached(p) \ {"none"}, Hold(u, p, held), UNCHANGED todo
        PROVE  AgentsKept /\ todo' \in [Threads -> SUBSET Blocks]
    <3>1. held \in Handles /\ (held = "live" => IsLoaded(p)')
      BY <1>1, HandlesTyped DEF NothingErased
    <3> QED BY <1>1, <2>1, <3>1, HoldStep DEF StateInv, TypeOK
  <2>2. CASE EmergeBlock(u, p, "user")
    BY <1>1, <2>2, EmergeBlockStep DEF mapVars
  <2> QED BY <2>1, <2>2
<1> QED BY <1>2, KeptIsInvariant DEF StateInv, TypeOK, mapVars, chunkVars

LEMMA EditBlockStep ==
  ASSUME StateInv, NEW u \in Users, EditBlock(u)
  PROVE  StateInv' /\ NoNewGenerator
<1> USE DEF EditBlock, StateInv, TypeOK
<1>1. PICK p : p = frame[u].block
  OBVIOUS
<1>2. u \in Agents /\ p \in Blocks
  BY <1>1, ThreadsAreAgents DEF Frames, FrameOK
<1> DEFINE b == [data |-> "edit", generated |-> TRUE, modified |-> TRUE]
<1>3. b \in Block /\ b # None
  <2>1. b \in Block
    BY DEF Block, Data
  <2> QED BY <2>1, NoneAssumption
<1> HIDE DEF b
<1>4. m_blocks' = m_blocks \/ m_blocks' = [m_blocks EXCEPT ![p] = b]
  BY <1>1 DEF b
<1>5. m_blocks' \in [Blocks -> Block \union {None}] /\ NothingErased
  BY <1>2, <1>3, <1>4 DEF NothingErased, IsLoaded
<1>6. edited' \subseteq Blocks
  BY <1>1, <1>2
<1>7. AgentsKept
  BY <1>2, <1>5, LeaveStep
<1> QED BY <1>5, <1>6, <1>7, KeptIsInvariant DEF chunkVars

(* Saving: the data of blocks that are there goes to the database.         *)
LEMMA SavingStep ==
  ASSUME StateInv, NEW saving \in SUBSET Blocks, \A p \in saving : IsLoaded(p),
         SavedFrom(saving), Clean(saving),
         UNCHANGED <<chunkVars, agentVars, erased, edited>>,
         blocks_delete' \subseteq Blocks
  PROVE  StateInv' /\ NoNewGenerator
<1> USE DEF StateInv, TypeOK
<1>1. ASSUME NEW p \in Blocks
      PROVE  /\ m_blocks'[p] \in Block \union {None}
             /\ IsLoaded(p) => m_blocks'[p] # None
             /\ database'[p] \in Data \union {None}
  <2>1. CASE p \notin saving
    BY <2>1 DEF SavedFrom, Clean, IsLoaded
  <2>2. CASE p \in saving
    <3>1. PICK b : b = [m_blocks[p] EXCEPT !.modified = FALSE]
      OBVIOUS
    <3>2. m_blocks[p] \in Block
      BY <2>2, LoadedIsBlock
    <3>3. b \in Block
      BY <3>1, <3>2 DEF Block
    <3>4. m_blocks'[p] = b /\ database'[p] = m_blocks[p].data
      BY <2>2, <3>1 DEF SavedFrom, Clean
    <3> QED BY <3>2, <3>3, <3>4, NoneAssumption DEF Block
  <2> QED BY <2>1, <2>2
<1>2. /\ m_blocks' = [p \in Blocks |-> m_blocks'[p]]
      /\ database' = [p \in Blocks |-> database'[p]]
  BY DEF SavedFrom, Clean
<1>3. /\ m_blocks' \in [Blocks -> Block \union {None}] /\ NothingErased
      /\ database' \in [Blocks -> Data \union {None}]
  BY <1>1, <1>2 DEF NothingErased, IsLoaded
<1>4. Frames'
  BY <1>3 DEF Frames, FrameOK, NothingErased, IsLoaded, agentVars
<1>5. ThreadsOK'
  BY DEF ThreadsOK, ThreadOK, agentVars
<1>6. NoNewGenerator
  BY DEF NoNewGenerator, Generating, agentVars, chunkVars
<1> QED BY <1>3, <1>4, <1>5, <1>6 DEF agentVars, chunkVars

(* Who holds the block that is erased holds a stale one from now on.       *)
LEMMA EraseBlockStep ==
  ASSUME StateInv, NEW p \in Blocks, EraseBlock(p)
  PROVE  StateInv' /\ NoNewGenerator
<1> USE DEF EraseBlock, StateInv, TypeOK
<1>1. ASSUME NEW a \in Agents
      PROVE  /\ frame'[a] \in Frame
             /\ frame'[a].pos = frame[a].pos /\ frame'[a].block = frame[a].block
             /\ frame'[a].caller = frame[a].caller /\ frame'[a].data = frame[a].data
             /\ frame'[a].held = "live" => frame[a].held = "live" /\ frame[a].block # p
  <2>1. CASE frame[a].block = p /\ frame[a].held = "live"
    <3>1. frame'[a] = [frame[a] EXCEPT !.held = "stale"]
      BY <2>1
    <3>2. frame[a] \in Frame
      OBVIOUS
    <3> QED BY <3>1, <3>2 DEF Frame, Handles
  <2>2. CASE ~(frame[a].block = p /\ frame[a].held = "live")
    BY <2>2
  <2> QED BY <2>1, <2>2
<1>2. frame' = [a \in Agents |-> frame'[a]]
  OBVIOUS
<1>3. frame' \in [Agents -> Frame]
  BY <1>1, <1>2
<1>4. Frames'
  BY <1>1 DEF Frames, FrameOK, IsLoaded, Frame
<1>5. ThreadsOK'
  BY <1>1, ThreadsAreAgents DEF ThreadsOK, ThreadOK
<1>6. NoNewGenerator
  BY <1>1, ThreadsAreAgents DEF NoNewGenerator, Generating, chunkVars
<1> QED BY <1>3, <1>4, <1>5, <1>6 DEF chunkVars

LEMMA MapThreadStep ==
  ASSUME StateInv, MapThread
  PROVE  StateInv' /\ NoNewGenerator
<1>1. CASE TimerUpdate
  <2>1. PICK S \in SUBSET {p \in Blocks : IsLoaded(p) /\ (Generated(p) => MayUnload)} \ {{}} :
          /\ blocks_delete' = S
          /\ SavedFrom({p \in S : Modified(p)}) /\ Clean({p \in S : Modified(p)})
    BY <1>1 DEF TimerUpdate
  <2>2. PICK saving : saving = {p \in S : Modified(p)}
    OBVIOUS
  <2>3. saving \in SUBSET Blocks /\ (\A p \in saving : IsLoaded(p)) /\ blocks_delete' \subseteq Blocks
    BY <2>1, <2>2
  <2> QED BY <1>1, <2>1, <2>2, <2>3, SavingStep DEF TimerUpdate
<1>2. ASSUME NEW p \in Blocks, EraseBlock(p) PROVE StateInv' /\ NoNewGenerator
  BY <1>2, EraseBlockStep
<1>3. ASSUME NEW p \in Blocks, Save(p) PROVE StateInv' /\ NoNewGenerator
  <2>1. IsLoaded(p) /\ blocks_delete' \subseteq Blocks
    BY <1>3 DEF Save, Modified, Generated, unloadVars, StateInv, TypeOK
  <2> QED BY <1>3, <2>1, SavingStep DEF Save, unloadVars
<1> QED BY <1>1, <1>2, <1>3 DEF MapThread

-----------------------------------------------------------------------------
LEMMA MapInit == Init => MapInv
<1> SUFFICES ASSUME Init PROVE MapInv
  OBVIOUS
<1> USE DEF Init
<1>1. TypeOK
  BY NoFrameTyped DEF TypeOK, NoManip, Places, Data
<1>2. Frames
  BY DEF Frames, FrameOK, NoFrame
<1>3. ThreadsOK
  BY ThreadsAreAgents DEF ThreadsOK, ThreadOK, OwnPlaces, NoFrame
<1>4. Claimed /\ OneGenerator
  BY ThreadsAreAgents DEF Claimed, OneGenerator, Generating
<1> QED BY <1>1, <1>2, <1>3, <1>4 DEF MapInv, StateInv

LEMMA MapStep == MapInv /\ [Next]_vars => MapInv'
<1> SUFFICES ASSUME MapInv, [Next]_vars PROVE MapInv'
  OBVIOUS
<1>1. ASSUME StateInv' /\ NoNewGenerator
      PROVE  MapInv'
  BY <1>1, ClaimsKept DEF MapInv
<1>2. ASSUME NEW a \in Agents, Load(a) PROVE MapInv'
  BY <1>1, <1>2, LoadStep DEF MapInv
<1>3. ASSUME NEW t \in Threads, EmergeThread(t, Blocks) PROVE MapInv'
  BY <1>3, EmergeThreadStep
<1>4. ASSUME NEW u \in Users, EditBlock(u) PROVE MapInv'
  BY <1>1, <1>4, EditBlockStep DEF MapInv
<1>5. ASSUME NEW u \in Users, NEW p \in Blocks, UseBlock(u, p) PROVE MapInv'
  BY <1>1, <1>5, UseBlockStep DEF MapInv
<1>6. CASE MapThread
  BY <1>1, <1>6, MapThreadStep DEF MapInv
<1>7. CASE UNCHANGED vars
  BY <1>7 DEF MapInv, StateInv, TypeOK, Frames, FrameOK, ThreadsOK, ThreadOK, Claimed,
              OneGenerator, Generating, ChunkOfRequest, IsLoaded, vars, mapVars,
              chunkVars, agentVars, unloadVars
<1> QED BY <1>2, <1>3, <1>4, <1>5, <1>6, <1>7 DEF Next, NextOf

LEMMA MapInvariant == Spec => []MapInv
BY MapInit, MapStep, PTL DEF Spec

(* Every variable of the map keeps its type: no thread works with a block  *)
(* it did not get, and data is copied only from and to where there is some.*)
THEOREM TypeCorrect == Spec => []TypeOK
<1>1. MapInv => TypeOK
  BY DEF MapInv, StateInv
<1> QED BY <1>1, MapInvariant, PTL

(* initBlockMake() and finishBlockMake() let no two threads generate one   *)
(* chunk, although the environment lock they are called under does nothing,*)
(* and although chunks are left in m_chunks_in_progress for ever.          *)
THEOREM OneGeneratorCorrect == Spec => []OneGenerator
<1>1. MapInv => OneGenerator
  BY DEF MapInv
<1> QED BY <1>1, MapInvariant, PTL

-----------------------------------------------------------------------------
(* One emerge thread.  While it copies a generated chunk back, whatever of *)
(* the chunk is in memory without content is left to do, and the block at  *)
(* hand has content, or is in its hands.                                   *)
BlankIn(p) == IsLoaded(p) /\ m_blocks[p].data = "blank"

Filling(t) ==
  \/ at[t] = "blit"
  \/ at[t] \in {"read", "load", "insert", "reset", "blank", "copy"} /\ frame[t].caller = "blit"

(* It has a block of its area at hand.                                     *)
AtHand(t, p) == at[t] # "blit" /\ p = frame[t].block

ChunkFilled(t) == \A p \in Blocks : ChunkOf[p] = ChunkOfRequest(t) =>
  /\ p \in todo[t] => vmanip[t][p] # "blank"
  /\ BlankIn(p) => /\ p \in todo[t]
                   /\ AtHand(t, p) => at[t] = "copy" /\ frame[t].held = "live"

FillOK(t) == Filling(t) =>
  (at[t] # "blit" => frame[t].block \in todo[t]) /\ ChunkFilled(t)

(* No block without content is marked, saved or read.                      *)
ContentOK ==
  /\ \A p \in Blocks : (Generated(p) => m_blocks[p].data # "blank") /\ database[p] # "blank"
  /\ \A a \in Agents : frame[a].data # "blank"
  /\ \A u \in Users : frame[u].caller \in {"none", "user"} /\ at[u] # "blank"

(* What the thread does with a block, and the map meanwhile.               *)
NoNewBlank == \A p \in Blocks : BlankIn(p)' => BlankIn(p)

SameWork(t) ==
  /\ Filling(t) /\ (at'[t] = "blit" <=> at[t] = "blit")
  /\ todo'[t] = todo[t] /\ vmanip'[t] = vmanip[t] /\ frame'[t].pos = frame[t].pos
  /\ at[t] # "blit" => frame'[t].block = frame[t].block

LEMMA WorkKept ==
  ASSUME NEW t \in Threads, FillOK(t), Filling(t)' => SameWork(t),
         \A p \in Blocks :
           (Filling(t)' /\ ChunkOf[p] = ChunkOfRequest(t) /\ BlankIn(p)') =>
           /\ BlankIn(p) \/ AtHand(t, p)
           /\ AtHand(t, p) => at'[t] = "copy" /\ frame'[t].held = "live"
  PROVE  FillOK(t)'
<1> SUFFICES ASSUME Filling(t)'
             PROVE  (at'[t] # "blit" => frame'[t].block \in todo'[t]) /\ ChunkFilled(t)'
  BY DEF FillOK
<1>1. at'[t] # "blit" => frame'[t].block \in todo'[t]
  BY DEF FillOK, SameWork
<1>2. ASSUME NEW p \in Blocks, ChunkOf[p] = ChunkOfRequest(t)'
      PROVE  /\ p \in todo'[t] => vmanip'[t][p] # "blank"
             /\ BlankIn(p)' => /\ p \in todo'[t]
                               /\ AtHand(t, p)' => at'[t] = "copy" /\ frame'[t].held = "live"
  <2>1. ChunkOf[p] = ChunkOfRequest(t) /\ (AtHand(t, p)' <=> AtHand(t, p))
    BY <1>2 DEF ChunkOfRequest, SameWork, AtHand
  <2>2. AtHand(t, p) => p \in todo[t]
    BY DEF AtHand, FillOK, SameWork
  <2>3. /\ p \in todo[t] => vmanip[t][p] # "blank"
        /\ BlankIn(p) => p \in todo[t]
    BY <2>1 DEF FillOK, ChunkFilled, SameWork
  <2> QED BY <2>1, <2>2, <2>3 DEF SameWork
<1> QED BY <1>1, <1>2 DEF ChunkFilled

(* Somebody else's step.                                                   *)
LEMMA OthersKeep ==
  ASSUME NEW t \in Threads, FillOK(t), at'[t] = at[t], frame'[t] = frame[t],
         todo'[t] = todo[t], vmanip'[t] = vmanip[t], NoNewBlank
  PROVE  FillOK(t)'
<1>1. Filling(t)' => SameWork(t)
  BY DEF Filling, SameWork
<1>2. ASSUME NEW p \in Blocks, Filling(t)', ChunkOf[p] = ChunkOfRequest(t), BlankIn(p)'
      PROVE  /\ BlankIn(p) \/ AtHand(t, p)
             /\ AtHand(t, p) => at'[t] = "copy" /\ frame'[t].held = "live"
  <2>1. BlankIn(p) /\ Filling(t)
    BY <1>1, <1>2 DEF NoNewBlank, SameWork
  <2>2. AtHand(t, p) => at[t] = "copy" /\ frame[t].held = "live"
    BY <1>2, <2>1 DEF FillOK, ChunkFilled
  <2> QED BY <2>1, <2>2
<1> QED BY <1>1, <1>2, WorkKept

(* The thread's own step in emergeBlockPtr(), on a block that has content. *)
LEMMA OwnKeeps ==
  ASSUME NEW t \in Threads, FillOK(t), at[t] \notin {"blit", "copy"}, NoNewBlank,
         Filling(t)' => SameWork(t)
  PROVE  FillOK(t)'
<1>1. ASSUME NEW p \in Blocks, Filling(t)', ChunkOf[p] = ChunkOfRequest(t), BlankIn(p)'
      PROVE  /\ BlankIn(p) \/ AtHand(t, p)
             /\ AtHand(t, p) => at'[t] = "copy" /\ frame'[t].held = "live"
  <2>1. BlankIn(p) /\ Filling(t)
    BY <1>1 DEF NoNewBlank, SameWork
  <2>2. ~ AtHand(t, p)
    BY <1>1, <2>1 DEF FillOK, ChunkFilled
  <2> QED BY <2>1, <2>2
<1> QED BY <1>1, WorkKept

OnlyAgent(a) == \A b \in Agents : b # a => at'[b] = at[b] /\ frame'[b] = frame[b]

LEMMA NoneIsNoData ==
  /\ None \notin Data /\ None # "blank" /\ None \notin Block
  /\ NoFrame.data = None /\ NoFrame.caller = "none"
BY NoneAssumption DEF Data, NoFrame

(* A step of one agent, or of none, that keeps the contents.               *)
LEMMA AgentFill ==
  ASSUME MapInv, ContentOK, NEW t \in Threads, FillOK(t), NEW a \in Agents, OnlyAgent(a),
         \A p \in Blocks : (Generated(p)' => m_blocks'[p].data # "blank") /\ database'[p] # "blank",
         NoNewBlank, UNCHANGED vmanip, frame'[a].data # "blank",
         a \in Users => frame'[a].caller \in {"none", "user"} /\ at'[a] # "blank" /\ todo' = todo,
         a = t => at[t] \notin {"blit", "copy"} /\ (Filling(t)' => SameWork(t)),
         Threads = {t}
  PROVE  ContentOK' /\ FillOK(t)'
<1>1. ContentOK'
  BY ThreadsAreAgents DEF ContentOK, OnlyAgent
<1>2. CASE a = t
  BY <1>1, <1>2, OwnKeeps
<1>3. CASE a # t
  <2>1. at'[t] = at[t] /\ frame'[t] = frame[t] /\ todo' = todo
    BY <1>3 DEF OnlyAgent, Agents
  <2> QED BY <1>1, <2>1, OthersKeep
<1> QED BY <1>1, <1>2, <1>3

(* emergeBlockPtr() returns.                                               *)
LEMMA GotFill ==
  ASSUME MapInv, NEW a \in Agents, NEW caller, NEW p, NEW held, Got(a, caller, p, held),
         a \in Users => caller = "user", UNCHANGED vmanip
  PROVE  /\ OnlyAgent(a) /\ frame'[a].data # "blank"
         /\ a \in Users => frame'[a].caller \in {"none", "user"} /\ at'[a] # "blank" /\ todo' = todo
         /\ a \in Threads /\ Filling(a)' =>
              /\ caller = "blit" /\ at'[a] = "copy" /\ todo' = todo
              /\ frame'[a].block = p /\ frame'[a].held = held /\ frame'[a].pos = frame[a].pos
<1> USE NoneIsNoData
<1>1. at \in [Agents -> Places] /\ frame \in [Agents -> Frame] /\ Threads \intersect Users = {}
  BY MapAssumption DEF MapInv, StateInv, TypeOK
<1>2. CASE Leave(a)
  <2>1. /\ at'[a] = "idle" /\ frame'[a] = NoFrame /\ OnlyAgent(a)
    BY <1>1, <1>2 DEF Leave, OnlyAgent
  <2>2. a \in Users => todo' = todo
    BY <1>1 DEF Got
  <2> QED BY <2>1, <2>2 DEF Filling
<1>3. CASE caller = "init" /\ ~ Leave(a)
  <2> DEFINE f == [NoFrame EXCEPT !.pos = frame[a].pos]
  <2>1. at' = [at EXCEPT ![a] = "create"] /\ frame' = [frame EXCEPT ![a] = f]
    BY <1>3 DEF Got, Goto
  <2>2. f.data = None
    BY DEF NoFrame
  <2> HIDE DEF f
  <2>3. at'[a] = "create" /\ frame'[a] = f /\ OnlyAgent(a)
    BY <1>1, <2>1 DEF OnlyAgent
  <2>4. a \notin Users
    BY <1>3
  <2> QED BY <2>2, <2>3, <2>4 DEF Filling
<1>4. CASE caller = "blit" /\ ~ Leave(a)
  <2> DEFINE f == [NoFrame EXCEPT !.pos = frame[a].pos, !.block = p, !.caller = caller,
                                  !.held = held]
  <2>1. at' = [at EXCEPT ![a] = "copy"] /\ frame' = [frame EXCEPT ![a] = f] /\ todo' = todo
    BY <1>4 DEF Got, Goto
  <2>2. f.data = None /\ f.block = p /\ f.held = held /\ f.pos = frame[a].pos
    BY DEF NoFrame
  <2> HIDE DEF f
  <2>3. at'[a] = "copy" /\ frame'[a] = f /\ OnlyAgent(a)
    BY <1>1, <2>1 DEF OnlyAgent
  <2>4. a \notin Users
    BY <1>4
  <2> QED BY <1>4, <2>1, <2>2, <2>3, <2>4
<1>5. CASE caller = "user" /\ ~ Leave(a)
  <2> DEFINE f == [NoFrame EXCEPT !.block = p, !.caller = "user", !.held = held]
  <2>1. at' = [at EXCEPT ![a] = "holding"] /\ frame' = [frame EXCEPT ![a] = f] /\ todo' = todo
    BY <1>5 DEF Got, Hold, Goto
  <2>2. f.data = None /\ f.caller = "user"
    BY DEF NoFrame
  <2> HIDE DEF f
  <2>3. at'[a] = "holding" /\ frame'[a] = f /\ OnlyAgent(a)
    BY <1>1, <2>1 DEF OnlyAgent
  <2> QED BY <2>1, <2>2, <2>3 DEF Filling
<1>6. caller \in {"load", "init", "blit", "user"} /\ (caller = "load" => Leave(a))
  BY DEF Got
<1> QED BY <1>2, <1>3, <1>4, <1>5, <1>6

(* Steps in emergeBlockPtr(), that say what becomes of m_blocks.           *)
LEMMA GotKeeps ==
  ASSUME MapInv, ContentOK, NEW t, Threads = {t}, FillOK(t), NEW a \in Agents, NEW held,
         GotBlock(a, held), UNCHANGED <<database, vmanip>>,
         \A p \in Blocks : Generated(p)' => m_blocks'[p].data # "blank",
         NoNewBlank, at[a] \in {"read", "load", "insert", "reset"}
  PROVE  ContentOK' /\ FillOK(t)'
<1>1. Got(a, frame[a].caller, frame[a].block, held)
  BY DEF GotBlock
<1>2. a \in Users => frame[a].caller = "user"
  BY <1>1 DEF ContentOK, Got
<1>3. /\ OnlyAgent(a) /\ frame'[a].data # "blank"
      /\ a \in Users => frame'[a].caller \in {"none", "user"} /\ at'[a] # "blank" /\ todo' = todo
      /\ a \in Threads /\ Filling(a)' =>
           /\ frame[a].caller = "blit" /\ at'[a] = "copy" /\ todo' = todo
           /\ frame'[a].block = frame[a].block /\ frame'[a].pos = frame[a].pos
  BY <1>1, <1>2, GotFill
<1>4. a = t /\ Filling(t)' => SameWork(t)
  BY <1>3 DEF SameWork, Filling
<1>5. \A p \in Blocks : (Generated(p)' => m_blocks'[p].data # "blank") /\ database'[p] # "blank"
  BY DEF ContentOK
<1> QED BY <1>3, <1>4, <1>5, AgentFill

LEMMA ReadFill ==
  ASSUME MapInv, ContentOK, NEW t, Threads = {t}, FillOK(t), NEW a \in Agents, ReadDatabase(a)
  PROVE  ContentOK' /\ FillOK(t)'
<1>1. /\ at[a] = "read" /\ frame[a].block \in Blocks
      /\ at \in [Agents -> Places] /\ frame \in [Agents -> Frame]
  BY DEF ReadDatabase, MapInv, StateInv, TypeOK, Frames, FrameOK
<1>2. /\ UNCHANGED <<m_blocks, database, todo, vmanip>>
      /\ frame' = [frame EXCEPT ![a].data = database[frame[a].block]]
      /\ at' = [at EXCEPT ![a] = IF frame[a].caller = "load" THEN "second" ELSE "load"]
  BY DEF ReadDatabase, mapVars, Goto
<1>3. /\ frame'[a].data = database[frame[a].block] /\ frame'[a].block = frame[a].block
      /\ frame'[a].caller = frame[a].caller /\ frame'[a].pos = frame[a].pos
      /\ at'[a] \in {"second", "load"} /\ (at'[a] = "load" => frame[a].caller # "load")
      /\ OnlyAgent(a)
  BY <1>1, <1>2 DEF OnlyAgent, Frame
<1>4. NoNewBlank /\ \A p \in Blocks : (Generated(p)' => m_blocks'[p].data # "blank")
                                     /\ database'[p] # "blank"
  BY <1>2 DEF NoNewBlank, BlankIn, IsLoaded, ContentOK, Generated
<1>5. a = t /\ Filling(t)' => SameWork(t)
  BY <1>1, <1>2, <1>3 DEF SameWork, Filling
<1>6. /\ frame'[a].data # "blank"
      /\ a \in Users => frame'[a].caller \in {"none", "user"} /\ at'[a] # "blank" /\ todo' = todo
  BY <1>1, <1>2, <1>3 DEF ContentOK
<1> QED BY <1>1, <1>2, <1>3, <1>4, <1>5, <1>6, AgentFill

LEMMA LoadBlockFill ==
  ASSUME MapInv, ContentOK, NEW t, Threads = {t}, FillOK(t), NEW a \in Agents, LoadBlock(a)
  PROVE  ContentOK' /\ FillOK(t)'
<1>1. /\ at[a] = "load" /\ frame[a].block \in Blocks
      /\ at \in [Agents -> Places] /\ frame \in [Agents -> Frame]
      /\ UNCHANGED <<database, vmanip>>
      /\ m_blocks \in [Blocks -> Block \union {None}]
  BY DEF LoadBlock, MapInv, StateInv, TypeOK, Frames, FrameOK
<1>2. PICK held \in Cached(frame[a].block) :
       \/ /\ ~HasData(a) /\ held = "none" /\ Missed(a)
          /\ UNCHANGED <<m_blocks, todo>>
       \/ /\ ~HasData(a) /\ held # "none" /\ GotBlock(a, held)
          /\ UNCHANGED m_blocks
       \/ /\ HasData(a) /\ held # "none" /\ Deserialize(a, held)
          /\ UNCHANGED todo
       \/ /\ HasData(a) /\ held = "none" /\ Goto(a, "insert")
          /\ UNCHANGED <<m_blocks, frame, todo>>
  BY DEF LoadBlock
<1>3. ASSUME UNCHANGED m_blocks
      PROVE  /\ NoNewBlank
             /\ \A p \in Blocks : (Generated(p)' => m_blocks'[p].data # "blank")
             /\ \A p \in Blocks : database'[p] # "blank"
  BY <1>1, <1>3 DEF NoNewBlank, BlankIn, IsLoaded, ContentOK, Generated
<1>4. CASE Missed(a) /\ UNCHANGED <<m_blocks, todo>>
  <2>1. CASE Leave(a)
    <3>1. at'[a] = "idle" /\ frame'[a] = NoFrame /\ OnlyAgent(a)
      BY <1>1, <2>1 DEF Leave, OnlyAgent
    <3>2. ~ (a = t /\ Filling(t)')
      BY <3>1 DEF Filling
    <3>3. frame'[a].data # "blank" /\ frame'[a].caller \in {"none", "user"}
      BY <3>1, NoneIsNoData
    <3> QED BY <1>1, <1>3, <1>4, <3>1, <3>2, <3>3, AgentFill
  <2>2. CASE ~ Leave(a)
    <3>1. /\ at'[a] = "blank" /\ frame' = frame /\ OnlyAgent(a)
      BY <1>1, <1>4, <2>2 DEF Missed, Goto, OnlyAgent
    <3>2. a = t /\ Filling(t)' => SameWork(t)
      BY <1>1, <1>4, <3>1 DEF Filling, SameWork
    <3>3. /\ frame'[a].data # "blank"
          /\ a \in Users => frame'[a].caller \in {"none", "user"} /\ at'[a] # "blank"
      BY <1>4, <2>2, <3>1 DEF ContentOK, Missed
    <3> QED BY <1>1, <1>3, <1>4, <3>1, <3>2, <3>3, AgentFill
  <2> QED BY <2>1, <2>2
<1>5. CASE GotBlock(a, held) /\ UNCHANGED m_blocks
  BY <1>1, <1>3, <1>5, GotKeeps
<1>6. CASE HasData(a) /\ Deserialize(a, held) /\ UNCHANGED todo
  <2>1. /\ at'[a] = "reset" /\ OnlyAgent(a)
        /\ frame'[a].data = frame[a].data /\ frame'[a].block = frame[a].block
        /\ frame'[a].caller = frame[a].caller /\ frame'[a].pos = frame[a].pos
    BY <1>1, <1>6 DEF Deserialize, Goto, OnlyAgent, Frame
  <2>2. a = t /\ Filling(t)' => SameWork(t)
    BY <1>1, <1>6, <2>1 DEF Filling, SameWork
  <2>3. frame[a].data # "blank"
    BY DEF ContentOK
  <2>4. \A p \in Blocks :
          \/ m_blocks'[p] = m_blocks[p]
          \/ /\ IsLoaded(p) /\ m_blocks'[p].data # "blank" /\ m_blocks'[p] # None
    <3>1. held = "live" => IsLoaded(frame[a].block)
      BY HandlesTyped
    <3>2. CASE held = "live"
      <4> DEFINE b == [m_blocks[frame[a].block] EXCEPT !.data = frame[a].data, !.generated = TRUE]
      <4>1. m_blocks' = [m_blocks EXCEPT ![frame[a].block] = b]
        BY <1>6, <3>2 DEF Deserialize
      <4>2. m_blocks[frame[a].block] \in Block /\ frame[a].data \in Data
        BY <1>1, <1>6, <3>1, <3>2 DEF IsLoaded, HasData, Frame
      <4>3. b \in Block /\ b.data = frame[a].data
        BY <4>2 DEF Block
      <4> HIDE DEF b
      <4> QED BY <1>1, <2>3, <3>1, <3>2, <4>1, <4>3, NoneIsNoData
    <3>3. CASE held # "live"
      BY <1>6, <3>3 DEF Deserialize
    <3> QED BY <3>2, <3>3
  <2>5. NoNewBlank /\ \A p \in Blocks : (Generated(p)' => m_blocks'[p].data # "blank")
    BY <2>4 DEF NoNewBlank, BlankIn, IsLoaded, ContentOK, Generated
  <2>6. /\ frame'[a].data # "blank"
        /\ a \in Users => frame'[a].caller \in {"none", "user"} /\ at'[a] # "blank"
    BY <2>1 DEF ContentOK
  <2>7. \A p \in Blocks : database'[p] # "blank"
    BY <1>1 DEF ContentOK
  <2> QED BY <1>1, <1>6, <2>1, <2>2, <2>5, <2>6, <2>7, AgentFill
<1>7. CASE HasData(a) /\ Goto(a, "insert") /\ UNCHANGED <<m_blocks, frame, todo>>
  <2>1. /\ at'[a] = "insert" /\ frame' = frame /\ OnlyAgent(a)
    BY <1>1, <1>7 DEF Goto, OnlyAgent
  <2>2. a = t /\ Filling(t)' => SameWork(t)
    BY <1>1, <1>7, <2>1 DEF Filling, SameWork
  <2>3. /\ frame'[a].data # "blank"
        /\ a \in Users => frame'[a].caller \in {"none", "user"} /\ at'[a] # "blank"
    BY <2>1 DEF ContentOK
  <2> QED BY <1>1, <1>3, <1>7, <2>1, <2>2, <2>3, AgentFill
<1> QED BY <1>2, <1>4, <1>5, <1>6, <1>7

LEMMA InsertFill ==
  ASSUME MapInv, ContentOK, NEW t, Threads = {t}, FillOK(t), NEW a \in Agents, InsertBlock(a)
  PROVE  ContentOK' /\ FillOK(t)'
<1>1. /\ at[a] = "insert" /\ frame[a].block \in Blocks
      /\ at \in [Agents -> Places] /\ frame \in [Agents -> Frame]
      /\ at' = [at EXCEPT ![a] = "reset"] /\ UNCHANGED <<database, vmanip, todo>>
      /\ m_blocks \in [Blocks -> Block \union {None}]
  BY DEF InsertBlock, Goto, MapInv, StateInv, TypeOK, Frames, FrameOK
<1>2. PICK held \in {"stale", "live"} : frame' = [frame EXCEPT ![a].held = held]
  BY DEF InsertBlock
<1>3. /\ at'[a] = "reset" /\ OnlyAgent(a)
      /\ frame'[a].data = frame[a].data /\ frame'[a].block = frame[a].block
      /\ frame'[a].caller = frame[a].caller /\ frame'[a].pos = frame[a].pos
  BY <1>1, <1>2 DEF OnlyAgent, Frame
<1>4. frame[a].data # "blank"
  BY DEF ContentOK
<1>5. \A p \in Blocks : m_blocks'[p] = m_blocks[p] \/ m_blocks'[p].data # "blank"
  <2> DEFINE b == [data |-> frame[a].data, generated |-> TRUE, modified |-> FALSE]
  <2>1. m_blocks' = m_blocks \/ m_blocks' = [m_blocks EXCEPT ![frame[a].block] = b]
    BY DEF InsertBlock
  <2>2. b.data # "blank"
    BY <1>4
  <2> HIDE DEF b
  <2> QED BY <1>1, <2>1, <2>2
<1>6. NoNewBlank /\ \A p \in Blocks : (Generated(p)' => m_blocks'[p].data # "blank")
                                     /\ database'[p] # "blank"
  BY <1>1, <1>5 DEF NoNewBlank, BlankIn, IsLoaded, ContentOK, Generated
<1>7. a = t /\ Filling(t)' => SameWork(t)
  BY <1>1, <1>3 DEF Filling, SameWork
<1>8. /\ frame'[a].data # "blank"
      /\ a \in Users => frame'[a].caller \in {"none", "user"} /\ at'[a] # "blank"
  BY <1>3 DEF ContentOK
<1> QED BY <1>1, <1>3, <1>6, <1>7, <1>8, AgentFill

(* Blocks whose data and mark stay.                                        *)
SameContents == \A p \in Blocks :
  \/ m_blocks'[p] = m_blocks[p]
  \/ /\ IsLoaded(p) /\ m_blocks'[p].data = m_blocks[p].data
     /\ m_blocks'[p].generated = m_blocks[p].generated

LEMMA SameContentsFill ==
  ASSUME ContentOK, SameContents
  PROVE  NoNewBlank /\ \A p \in Blocks : Generated(p)' => m_blocks'[p].data # "blank"
BY DEF SameContents, NoNewBlank, BlankIn, IsLoaded, ContentOK, Generated

LEMMA ResetFill ==
  ASSUME MapInv, ContentOK, NEW t, Threads = {t}, FillOK(t), NEW a \in Agents, ResetModified(a)
  PROVE  ContentOK' /\ FillOK(t)'
<1>1. /\ at[a] = "reset" /\ GotBlock(a, frame[a].held) /\ UNCHANGED <<database, vmanip>>
      /\ frame[a].block \in Blocks /\ (frame[a].held = "live" => IsLoaded(frame[a].block))
      /\ m_blocks \in [Blocks -> Block \union {None}]
  BY DEF ResetModified, MapInv, StateInv, TypeOK, Frames, FrameOK
<1>2. SameContents
  <2>1. CASE frame[a].held # "live"
    BY <2>1 DEF ResetModified, SameContents
  <2>2. CASE frame[a].held = "live"
    <3> DEFINE b == [m_blocks[frame[a].block] EXCEPT !.modified = FALSE]
    <3>1. m_blocks' = [m_blocks EXCEPT ![frame[a].block] = b]
      BY <2>2 DEF ResetModified
    <3>2. b.data = m_blocks[frame[a].block].data
          /\ b.generated = m_blocks[frame[a].block].generated
      <4>1. m_blocks[frame[a].block] \in Block
        BY <1>1, <2>2 DEF IsLoaded
      <4> QED BY <4>1 DEF Block
    <3> HIDE DEF b
    <3> QED BY <1>1, <2>2, <3>1, <3>2 DEF SameContents
  <2> QED BY <2>1, <2>2
<1> QED BY <1>1, <1>2, SameContentsFill, GotKeeps

(* A new block has no content, and is in the hands of its maker.           *)
LEMMA CreateBlankFill ==
  ASSUME MapInv, ContentOK, NEW t, Threads = {t}, FillOK(t), NEW a \in Agents, CreateBlankBlock(a)
  PROVE  ContentOK' /\ FillOK(t)'
<1>1. /\ at[a] = "blank" /\ Got(a, frame[a].caller, frame[a].block, "live")
      /\ UNCHANGED <<database, vmanip>> /\ frame[a].block \in Blocks
      /\ m_blocks \in [Blocks -> Block \union {None}]
      /\ m_blocks' = IF IsLoaded(frame[a].block) THEN m_blocks
                     ELSE [m_blocks EXCEPT ![frame[a].block] = Blank]
  BY DEF CreateBlankBlock, GotBlock, MapInv, StateInv, TypeOK, Frames, FrameOK
<1>2. a = t
  BY <1>1 DEF ContentOK, Agents
<1>3. /\ OnlyAgent(a) /\ frame'[a].data # "blank"
      /\ a \in Threads /\ Filling(a)' =>
           /\ frame[a].caller = "blit" /\ at'[a] = "copy" /\ todo' = todo
           /\ frame'[a].block = frame[a].block /\ frame'[a].held = "live"
           /\ frame'[a].pos = frame[a].pos
  <2>1. a \in Users => frame[a].caller = "user"
    BY <1>1 DEF ContentOK
  <2> QED BY <1>1, <2>1, GotFill
<1>4. a \notin Users
  BY <1>2, MapAssumption
<1>5. ContentOK'
  <2>1. \A p \in Blocks : m_blocks'[p] = m_blocks[p] \/ m_blocks'[p] = Blank
    BY <1>1
  <2>2. Blank.generated = FALSE
    BY DEF Blank
  <2>3. \A p \in Blocks : Generated(p)' => m_blocks'[p].data # "blank"
    BY <2>1, <2>2 DEF ContentOK, Generated, IsLoaded
  <2> QED BY <1>1, <1>3, <1>4, <2>3, ThreadsAreAgents DEF ContentOK, OnlyAgent
<1>6. \A p \in Blocks : BlankIn(p)' => BlankIn(p) \/ p = frame[t].block
  BY <1>1, <1>2 DEF BlankIn, IsLoaded
<1>7. Filling(t)' => SameWork(t)
  BY <1>1, <1>2, <1>3 DEF Filling, SameWork
<1>8. FillOK(t)'
  <2>1. ASSUME NEW p \in Blocks, Filling(t)', BlankIn(p)'
        PROVE  /\ BlankIn(p) \/ AtHand(t, p)
               /\ AtHand(t, p) => at'[t] = "copy" /\ frame'[t].held = "live"
    BY <1>1, <1>2, <1>3, <1>6, <2>1 DEF AtHand
  <2> QED BY <1>7, <2>1, WorkKept
<1> QED BY <1>5, <1>8

LEMMA LoadFill ==
  ASSUME MapInv, ContentOK, NEW t, Threads = {t}, FillOK(t), NEW a \in Agents, Load(a)
  PROVE  ContentOK' /\ FillOK(t)'
BY ReadFill, LoadBlockFill, InsertFill, ResetFill, CreateBlankFill DEF Load

(* A user takes a block, or gives it back changed.                         *)
LEMMA UseFill ==
  ASSUME MapInv, ContentOK, NEW t, Threads = {t}, FillOK(t), NEW u \in Users,
         NEW p \in Blocks, UseBlock(u, p)
  PROVE  ContentOK' /\ FillOK(t)'
<1>1. /\ at \in [Agents -> Places] /\ frame \in [Agents -> Frame] /\ u \in Agents /\ u # t
      /\ at[u] = "idle" /\ UNCHANGED <<m_blocks, database, vmanip>>
  BY ThreadsAreAgents, MapAssumption DEF MapInv, StateInv, TypeOK, UseBlock, mapVars
<1>2. /\ NoNewBlank
      /\ \A q \in Blocks : (Generated(q)' => m_blocks'[q].data # "blank") /\ database'[q] # "blank"
  BY <1>1 DEF NoNewBlank, BlankIn, IsLoaded, ContentOK, Generated
<1>3. ASSUME OnlyAgent(u), frame'[u].data # "blank", frame'[u].caller \in {"none", "user"},
             at'[u] # "blank", todo' = todo
      PROVE  ContentOK' /\ FillOK(t)'
  BY <1>1, <1>2, <1>3, AgentFill
<1>4. ASSUME NEW held, Got(u, "user", p, held) PROVE ContentOK' /\ FillOK(t)'
  BY <1>1, <1>3, <1>4, GotFill
<1>5. CASE /\ \E held \in Cached(p) \ {"none"} : Hold(u, p, held)
           /\ UNCHANGED todo
  BY <1>4, <1>5 DEF Got
<1>6. CASE EmergeBlock(u, p, "user")
  <2>1. CASE IsLoaded(p)
    BY <1>4, <1>6, <2>1 DEF EmergeBlock
  <2>2. CASE ~ IsLoaded(p)
    <3>1. /\ at' = [at EXCEPT ![u] = "read"] /\ todo' = todo
          /\ frame' = [frame EXCEPT ![u].block = p, ![u].caller = "user"]
      BY <1>6, <2>2 DEF EmergeBlock, Goto
    <3>2. /\ OnlyAgent(u) /\ frame'[u].data = frame[u].data /\ frame'[u].caller = "user"
          /\ at'[u] = "read"
      BY <1>1, <3>1 DEF OnlyAgent, Frame
    <3> QED BY <1>1, <1>3, <3>1, <3>2 DEF ContentOK
  <2> QED BY <2>1, <2>2
<1> QED BY <1>5, <1>6 DEF UseBlock

LEMMA EditFill ==
  ASSUME MapInv, ContentOK, NEW t, Threads = {t}, FillOK(t), NEW u \in Users, EditBlock(u)
  PROVE  ContentOK' /\ FillOK(t)'
<1>1. /\ at \in [Agents -> Places] /\ frame \in [Agents -> Frame] /\ u \in Agents /\ u # t
      /\ at[u] = "holding" /\ UNCHANGED <<database, vmanip, todo>> /\ Leave(u)
      /\ m_blocks \in [Blocks -> Block \union {None}]
  BY ThreadsAreAgents, MapAssumption DEF MapInv, StateInv, TypeOK, EditBlock
<1>2. /\ OnlyAgent(u) /\ frame'[u] = NoFrame /\ at'[u] = "idle"
  BY <1>1 DEF Leave, OnlyAgent
<1>3. \A p \in Blocks : m_blocks'[p] = m_blocks[p] \/ m_blocks'[p].data # "blank"
  <2> DEFINE b == [data |-> "edit", generated |-> TRUE, modified |-> TRUE]
  <2>1. m_blocks' = m_blocks \/ m_blocks' = [m_blocks EXCEPT ![frame[u].block] = b]
    BY DEF EditBlock
  <2>2. b.data # "blank"
    OBVIOUS
  <2> HIDE DEF b
  <2> QED BY <1>1, <2>1, <2>2
<1>4. NoNewBlank /\ \A p \in Blocks : (Generated(p)' => m_blocks'[p].data # "blank")
                                     /\ database'[p] # "blank"
  BY <1>1, <1>3 DEF NoNewBlank, BlankIn, IsLoaded, ContentOK, Generated
<1> QED BY <1>1, <1>2, <1>4, NoneIsNoData, AgentFill

-----------------------------------------------------------------------------
(* The map thread saves only what is marked, and erasing leaves no block   *)
(* without content behind.                                                 *)
LEMMA SavingFill ==
  ASSUME MapInv, ContentOK, NEW t, Threads = {t}, FillOK(t), NEW saving \in SUBSET Blocks,
         \A p \in saving : Modified(p), SavedFrom(saving), Clean(saving),
         UNCHANGED agentVars
  PROVE  ContentOK' /\ FillOK(t)'
<1>1. /\ UNCHANGED <<at, frame, todo, vmanip>> /\ m_blocks \in [Blocks -> Block \union {None}]
  BY DEF agentVars, MapInv, StateInv, TypeOK
<1>2. \A p \in saving : Generated(p) /\ IsLoaded(p) /\ m_blocks[p] \in Block
  BY <1>1 DEF Modified, Generated, IsLoaded
<1>3. SameContents
  <2>1. ASSUME NEW p \in saving
        PROVE  /\ m_blocks'[p].data = m_blocks[p].data
               /\ m_blocks'[p].generated = m_blocks[p].generated
    <3> DEFINE b == [m_blocks[p] EXCEPT !.modified = FALSE]
    <3>1. m_blocks'[p] = b
      BY DEF Clean
    <3>2. b.data = m_blocks[p].data /\ b.generated = m_blocks[p].generated
      BY <1>2 DEF Block
    <3> QED BY <3>1, <3>2
  <2>2. \A p \in Blocks \ saving : m_blocks'[p] = m_blocks[p]
    BY DEF Clean
  <2> QED BY <1>2, <2>1, <2>2 DEF SameContents
<1>4. \A p \in Blocks : database'[p] # "blank"
  BY <1>2 DEF SavedFrom, ContentOK
<1>5. ContentOK'
  BY <1>1, <1>3, <1>4, SameContentsFill DEF ContentOK
<1> QED BY <1>1, <1>3, <1>5, SameContentsFill, OthersKeep

LEMMA EraseFill ==
  ASSUME MapInv, ContentOK, NEW t, Threads = {t}, FillOK(t), NEW q \in Blocks, EraseBlock(q)
  PROVE  ContentOK' /\ FillOK(t)'
<1>1. /\ frame \in [Agents -> Frame] /\ m_blocks \in [Blocks -> Block \union {None}]
      /\ m_blocks' = [m_blocks EXCEPT ![q] = None]
      /\ UNCHANGED <<database, at, todo, vmanip>> /\ t \in Agents
      /\ frame' = [a \in Agents |->
           IF frame[a].block = q /\ frame[a].held = "live"
           THEN [frame[a] EXCEPT !.held = "stale"] ELSE frame[a]]
  BY ThreadsAreAgents DEF EraseBlock, MapInv, StateInv, TypeOK
<1>2. \A a \in Agents :
        /\ frame'[a].data = frame[a].data /\ frame'[a].block = frame[a].block
        /\ frame'[a].caller = frame[a].caller /\ frame'[a].pos = frame[a].pos
        /\ frame[a].block # q => frame'[a] = frame[a]
  BY <1>1 DEF Frame
<1>3. \A p \in Blocks : IsLoaded(p)' => p # q /\ m_blocks'[p] = m_blocks[p]
  BY <1>1 DEF IsLoaded
<1>4. ContentOK'
  <2>1. \A p \in Blocks : Generated(p)' => m_blocks'[p].data # "blank"
    BY <1>3 DEF ContentOK, Generated, IsLoaded
  <2> QED BY <1>1, <1>2, <2>1, ThreadsAreAgents DEF ContentOK
<1>5. Filling(t)' => SameWork(t)
  BY <1>1, <1>2 DEF Filling, SameWork
<1>6. ASSUME NEW p \in Blocks, Filling(t)', ChunkOf[p] = ChunkOfRequest(t), BlankIn(p)'
      PROVE  /\ BlankIn(p) \/ AtHand(t, p)
             /\ AtHand(t, p) => at'[t] = "copy" /\ frame'[t].held = "live"
  <2>1. BlankIn(p) /\ p # q /\ Filling(t)
    BY <1>3, <1>5, <1>6 DEF BlankIn, IsLoaded, SameWork
  <2>2. AtHand(t, p) => at[t] = "copy" /\ frame[t].held = "live"
    BY <1>6, <2>1 DEF FillOK, ChunkFilled
  <2>3. AtHand(t, p) => frame'[t] = frame[t]
    BY <1>1, <1>2, <2>1 DEF AtHand
  <2> QED BY <1>1, <2>1, <2>2, <2>3
<1> QED BY <1>4, <1>5, <1>6, WorkKept

LEMMA MapThreadFill ==
  ASSUME MapInv, ContentOK, NEW t, Threads = {t}, FillOK(t), MapThread
  PROVE  ContentOK' /\ FillOK(t)'
<1>1. CASE TimerUpdate
  <2>1. PICK saving \in SUBSET Blocks :
          (\A p \in saving : Modified(p)) /\ SavedFrom(saving) /\ Clean(saving)
    BY <1>1 DEF TimerUpdate
  <2> QED BY <1>1, <2>1, SavingFill DEF TimerUpdate
<1>2. ASSUME NEW p \in Blocks, Save(p) PROVE ContentOK' /\ FillOK(t)'
  <2>1. PICK saving \in SUBSET Blocks : saving = {p}
    OBVIOUS
  <2>2. (\A q \in saving : Modified(q)) /\ SavedFrom(saving) /\ Clean(saving) /\ UNCHANGED agentVars
    BY <1>2, <2>1 DEF Save
  <2> QED BY <2>2, SavingFill
<1> QED BY <1>1, <1>2, EraseFill DEF MapThread

-----------------------------------------------------------------------------
(* The steps of the thread that leave the blocks alone, outside the loop   *)
(* that copies back.                                                       *)
LEMMA OutsideFill ==
  ASSUME ContentOK, NEW t, Threads = {t}, OnlyAgent(t), UNCHANGED <<m_blocks, database>>,
         frame'[t].data # "blank", ~ Filling(t)'
  PROVE  ContentOK' /\ FillOK(t)'
<1>1. FillOK(t)'
  BY DEF FillOK
<1>2. \A p \in Blocks : (Generated(p)' => m_blocks'[p].data # "blank") /\ database'[p] # "blank"
  BY DEF ContentOK, Generated, IsLoaded
<1>3. \A u \in Users : u # t
  BY MapAssumption
<1> QED BY <1>1, <1>2, <1>3, ThreadsAreAgents DEF ContentOK, OnlyAgent

LEMMA LeavesFill ==
  ASSUME MapInv, ContentOK, NEW t, Threads = {t}, Leave(t), UNCHANGED <<m_blocks, database>>
  PROVE  ContentOK' /\ FillOK(t)'
<1>1. at \in [Agents -> Places] /\ frame \in [Agents -> Frame] /\ t \in Agents
  BY ThreadsAreAgents DEF MapInv, StateInv, TypeOK
<1>2. OnlyAgent(t) /\ at'[t] = "idle" /\ frame'[t] = NoFrame
  BY <1>1 DEF Leave, OnlyAgent
<1> QED BY <1>2, NoneIsNoData, OutsideFill DEF Filling

(* From place to place, with the frame it had.                             *)
LEMMA GoesFill ==
  ASSUME MapInv, ContentOK, NEW t, Threads = {t}, NEW place, Goto(t, place), place # "blit",
         at[t] \in OwnPlaces, UNCHANGED <<frame, m_blocks, database>>
  PROVE  ContentOK' /\ FillOK(t)'
<1>1. at \in [Agents -> Places] /\ t \in Agents
  BY ThreadsAreAgents DEF MapInv, StateInv, TypeOK
<1>2. OnlyAgent(t) /\ at'[t] = place
  BY <1>1 DEF Goto, OnlyAgent
<1>3. frame[t].caller \in {"none", "load"} /\ frame[t].data # "blank"
  BY <1>1 DEF MapInv, StateInv, ThreadsOK, ThreadOK, ContentOK
<1>4. ~ Filling(t)'
  BY <1>2, <1>3 DEF Filling
<1> QED BY <1>2, <1>3, <1>4, OutsideFill

LEMMA AsideFill ==
  ASSUME MapInv, ContentOK, NEW t, Threads = {t}, FillOK(t),
         \/ \E p \in Blocks : Request(t, p)
         \/ getBlockOrStartGen(t) \/ StartGen(t) \/ EnterProcess(t)
         \/ EraseInProgress(t) \/ EraseProcess(t)
  PROVE  ContentOK' /\ FillOK(t)'
<1>1. CASE \E p \in Blocks : Request(t, p)
  <2>1. PICK p \in Blocks : Request(t, p)
    BY <1>1
  <2>2. /\ at \in [Agents -> Places] /\ frame \in [Agents -> Frame] /\ t \in Agents
    BY ThreadsAreAgents DEF MapInv, StateInv, TypeOK
  <2> DEFINE f == [NoFrame EXCEPT !.pos = p, !.block = p, !.caller = "load"]
  <2>3. at' = [at EXCEPT ![t] = "first"] /\ frame' = [frame EXCEPT ![t] = f]
        /\ UNCHANGED <<m_blocks, database>>
    BY <2>1 DEF Request, Goto, mapVars
  <2>4. f.data = None
    BY DEF NoFrame
  <2> HIDE DEF f
  <2>5. OnlyAgent(t) /\ at'[t] = "first" /\ frame'[t].data = None
    BY <2>2, <2>3, <2>4 DEF OnlyAgent
  <2> QED BY <2>3, <2>5, NoneIsNoData, OutsideFill DEF Filling
<1>2. CASE getBlockOrStartGen(t)
  <2>1. UNCHANGED <<m_blocks, database>> /\ at[t] \in OwnPlaces
    BY <1>2 DEF getBlockOrStartGen, mapVars, OwnPlaces
  <2>2. \/ Leave(t)
        \/ \E place \in {"start", "read", "load"} : Goto(t, place) /\ UNCHANGED frame
    BY <1>2 DEF getBlockOrStartGen
  <2> QED BY <2>1, <2>2, LeavesFill, GoesFill
<1>3. CASE StartGen(t)
  <2>1. /\ UNCHANGED <<m_blocks, database>> /\ at[t] \in OwnPlaces
        /\ Leave(t) \/ (Goto(t, "process") /\ UNCHANGED frame)
    BY <1>3 DEF StartGen, EnterProgress, mapVars, OwnPlaces
  <2> QED BY <2>1, LeavesFill, GoesFill
<1>4. CASE EnterProcess(t)
  <2>1. /\ UNCHANGED <<m_blocks, database>> /\ at[t] \in OwnPlaces
        /\ Leave(t) \/ (Goto(t, "create") /\ UNCHANGED frame)
    BY <1>4 DEF EnterProcess, mapVars, OwnPlaces
  <2> QED BY <2>1, LeavesFill, GoesFill
<1>5. CASE EraseInProgress(t)
  <2>1. /\ UNCHANGED <<m_blocks, database>> /\ at[t] \in OwnPlaces
        /\ Goto(t, "unprocess") /\ UNCHANGED frame
    BY <1>5 DEF EraseInProgress, mapVars, OwnPlaces
  <2> QED BY <2>1, GoesFill
<1>6. CASE EraseProcess(t)
  BY <1>6, LeavesFill DEF EraseProcess, mapVars
<1> QED BY <1>1, <1>2, <1>3, <1>4, <1>5, <1>6

(* The chunk is complete: no block of it has no content.                   *)
LEMMA FinishFill ==
  ASSUME MapInv, ContentOK, NEW t, Threads = {t}, FillOK(t), FinishBlockMake(t)
  PROVE  ContentOK' /\ FillOK(t)'
<1>1. /\ at \in [Agents -> Places] /\ t \in Agents
      /\ m_blocks \in [Blocks -> Block \union {None}]
      /\ at[t] = "blit" /\ todo[t] = {} /\ UNCHANGED <<database, frame>>
      /\ at' = [at EXCEPT ![t] = "unlist"] /\ FlagGenerated(t)
  BY ThreadsAreAgents DEF MapInv, StateInv, TypeOK, FinishBlockMake, Goto
<1>2. OnlyAgent(t) /\ at'[t] = "unlist"
  BY <1>1 DEF OnlyAgent
<1>3. frame[t].caller \in {"none", "load"} /\ ~ Filling(t)'
  BY <1>1, <1>2 DEF MapInv, StateInv, ThreadsOK, ThreadOK, OwnPlaces, Filling
<1>4. \A p \in Blocks : ChunkOf[p] = ChunkOfRequest(t) => ~ BlankIn(p)
  BY <1>1 DEF FillOK, Filling, ChunkFilled
<1>5. ASSUME NEW p \in Blocks, Generated(p)' PROVE m_blocks'[p].data # "blank"
  <2>1. CASE ~IsLoaded(p) \/ Generated(p) \/ ChunkOf[p] # ChunkOfRequest(t)
    BY <1>1, <1>5, <2>1 DEF FlagGenerated, ContentOK, Generated, IsLoaded
  <2>2. CASE IsLoaded(p) /\ ~ Generated(p) /\ ChunkOf[p] = ChunkOfRequest(t)
    <3>1. m_blocks'[p] = [m_blocks[p] EXCEPT !.generated = TRUE,
                                             !.modified = @ \/ vmanip[t][p] # None]
      BY <1>1, <2>2 DEF FlagGenerated
    <3>2. m_blocks[p] \in Block
      BY <1>1, <2>2 DEF IsLoaded
    <3>3. m_blocks'[p].data = m_blocks[p].data
      BY <3>1, <3>2 DEF Block
    <3> QED BY <1>4, <2>2, <3>3 DEF BlankIn
  <2> QED BY <2>1, <2>2
<1>6. FillOK(t)'
  BY <1>3 DEF FillOK
<1>7. \A u \in Users : u # t
  BY MapAssumption
<1> QED BY <1>1, <1>2, <1>5, <1>6, <1>7, ThreadsAreAgents DEF ContentOK, OnlyAgent

(* What is left to do is what is in memory of the area, and the blocks of  *)
(* the chunk that had no content have been made.                           *)
LEMMA MakeChunkFill ==
  ASSUME MapInv, ContentOK, NEW t, Threads = {t}, at[t] = "create", MakeChunk(t),
         UNCHANGED <<m_blocks, database>>
  PROVE  ContentOK' /\ FillOK(t)'
<1>1. CASE Leave(t)
  BY <1>1, LeavesFill
<1>2. CASE ~ Leave(t)
  <2> DEFINE copied(p) == p \in Area[ChunkOfRequest(t)] /\ IsLoaded(p)
  <2>1. /\ at \in [Agents -> Places] /\ frame \in [Agents -> Frame] /\ t \in Agents
        /\ todo \in [Threads -> SUBSET Blocks] /\ t \in Threads
        /\ vmanip \in [Threads -> [Blocks -> Data \union {None}]]
    BY ThreadsAreAgents DEF MapInv, StateInv, TypeOK
  <2>2. /\ at' = [at EXCEPT ![t] = "blit"] /\ frame' = frame
        /\ todo' = [todo EXCEPT ![t] = {p \in Blocks : copied(p)}]
        /\ vmanip' = [vmanip EXCEPT ![t] = [p \in Blocks |->
             IF ~copied(p) THEN None
             ELSE IF m_blocks[p].data = "blank" /\ ChunkOf[p] = ChunkOfRequest(t)
             THEN "gen" ELSE m_blocks[p].data]]
    BY <1>2 DEF MakeChunk, Goto
  <2>3. OnlyAgent(t) /\ at'[t] = "blit"
    BY <2>1, <2>2 DEF OnlyAgent
  <2>4. /\ todo'[t] = {p \in Blocks : copied(p)}
        /\ \A p \in Blocks : vmanip'[t][p] =
             IF ~copied(p) THEN None
             ELSE IF m_blocks[p].data = "blank" /\ ChunkOf[p] = ChunkOfRequest(t)
             THEN "gen" ELSE m_blocks[p].data
    BY <2>1, <2>2
  <2>5. ASSUME NEW p \in Blocks, ChunkOf[p] = ChunkOfRequest(t)
        PROVE  /\ p \in todo'[t] => vmanip'[t][p] # "blank"
               /\ BlankIn(p) => p \in todo'[t]
    <3>1. p \in Area[ChunkOfRequest(t)]
      BY <2>5, MapAssumption
    <3> QED BY <2>4, <2>5, <3>1 DEF BlankIn
  <2>6. FillOK(t)'
    <3>1. ChunkOfRequest(t)' = ChunkOfRequest(t) /\ \A p \in Blocks : BlankIn(p)' <=> BlankIn(p)
      BY <2>2 DEF ChunkOfRequest, BlankIn, IsLoaded
    <3>2. \A p \in Blocks : ~ AtHand(t, p)'
      BY <2>3 DEF AtHand
    <3>3. ChunkFilled(t)'
      BY <2>5, <3>1, <3>2 DEF ChunkFilled
    <3> QED BY <2>3, <3>3 DEF FillOK
  <2>7. ContentOK'
    <3>1. \A p \in Blocks : (Generated(p)' => m_blocks'[p].data # "blank") /\ database'[p] # "blank"
      BY DEF ContentOK, Generated, IsLoaded
    <3>2. \A u \in Users : u # t
      BY MapAssumption
    <3> QED BY <2>2, <2>3, <3>1, <3>2, ThreadsAreAgents DEF ContentOK, OnlyAgent
  <2> QED BY <2>6, <2>7
<1> QED BY <1>1, <1>2

(* emergeBlockPtr(), called for a block of the area.                       *)
LEMMA AreaFill ==
  ASSUME MapInv, ContentOK, NEW t, Threads = {t}, NEW p \in Blocks,
         NEW caller \in {"init", "blit"}, EmergeBlock(t, p, caller),
         UNCHANGED <<m_blocks, database, vmanip>>,
         caller = "blit" => at[t] = "blit" /\ p \in todo[t] /\ FillOK(t)
  PROVE  ContentOK' /\ FillOK(t)'
<1>1. /\ at \in [Agents -> Places] /\ frame \in [Agents -> Frame] /\ t \in Agents
      /\ t \notin Users /\ t \in Threads
  BY ThreadsAreAgents, MapAssumption DEF MapInv, StateInv, TypeOK
<1>2. /\ OnlyAgent(t) /\ frame'[t].data # "blank"
      /\ Filling(t)' =>
           /\ caller = "blit" /\ at'[t] # "blit" /\ todo' = todo
           /\ frame'[t].block = p /\ frame'[t].pos = frame[t].pos
           /\ BlankIn(p) => at'[t] = "copy" /\ frame'[t].held = "live"
  <2>1. CASE IsLoaded(p)
    <3>1. Got(t, caller, p, "live")
      BY <2>1 DEF EmergeBlock
    <3>2. /\ OnlyAgent(t) /\ frame'[t].data # "blank"
          /\ Filling(t)' =>
               /\ caller = "blit" /\ at'[t] = "copy" /\ todo' = todo
               /\ frame'[t].block = p /\ frame'[t].held = "live" /\ frame'[t].pos = frame[t].pos
      BY <1>1, <3>1, GotFill
    <3> QED BY <3>2
  <2>2. CASE ~ IsLoaded(p)
    <3>1. /\ at' = [at EXCEPT ![t] = "read"] /\ todo' = todo
          /\ frame' = [frame EXCEPT ![t].block = p, ![t].caller = caller]
      BY <2>2 DEF EmergeBlock, Goto
    <3>2. /\ OnlyAgent(t) /\ at'[t] = "read" /\ frame'[t].data = frame[t].data
          /\ frame'[t].caller = caller /\ frame'[t].block = p
          /\ frame'[t].pos = frame[t].pos
      BY <1>1, <3>1 DEF OnlyAgent, Frame
    <3>3. ~ BlankIn(p) /\ frame[t].data # "blank"
      BY <1>1, <2>2 DEF BlankIn, ContentOK
    <3> QED BY <3>1, <3>2, <3>3 DEF Filling
  <2> QED BY <2>1, <2>2
<1>3. CASE ~ Filling(t)'
  BY <1>2, <1>3, OutsideFill
<1>4. CASE Filling(t)'
  <2>1. /\ at[t] = "blit" /\ p \in todo[t] /\ ChunkFilled(t)
    BY <1>2, <1>4 DEF FillOK, Filling
  <2>2. ASSUME NEW q \in Blocks, ChunkOf[q] = ChunkOfRequest(t)'
        PROVE  /\ q \in todo'[t] => vmanip'[t][q] # "blank"
               /\ BlankIn(q)' => /\ q \in todo'[t]
                                 /\ AtHand(t, q)' => at'[t] = "copy" /\ frame'[t].held = "live"
    <3>1. ChunkOf[q] = ChunkOfRequest(t) /\ (BlankIn(q)' <=> BlankIn(q)) /\ (AtHand(t, q)' => q = p)
      BY <1>2, <1>4, <2>2 DEF ChunkOfRequest, BlankIn, IsLoaded, AtHand
    <3> QED BY <1>2, <1>4, <2>1, <3>1 DEF ChunkFilled
  <2>3. FillOK(t)'
    <3>1. ChunkFilled(t)'
      BY <2>2 DEF ChunkFilled
    <3> QED BY <1>2, <1>4, <2>1, <3>1 DEF FillOK
  <2>4. ContentOK'
    <3>1. \A q \in Blocks : (Generated(q)' => m_blocks'[q].data # "blank") /\ database'[q] # "blank"
      BY DEF ContentOK, Generated, IsLoaded
    <3>2. \A u \in Users : u # t
      BY <1>1
    <3> QED BY <1>2, <3>1, <3>2, ThreadsAreAgents DEF ContentOK, OnlyAgent
  <2> QED BY <2>3, <2>4
<1> QED BY <1>3, <1>4

(* The block at hand gets its content, or has had one, or is gone.         *)
LEMMA CopyFill ==
  ASSUME MapInv, ContentOK, NEW t, Threads = {t}, FillOK(t), CopyBlock(t)
  PROVE  ContentOK' /\ FillOK(t)'
<1>1. PICK p \in Blocks : p = frame[t].block
  BY ThreadsAreAgents DEF MapInv, StateInv, Frames, FrameOK, CopyBlock
<1>2. /\ at \in [Agents -> Places] /\ frame \in [Agents -> Frame] /\ t \in Agents
      /\ todo \in [Threads -> SUBSET Blocks] /\ t \in Threads
      /\ m_blocks \in [Blocks -> Block \union {None}]
  BY ThreadsAreAgents DEF MapInv, StateInv, TypeOK
<1>3. /\ at[t] = "copy" /\ at' = [at EXCEPT ![t] = "blit"] /\ UNCHANGED <<database, vmanip>>
      /\ todo' = [todo EXCEPT ![t] = @ \ {p}]
      /\ m_blocks' = IF frame[t].held # "live" \/ Generated(p) THEN m_blocks
                     ELSE [m_blocks EXCEPT ![p] =
                             [@ EXCEPT !.data = vmanip[t][p], !.modified = TRUE]]
  BY <1>1 DEF CopyBlock, CopyFrom, Goto
<1>4. /\ OnlyAgent(t) /\ at'[t] = "blit" /\ todo'[t] = todo[t] \ {p}
      /\ frame'[t].data = None /\ frame'[t].pos = frame[t].pos
  <2> DEFINE f == [NoFrame EXCEPT !.pos = frame[t].pos]
  <2>1. frame' = [frame EXCEPT ![t] = f]
    BY DEF CopyBlock
  <2>2. f.data = None /\ f.pos = frame[t].pos
    BY DEF NoFrame
  <2> HIDE DEF f
  <2> QED BY <1>2, <1>3, <2>1, <2>2 DEF OnlyAgent
<1>5. frame[t].caller = "blit" /\ (frame[t].held = "live" => IsLoaded(p))
  BY <1>1, <1>2, <1>3 DEF MapInv, StateInv, Frames, FrameOK, ThreadsOK, ThreadOK
<1>6. p \in todo[t] /\ ChunkFilled(t)
  BY <1>1, <1>3, <1>5 DEF FillOK, Filling
<1>7. \/ m_blocks'[p] = m_blocks[p] /\ (frame[t].held # "live" \/ Generated(p))
      \/ m_blocks'[p].data = vmanip[t][p] /\ m_blocks'[p].generated = FALSE
  <2>1. CASE frame[t].held # "live" \/ Generated(p)
    BY <1>3, <2>1
  <2>2. CASE frame[t].held = "live" /\ ~ Generated(p)
    <3>1. m_blocks[p] \in Block /\ m_blocks[p].generated = FALSE
      BY <1>2, <1>5, <2>2 DEF IsLoaded, Generated, Block
    <3> DEFINE b == [m_blocks[p] EXCEPT !.data = vmanip[t][p], !.modified = TRUE]
    <3>2. m_blocks' = [m_blocks EXCEPT ![p] = b]
      BY <1>3, <2>2
    <3>3. b.data = vmanip[t][p] /\ b.generated = FALSE
      BY <3>1 DEF Block
    <3> HIDE DEF b
    <3> QED BY <1>2, <3>2, <3>3
  <2> QED BY <2>1, <2>2
<1>8. \A q \in Blocks : q # p => m_blocks'[q] = m_blocks[q]
  BY <1>2, <1>3
<1>9. ContentOK'
  <2>1. \A q \in Blocks : (Generated(q)' => m_blocks'[q].data # "blank") /\ database'[q] # "blank"
    BY <1>3, <1>7, <1>8 DEF ContentOK, Generated, IsLoaded
  <2>2. \A u \in Users : u # t
    BY MapAssumption
  <2> QED BY <1>4, <2>1, <2>2, NoneIsNoData, ThreadsAreAgents DEF ContentOK, OnlyAgent
<1>10. ASSUME NEW q \in Blocks, ChunkOf[q] = ChunkOfRequest(t)
       PROVE  /\ q \in todo'[t] => vmanip'[t][q] # "blank"
              /\ BlankIn(q)' => q \in todo'[t]
  <2>1. q \in todo'[t] => vmanip'[t][q] # "blank"
    BY <1>3, <1>4, <1>6, <1>10 DEF ChunkFilled
  <2>2. CASE q # p
    <3>1. BlankIn(q)' => BlankIn(q)
      BY <1>8, <2>2 DEF BlankIn, IsLoaded
    <3> QED BY <1>4, <1>6, <1>10, <2>1, <2>2, <3>1 DEF ChunkFilled
  <2>3. CASE q = p
    <3>1. vmanip[t][p] # "blank" /\ (BlankIn(p) => frame[t].held = "live")
      BY <1>1, <1>3, <1>6, <1>10, <2>3 DEF ChunkFilled, AtHand
    <3>2. ~ (BlankIn(p) /\ Generated(p))
      BY DEF BlankIn, ContentOK
    <3>3. ~ BlankIn(p)'
      BY <1>7, <3>1, <3>2 DEF BlankIn, IsLoaded
    <3> QED BY <2>1, <2>3, <3>3
  <2> QED BY <2>2, <2>3
<1>11. FillOK(t)'
  <2>1. ChunkOfRequest(t)' = ChunkOfRequest(t)
    BY <1>4 DEF ChunkOfRequest
  <2>2. \A q \in Blocks : ~ AtHand(t, q)'
    BY <1>4 DEF AtHand
  <2>3. ChunkFilled(t)'
    BY <1>10, <2>1, <2>2 DEF ChunkFilled
  <2> QED BY <1>4, <2>3 DEF FillOK
<1> QED BY <1>9, <1>11

LEMMA EmergeThreadFill ==
  ASSUME MapInv, ContentOK, NEW t, Threads = {t}, FillOK(t), EmergeThread(t, Blocks)
  PROVE  ContentOK' /\ FillOK(t)'
<1>1. CASE CreateArea(t)
  <2>1. at[t] = "create" /\ UNCHANGED <<m_blocks, database>>
    BY <1>1 DEF CreateArea, mapVars
  <2>2. CASE MakeChunk(t)
    BY <2>1, <2>2, MakeChunkFill
  <2>3. CASE (\E p \in todo[t] : EmergeBlock(t, p, "init")) /\ UNCHANGED vmanip
    <3>1. todo[t] \subseteq Blocks
      BY DEF MapInv, StateInv, TypeOK
    <3> QED BY <2>1, <2>3, <3>1, AreaFill
  <2> QED BY <1>1, <2>2, <2>3 DEF CreateArea
<1>2. CASE BlitBack(t)
  <2>1. /\ at[t] = "blit" /\ UNCHANGED <<m_blocks, database, vmanip>>
        /\ todo[t] \subseteq Blocks
    BY <1>2 DEF BlitBack, mapVars, MapInv, StateInv, TypeOK
  <2>2. PICK p \in todo[t] : EmergeBlock(t, p, "blit")
    BY <1>2 DEF BlitBack
  <2> QED BY <2>1, <2>2, AreaFill
<1> QED BY <1>1, <1>2, AsideFill, FinishFill, CopyFill DEF EmergeThread

(* timerUpdate() erases blocks that are not generated under the thread     *)
(* that generates them, but nobody else makes them again: with one emerge  *)
(* thread ("num_emerge_threads", "1"), for any blocks, chunks and users,   *)
(* no block without content is marked as generated, or saved.              *)
THEOREM AloneGeneratesCorrect ==
  ASSUME NEW t, Threads = {t}
  PROVE  Spec => []GeneratedHasData
<1>1. Init => ContentOK /\ FillOK(t)
  <2> SUFFICES ASSUME Init PROVE ContentOK /\ FillOK(t)
    OBVIOUS
  <2>1. \A p \in Blocks : database[p] # "blank" /\ ~ Generated(p)
    BY NoneIsNoData DEF Init, Generated, IsLoaded
  <2>2. \A a \in Agents : frame[a] = NoFrame /\ at[a] = "idle"
    BY DEF Init
  <2>3. ~ Filling(t)
    BY <2>2, ThreadsAreAgents DEF Filling
  <2> QED BY <2>1, <2>2, <2>3, NoneIsNoData, ThreadsAreAgents DEF ContentOK, FillOK
<1>2. MapInv /\ ContentOK /\ FillOK(t) /\ [Next]_vars => ContentOK' /\ FillOK(t)'
  <2> SUFFICES ASSUME MapInv, ContentOK, FillOK(t), [Next]_vars
               PROVE  ContentOK' /\ FillOK(t)'
    OBVIOUS
  <2>1. CASE UNCHANGED vars
    <3>1. /\ UNCHANGED <<m_blocks, database, at, frame, todo, vmanip>>
      BY <2>1 DEF vars, mapVars, agentVars
    <3>2. NoNewBlank
      BY <3>1 DEF NoNewBlank, BlankIn, IsLoaded
    <3>3. ContentOK'
      BY <3>1 DEF ContentOK, Generated, IsLoaded
    <3> QED BY <3>1, <3>2, <3>3, OthersKeep
  <2>2. CASE Next
    BY <2>2, LoadFill, EmergeThreadFill, EditFill, UseFill, MapThreadFill DEF Next, NextOf
  <2> QED BY <2>1, <2>2
<1>3. ContentOK => GeneratedHasData
  BY DEF ContentOK, GeneratedHasData
<1> QED BY <1>1, <1>2, <1>3, MapInvariant, PTL DEF Spec
=============================================================================
